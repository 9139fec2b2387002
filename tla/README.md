# Verification of run-mux

TLA+ models of run-mux, the daemon that starts, watches and stops the commands of a
playbook for every checkout of a repository, with the configurations that model-check
them (TLC) and theorems about them (TLAPS). Paths below are relative to the
repository; `supervisor.ts:238` means line 238 of `src/supervisor/supervisor.ts`.

`PROJECT.json` lists the components, the runs, the hazards with the properties aimed
at them, the source lines every definition stands for, and for every property a
mistake in the code it would catch: the operators marked "Mistake" in the modules are
such mistaken variants of the definition that follows them and are used nowhere else.

## The system

The daemon is one Node.js process. Everything in it runs on one event loop, so an
uninterrupted turn (a request handler up to its first `await`, the code after an
`await`, a timer, an event of a child process) is atomic, and what can go wrong lies
between turns. Clients and child processes are concurrent.

| Component | State | Operations | Hard parts |
|---|---|---|---|
| Playbook (`config/schema.ts`, `types.ts`) | none | which dependency graphs are accepted; what can ever start | two algorithms in two layers that must agree |
| Supervisor (`supervisor/supervisor.ts`) | per command: status, child, intent, scheduled respawn; whom to wait for | start, stop, restartCommand, exits, backoff timers | exits racing restarts and stops, gates, cascading failures |
| Kill escalation (`supervisor/kill.ts`) | one call | ask, wait, force, wait | process groups outliving their shell, `taskkill` failing or answering late |
| Backoff (`supervisor/backoff.ts`) | a counter | the next delay | the boundaries of healthy uptime and cap |
| Registry (`daemon/registry.ts`) | entries and a queue of operations per target | start, stop, restartCommand, stopAll | overlapping requests during a teardown |
| Daemon (`daemon/daemon.ts`, `index.ts`) | stopping | reap, listen, autostart, shutdown | the shutdown among requests |
| Methods (`daemon/methods.ts`) | none of its own | the RPC handlers | state read before an `await` and used after it |
| Reaper (`daemon/reap.ts`) | none | kill what a dead daemon left | reused process ids, crashes during the reap |
| State, slots, targets (`state/`) | `state.json` | mutate and write atomically; allocate a slot; add and remove targets | a crash between two writes |
| Log store, follow (`logs/`) | open runs, files | append, finish, prune, query, follow | stitching the file to live entries |
| IPC (`ipc/server.ts`, `client.ts`, `framing.ts`) | connections, subscriptions | dispatch, subscribe, unsubscribe, close | closing with requests and streams open |
| Autospawn (`ipc/spawn.ts`) | a lock file and the socket | spawn one daemon among many clients | stale locks, giving up too early |
| Config, env, git (`config/`, `git/`) | files of the user | load, layer, list checkouts | read at one moment, used at another |
| CLI (`cli/`) | none | parse, send one request, print | only `daemon restart` |
| TUI (`tui/`) | what is on screen; a debounce, a cache, a log buffer | keys, the mouse, polls, streams | late answers, rows that move under the pointer |

Calls go down this chain: a client connects (spawning the daemon if need be) and sends
a request; a method resolves the target and queues an operation in the registry; the
operation tears a run down or spawns a supervisor; the supervisor spawns children and
kills them through the escalation. Status, output and child records come back through
callbacks into the registry, the log store and the state file.

What makes each part correct:

- *Playbook*: a playbook is accepted exactly when every one of its commands can come
  up.
- *Supervisor*: no command runs before its dependencies succeeded; one that can run is
  run; each command has one process at most; after `stop()` nothing runs.
- *Kill*: what was to be killed is gone when the call resolves, or was force-killed.
- *Registry, daemon*: runs of a target do not overlap; nothing runs unowned; a stop
  lasts; a shutdown ends and leaves nothing.
- *Reaper*: what a dead daemon left running stays on record until it is killed.
- *State, slots, config*: two checkouts of what the daemon knows as one repository
  never share a slot; a run from an older definition is marked; what the user wrote is
  not overwritten.
- *Logs*: a file holds each entry once and in order; a follower sees every entry once
  and in order, wherever it starts.
- *IPC*: bytes become the same frames however they are cut; a request is answered
  once; a stream is whole, and ends with its connection.
- *Autospawn*: one daemon serves the socket, and a client reaches it.
- *TUI*: the pane belongs to the selection, a scrolled-away window holds still, the
  view is what the next session will see, a form pairs only what belongs together.

## Modules

| Module | Models | Uses |
|---|---|---|
| `Playbook` | the `dependsOn` graph: what the config layer accepts, what can start, whom a failure takes along; pure operators, closures as least fixed points | |
| `PlaybookAlgorithms` | the three loops of the source over the same graph, in listing order | `Playbook` |
| `Supervisor` | one run of one playbook | `Playbook` |
| `PlaybookRun` | the abstract run: which statuses a run may report after which | `Playbook` |
| `KillTree` | one call of `killTrees` | |
| `Registry` | the runs of one daemon, its queues, autostart and shutdown | the contract of `Supervisor` |
| `DaemonBoot` | daemons over one socket path and one list of child records: boot, reap, serve, crash, stop | |
| `Autospawn` | clients that start a daemon when none answers | extends `DaemonBoot` |
| `LogFollow` | the log files of one target, and one follower or query | |
| `Connection` | one connection, both ends, and the frames in between | |
| `Framing` | the decoder that makes frames of bytes | |
| `Targets` | state file, config, checkouts, and the runs made from them | |
| `Sidebar` | the interface's list of targets, and the view state kept in the daemon | |
| `LogPane` | the interface's pane: one stream, one buffer, one window | extends `Sidebar` |
| `Palette` | the interface's verbs, forms, pickers and their cache | extends `Sidebar` |
| `Terminal` | the interface as a whole | extends `LogPane`, `Palette` |
| `SupervisorProofs` (also of `Playbook` and `PlaybookAlgorithms`), `KillTreeProofs`, `RegistryProofs`, `AutospawnProofs` (also of `DaemonBoot`), `LogFollowProofs`, `ConnectionProofs` (also of `Framing`), `TargetsProofs`, `TerminalProofs` (of `Sidebar`, `LogPane` and `Palette`) | theorems | the modules they are named for |
| `MC...` | values for the constants of the models | |

**Supervisor.** One action is one turn of the event loop. `status`, `child`, `intent`
and `timer` are the fields of a `Slot`; `succeeded`, `blocked` and `inFlight`
(`restartsInFlight`) those of the class; `stop` and `settling` stand for the suspended
`runStop`. `Start`, `Stop` and `Restart*` are the public calls up to their first
`await`, `StopResume` and `RestartResume` what follows it. A child ends in two steps,
as in Node: `ProcExit` is the process, and one of the five `Exit*` actions is
`handleExit` once the pipes are closed or the flush grace is over, each one branch of
that function with everything it calls (opening gates, cascading). A spawn may
succeed, throw, or return a child without a process. Exit codes are reduced to zero or
not, delays to "some time". `killTrees` appears as what it promises, that it gives up
in bounded time.

**PlaybookRun.** The specification a user could write of the statuses a run shows: a
command leaves "pending" when its gate is met or a task it depends on fails, one
command moves at a time otherwise, and nothing starts once the run is stopping.
`Supervisor` is shown to implement it, with `phase` read as `status` and `won` as
`succeeded`.

**KillTree.** Each child is a shell, and a "worker" that stands for the rest of its
process group, which may come, ignore a polite request, outlive the shell, or be
forked late. On Windows the two `taskkill` runs end at any time, with any result, also
after `killTrees` has stopped waiting. A grace period may end at any moment. The reuse
of process ids is left out.

**Registry.** Operations wait in a queue per target (`serialise`); the head is at
work. A run is a number, and its supervisor is reduced to what `Supervisor`
establishes: processes come and go until `stop()`, then only go, and `stop()` resolves
when the last is gone. An operation that has nothing to wait for is finished before
the loop turns to the next message or timer (`Due`, `Idle`), so no state of the model
lies between two microtasks that nothing can separate; for the same reason the
autostart is over before the first request. `StopOver` includes the end of
`target.remove`, whose handler resumes before the next operation of the queue.
`lastAsk` and `seen` are history: they record what was asked last and what `stopAll`
found, and no action reads them.

**DaemonBoot.** A daemon goes through `reap`, `kill`, `clear`, `listen`, `unlink`,
`bind` (`startDaemon`), is `up`, and ends through `stopping` and `closing`, the two
halves of its shutdown. Each has one child, which stands for all; its record is
written in the turn of its spawn and removed in the turn of its exit. A daemon can be
killed anywhere, also between a spawn and its record. The lookup of creation times may
fail, or not name a process, and a kill may fail; pid reuse appears as a record that
names nobody. On Windows the pipe goes with its process; elsewhere the socket file
stays, and `clearStaleSocket` probes and removes it in two steps.

**Autospawn.** A client is where `ensureDaemon` is suspended. The lock file is created
empty and gets its pid a step later; a stale one is recognised and removed in two
steps; the file's age and the deadlines are choices. `AskStop` and `AwaitExit` are
`daemon restart`.

**LogFollow.** A run is what `createRun` closes over: lines that are pending, given to
the stream, written, and the stragglers of a run that is being finished. The stream
writes beside the event loop. The reader is `follow` or `query` from its call to the
switch to live entries; `cut` is taken in the turn that subscribes. `emit` calls the
follower in the turn of the append; `Delivered` is what draining the buffer does with
one event of it.

**Connection.** Two channels of frames, each ended by "fin". `OnFrame` is `route`, the
server's `dispatch` is one action up to the handler's `await` (`OnRequest`,
`OnSubscribe`, `OnUnsubscribe`) and `Respond` what follows. Either socket can be
destroyed with a suffix of what was written lost: a crash, `abort`, `server.close`. An
answer may be "oversized": the client's decoder skips it, `client.ts:225-228` ignores
what that reports, and `skipped`, a history variable, names the request. Nothing else
is as big: requests, errors, the answers to subscriptions and entries of a log are
short. What the server does with frames that are no requests is left out, as the
client sends none.

**Framing.** `Feed` is one chunk handed to `push`, of any length; a byte is a newline, a blank, or part
of a line that parses or not.

**Targets.** One action is one turn of a handler, except that `createTarget` and
`removeTarget` write the state file twice and the daemon may die in between (`doing`).
A repository is the path a client has sent for it, any path, one of its linked
checkouts as well: a target holds the path it was added under, `repoIndex` the path of
the last call for a checkout, and only git's answer (`Lists`, `Mains`) knows what
belongs together. Starts, stops and removals wait in the registry's queue with the
definition they were planned from, read before they were queued. The user edits the
config (also into something that does not parse), the committed file of a checkout,
branches and checkouts meanwhile. `strayed`, `split`, `lost`, `across`, `edited`,
`unread` and `mine` are history, which no action reads: checkouts whose repository the
daemon cannot know, runs whose target or definition changed while they were queued,
and what the user last wrote.

**Sidebar, LogPane, Palette, Terminal.** One action is one key, mouse report, timer or
answer, with the renderings and effects it causes at once. `Sidebar` has the order,
the folds, drags, the debounced `ui.set` and the late `ui.get`. In `LogPane` each
change of the selection is a new *view*, and grants, failures, data and answers name
the view that asked. The buffer is the code's: unfinished lines per label, trimming,
the count of arrivals that keeps a scrolled window in place. `Palette` reduces the
verbs to the three shapes their forms have. In `Terminal` a behaviour has a *focus*,
the part whose steps it takes besides those of the list: the parts meet only in the
list and the selection.

## Runs

| Run | Module | Bounds | Shows |
|---|---|---|---|
| `run` | `MCSupervisor` | every playbook of one or two commands, also invalid ones (a label that is not declared, cycles, services that are depended on), and four shapes of three | gates, no missed start, hope while waiting, one owner of a restart, quiet after stop, no spawn after stop, no restart by itself, a failed run is final; the run implements `PlaybookRun`; stop and restarts complete; nobody waits for ever |
| `run_stuck_child` | `MCSupervisor` | two playbooks of three | a counterexample, see Findings |
| `algorithms` | `MCAlgorithms` | all graphs on three labels, one of them perhaps undeclared, in all orders; all streams of six bytes in all chunks, frames of two bytes | each loop computes the closure it stands for; the config layer and the supervisor agree; chunk boundaries do not matter |
| `kill_escalation` | `MCKillTree` | two trees in a batch, both platforms | resolved means gone; nobody escapes the force; the shells end |
| `kill_skips_exited_shell` | `MCKillTree` | the same | a counterexample |
| `registry` | `MCRegistry` | two targets, three runs each, two waiting operations each (three with the shutdown's) | no overlap, no unreachable run, the last stop wins, the shutdown kills what it saw and ends |
| `shutdown_during_teardown` | `MCRegistry` | two runs each | a counterexample |
| `autospawn` | `MCAutospawn` | two clients; a daemon that ran before and two more; one crash, one stop | one daemon when nothing is killed, late or left over; orphans stay on record; a waiting client gets on |
| `log_follow` | `MCLogFollow` | two runs of three entries, one run kept; a reader of everything or of the last entry | files are in order; followers and queries miss and repeat nothing |
| `connection` | `MCConnection` | two requests or subscriptions, two pushes each | nothing leaks, streams are whole, requests settle, one whose answer was skipped with the connection |
| `targets` | `MCTargets` | three checkouts of a repository, which goes by two paths, two playbooks in two versions; six situations to start from, each with its targets, edits (two at most), writes of the daemon and restarts (one each at most); two operations under way | slots stay apart, outdated runs are marked, edits survive |
| `terminal` | `MCTerminal` | two targets of one repository, one with a playbook that is not listed, which gives way to one of a repository that is not registered; two registered repositories; two gestures, one change of the list, three views, three chunks, two palette sessions | the view is stored, the pane follows the selection and holds still, forms agree |

*Why the bounds are enough.* A supervisor's commands interact pairwise (a dependency,
or none) except in chains and joins, which is what the four playbooks of three add.
Every label starts in every state of its own machine while another is in any other. In
a batch of trees the second one only adds that the first may be gone already. Two
operations waiting in a queue are a request behind another that waits for a teardown;
the third run of a target follows one that itself replaced another, and two targets
let the shutdown find one running and one being torn down. Two clients race for the
lock, and the third daemon is the one that comes after a crash of the second; three
entries are one in the file, one in the buffer and one live, or a straggler; two ids
let one stream end while another request is in flight. In `targets` two linked
checkouts compete for the same slot, the main one and a linked one run one playbook,
one checkout has two targets, a linked checkout is added under its own path and a
second one under that of the main one, and the main one under that of a linked one; with
an edit of the user, a write of the daemon and another edit, the config in memory is
older than the file whenever it can be. In `terminal` a
view that is left, one that replaces it and a third make every answer late by one and
by two; four retained lines and a window of two let a trim, a full window and a filter
meet. Bounds are smallest in `terminal` and `targets`: two edits of checkouts in
a row, two restarts, or drags of more targets, are beyond them. No safety result of a
passing run rests on these bounds, as the theorems below state each of them for all
values of the constants; liveness does.

*Deadlock* is not checked where the system may stop: a run that has ended, a call that
has resolved, a daemon that has exited.

*Fairness.* Code whose `await` has resolved runs, due timers fire, flushes end, Node
reports exits (`LoopFairness` in `Supervisor`, the weak fairness of `FairSpec` in
`KillTree` and `Registry`): the event loop guarantees it. That a process dies when it
is killed is the kernel's: it is assumed separately (`KillsWork`), only of processes
that are being killed, and `run_stuck_child` shows what happens without it. Nobody is
assumed to make a request, no process to exit by itself; that tasks end is a premise
of `NobodyWaitsForever` and of nothing else. In `Autospawn` each client and each
daemon goes on, files age, and the deadline of whoever holds the lock runs out
(`Fairness`; a waiter's own need not). In `Connection` what was sent is delivered and
handlers return. The other modules have no liveness properties, hence no fairness.

## Findings

1. **A stop may never resolve** (`run_stuck_child`). `runStop` bounds the kill and
   then awaits the exit of every child without a bound (`supervisor.ts:209`), although
   `kill.ts:32-33` and `daemon.ts:126-127` promise that a process that will not die
   does not hang the shutdown.
2. **What an exited shell leaves behind is not killed** (`kill_skips_exited_shell`).
   `kill.ts:39` drops children whose shell is gone, while the rest of the group may
   live and the supervisor still waits for its pipes.
3. **A shutdown does not wait for a teardown under way** (`shutdown_during_teardown`).
   An entry is deleted before its run is stopped (`registry.ts:181-183`) and `stopAll`
   looks at entries only, so stopping the daemon shortly after stopping or restarting
   a target exits with the old processes alive and their pending SIGKILL never sent;
   `README.md:184` says that a clean shutdown kills them.

## Proofs

Every theorem holds for every value of the constants: any set of labels and any set of
playbooks, any number of children, targets, clients, daemons, checkouts, requests, bytes and log
entries, any answers of the daemon to the interface, and any bounds. What is assumed of
the constants is named in the module that declares them, and evaluated by the runs:

- `PlaybooksAssumption`: playbooks are records of the right type. No set of commands
  has to be finite; a cycle is defined as a nonempty set of commands each of which
  depends on a member, which in a finite playbook is what the search of the source
  finds (`CycleSearchFindsAll`).
- `AlgorithmsAssumption`: for the loops that compute these closures the labels are
  finitely many, as in a config file.
- `BoundsAssumption`, `LogFollowAssumption`, `ConnectionAssumption`, `FramingAssumption`:
  the bounds are natural numbers, at least one log run is kept and a run may have at
  least an entry, one tail is everything, and a frame may have at least a byte.
- `DaemonBootAssumption`, `AutospawnAssumption`: daemons are numbered 1, 2, ... in the
  order of their start, there are finitely many, and no client is named like one of
  the two owners a lock file has that are not clients.
- `TargetsAssumption`: the checkouts are finitely many (the lowest free slot exists),
  and the situations to start from are of the right type. Nothing is assumed of which
  paths name which repository, nor of what git lists from them.
- `SidebarAssumption`, `PaletteAssumption`, `LogPaneAssumption`: one of the lists of
  targets is a longest one (the interface starts with it), a list names a target once,
  and so does an order that an earlier session has stored (`OrdersOnce`: only the
  interface writes them, and `OrdersInv` shows that it writes no other); no repository
  has the empty path (targets may be of repositories and playbooks that no answer to
  `repo.list` has); a command may write some chunk.

In each module `IInv` is the inductive invariant: it holds at first, every step keeps
it (one lemma per group of actions), and the properties follow from it.

- **Playbook** (in `SupervisorProofs`). `ReachableFixpoint` and `ValidPlaybooksComeUp`: the config layer
  accepts a playbook exactly when the supervisor blocks none of its commands. If some
  command is blocked, then each blocked one depends on another blocked one, unless it
  names something undeclared or a service, and that set is a cycle.
- **PlaybookAlgorithms** (in `SupervisorProofs`). Each loop is a function defined by
  recursion, and that such a function exists has to be proved: `RecursionExists` builds
  it when what it returns rests on its values at points of less weight. The weight is
  the number of labels a pass has not reached yet, and for the queue and the search
  that number (of labels not seen, or not on the path) before the length of what is
  still to be visited. So the loops end, and induction on the weight shows what they
  return: a pass that adds nothing has found a closed set (`ReachableLoopFindsAll`);
  what was seen and is not queued has its dependents seen (`CascadeOK`,
  `CascadeReachesAll`); the path leads to the next label, so meeting it again closes a
  ring, and no ring passes through what is done (`OnPath`, `Sound`,
  `CycleSearchFindsAll`). `ValidationAgrees` is `ValidPlaybooksComeUp` again.
- **Supervisor.** The properties are not inductive: that a timer never finds a process
  in its slot, for instance, needs to know when each status goes with a child. `IInv`
  of `SupervisorProofs` adds how status, child and intent constrain each other
  (`SlotAgrees`), that a pending command has no history (`PendingIsFresh`), that a
  suspended restart owns the exit it waits for (`RestartOwned`), and that what is
  downstream of a failed task is no longer pending (`FailureCascaded`). From it follow
  `GatesAreRespected`, `ReadyCommandsAreSpawned`, `WaitingCommandsHaveHope`,
  `RestartsHaveOneOwner`, `StoppedRunsAreQuiet`, `FailedRunsAreFinal` and the action
  properties `NothingSpawnsAfterStop` and `NothingRestartsAlone`. Hope while waiting
  is the deepest: it takes the least set of commands that wait without hope, which is
  closed under dependence, and concludes that it would be blocked.
  `RunsImplementPlaybookRun` is the refinement: `start()` begins the abstract run,
  `stop()` halts it, a restart or an exit is a step of one command that may let others
  begin or take others along, and the rest, killing included, shows nothing. It
  rests on the same invariant: that what a turn spawns had its gate met, for one.
- **KillTree.** `ResolvedTreesAreGone` and `NobodyIsLeftUp` speak of the end of a call.
  The invariant carries them through the call: on POSIX nobody of the batch is up any
  more once the force request has gone out (`ForceReachedAll`), and only a shell that
  is up can fork.
- **Registry.** `IInv` of `RegistryProofs` says who owns a process (`Owned`), that the
  last operation of a queue is the last one asked for (`Answered`), that the shutdown
  has an operation queued wherever something it saw may still run (`Known`), and that
  only starts are queued while the autostart lasts (`Restoring`). From it:
  `RunsAreReachable`, `StopsAreFinal`, `RunsDoNotOverlap`, `ShutdownIsThorough`.
- **DaemonBoot, Autospawn.** Two invariants that do not need each other.
  `OrphansAreNeverForgotten` follows from `OrphanInv`: as long as daemons run one
  after the other, every child that is up is on record or spared, and a reaper that is
  about to clear the records has seen to all of them. `OneDaemonForAll` follows from
  `CalmInv`: while nothing is killed, late or left over, the lock file is a mutual
  exclusion (`LockIsExclusive`), whose owner waits for the daemon it has spawned until
  that daemon answers (`BootGuarded`), and the socket path does not change under the
  daemon that boots (`PathIsSteady`).
- **LogFollow.** `IndexIsSequenceNumber`: the lines of a file, the stream's queue, the
  pending lines and the stragglers, one after the other, are the entries 0, 1, 2, ...
  of their run (`RunInOrder`), and a run that has not ended is open, so that pruning
  leaves it alone (`StillThere`). `NoGapNoDuplicate` is `ReadersMissNothing`, for any
  number of runs, entries and tails. To a reader a step of the store is one of two
  things: no news, or the news of one entry that comes after every other, stragglers
  apart (`Hears`). `RInv` then says, phase by phase, what the reader holds of the
  entries there are: `flush()` waits for every line of the source before the cut
  (`FlushInv`), nothing before the cut is appended any more (`CutInv`), the buffer has
  everything the replay will not read (`BufferInv`), and what was read is one stretch
  of the file that ends where the cut says (`BacklogInv`). Draining is a fold over the
  buffer, and induction shows that it gives the backlog, then what was not replayed
  (`Deliveries`). From then on each piece of news goes to the end (`OutInv`).
- **Connection.** `ConnectionsLeakNothing` is all but inductive; `Wires` adds that
  only frames are on the wire. `StreamsLoseNothing` needs the life of an id: it is
  asked for once (`FreshOK`, `AskedOK`), nothing is said of it before the server has
  read the request (`Untouched`), while the server has the subscription nothing on the
  wire takes the client's handlers away (`OpenOK`), and a stream that has ended has no
  handlers to hear of it again (`EndsOK`). The channels are lossy at their end
  and unbounded, and the streams of any length.
- **Framing** (in `ConnectionProofs`). `ChunkBoundariesAreIrrelevant`. The bytes that
  have come are split in one go by the property and piece by piece by the decoder; the
  invariant says that the buffer is the rest of that one split, or dropped because it
  is too long. A split is a fold, and folds go on where they stopped (`SplitConcat`),
  what was complete stays in front (`SplitLines`), and a line begun in an earlier chunk
  ends at the first newline of a later one (`SplitGoesOn`). These are proved by
  induction over the bytes. The library's theorems for that take an operator as their
  parameter, which is out of reach; `NatSetInduction` and `SeqSetInduction` say the
  same of a set and follow from the well-foundedness of the naturals.
- **Targets.** `SlotsNeverMeet`, `ReloadsMarkWhatIsOld` and `WritesKeepTheRest`. State
  file, memory, queues and runs are written at different moments, and `IInv` says what
  each still knows of the others: a target about to be written has its slot
  (`AddIsNew`), the repository of every slot that has not strayed can be found
  (`SlotsKnown`), the path in memory and those of the targets of a checkout are one
  (`Agree`) and a zero is of a main checkout (`ZeroIsMain`), unless the checkout was
  added under another path; and a queued start or a run has the slot on record
  and its definition, unless it is lost or something was edited since (`QueueOK`,
  `RunsOK`). From that the lowest free number is free for every path that could ask
  (`NewSlot`), and noting a path for a checkout that has a slot meets no other's
  (`KeptSlot`). The proof found a case the model had left out: after a restart, a
  target may be started from its old record while its slug belongs to another checkout.
- **Palette.** `FormsBelongTogether`: what a scoped field of a form holds belongs to
  what its scope is now. `IInv` of `TerminalProofs` says that the picker cache has only
  what was answered, commands under the target they were asked for (`CacheOK`), and that
  the values of a form are those of its verb (`FormOK`). Three lemmas carry it: what a
  picker offers belongs to the scope it is read for (`Offered`), a write empties what it
  cannot vouch for (`ApplyKeepsAgreement`), and what is read off a target agrees
  (`SeedsAgree`, also of a repository or playbook that no list has). The order of
  answers does not enter: only the session they were asked in does.
- **LogPane** (in `TerminalProofs`). `PaneShowsSelection`. Every request and
  subscription remembers the view that asked for it; `ViewsOK` says how those relate to
  the current one (only it is subscribed, an older subscription is being ended), and
  `ShownOK` that whatever the pane shows or is about to show is of an owner (`Own`: the
  current view, or one whose output came too late to be stopped). The buffer is a fold
  over the entries that wait, and what each step of a fold keeps the fold keeps
  (`FoldKeeps`, by induction).
  `WindowHoldsStill` is the action property `HoldsStill`: new output does not move a
  window that is scrolled away from the end. `WindowOK` says what the window is, the
  part of the matching lines that is as far back as was scrolled, and that lines are
  numbered in the order they came. However many entries are appended at once, the old
  lines that are left are the end of those there were, each with its label, and with
  the text it matched by (`Descends`, kept by each `append`: `GoneOn`, and so by the
  fold: `FoldDescends`). So the old lines that match now are the end of those that
  matched (`EndsAlign`: two rising lists of which one has all that is greater than one
  of its own), the new ones that match come after them and are exactly those the code
  counts (`ArrivedIs`), and as many steps further back are the same lines
  (`WindowStays`).
- **Sidebar** (in `TerminalProofs`). `ViewIsKept`: what the user sees is what the next
  session will see, and every target has one row in an open group. The inductive
  invariant is `SideInv`, of two parts. `SyncOK` follows each field of the view through
  the debounce, the requests on their way and the daemon's file: the last that was said
  of it, wherever that is, is what is shown (`Synced`), and one nobody has said anything
  of is as it was stored when `ui.get` is answered (`Unsaid`). It has exceptions where
  the property has them: the edge while it is dragged, and `early` fields. `OrdersInv`
  says that every order, on the screen, unsent, on its way or stored, names everything
  once. That there is one row for each target then rests on what the functions of
  `order.ts` and `sidebar.ts` return, for lists of any length: a selection keeps order
  and members (`OnlyPicks`), sorting keeps the members, each once (`SortedOnce`), groups
  put one after the other have each of their members once if they have nothing in common
  (`FlattenOnce`), a move loses and doubles nothing (`MovedOnce`), and a row that is
  dropped takes the place of the one under the pointer while all others keep their order
  (`DropPutsInPlace`).

Model-checked only:

- the liveness properties (`StopTerminates`, `RestartSettles`, `NobodyWaitsForever`,
  `KilledShellsExit`, `ShutdownCompletes`, `WaiterGetsOn`, `RequestsSettle`): fairness
  and ENABLED are outside the prover's reach.

## Observed, without a run

Things the models show, or except by name in a property, that have no run of their
own: with the exception taken out, TLC finds the property violated in the run that
checks it. The first three contradict what a document or comment of the repository
says, which is quoted, and the fourth falls short of what one means to do.

- *Slots that meet.* `README.md:93-96` says of slots: "Each additional worktree gets 1,
  2, 3… scoped per repo, and the number never changes once assigned." But the
  repository is the path that a client sends, compared as a string (`slots.ts:24,68`,
  `targets.ts:68`), and a linked checkout can be named as its own repository: two
  linked checkouts that are each added from within (`rmux add . --checkout . --playbook
  dev`) both get slot 1. No crash, removal or race is needed. `SlotsApart` speaks of
  checkouts that share a path for that reason (`Paths`). A checkout with a slot that is
  added under a second path leaves the first one's count (`split`). A checkout named as
  its own repository counts as a main one while git does not answer from it, and gets
  slot 0 if it is given one then: `MainFor`.
- *Two daemons at once.* `spawn.ts:2-4`: ten shells "at once still produce exactly one
  daemon". After a crash, a stale lock or a deadline they may not: two clients that saw
  a lock stale can remove each other's new one (`spawn.ts:171`), and a holder may give
  up before its daemon answers. A second daemon reaps before it finds the socket taken,
  so it kills the children of the first (`daemon.ts:99`); its `clearChildren` also drops
  what the first recorded meanwhile (`reap.ts:107`); two that both find the socket
  stale remove each other's (`server.ts:343-357`), and a daemon that ends late may
  remove the socket of its successor (`server.ts:304`): `calm` in `OneDaemonWhenCalm`.
- *Stragglers.* `query.ts:91-98` promises "no gap and no duplicate", and that what was
  appended before the cut "is already on disk". An entry appended while a closed run is
  being finished is counted but not in the file yet, and a follower that starts then
  misses it (`store.ts:203`): `Regular` in `ReadersMissNothing`.
- *Answers that nobody reads.* `client.ts:242-243` means to fail what is "never getting
  an answer" rather than "leaving the caller hanging", when the connection closes. An
  answer over 16 MiB, of `logs.query` without a tail for instance (`methods.ts:273-279`),
  is skipped by the decoder on a connection that goes on (`framing.ts:89-97`,
  `client.ts:225-228`), and its caller waits until that ends: `skipped` in
  `RequestsSettle`.
- *What the reaper could not kill or identify* is dropped from the records all the
  same, and a process whose daemon was killed before recording it never was on record:
  `spared` in `OrphansStayOnRecord`.
- *Slots astray.* A daemon killed between the two writes of `createTarget` leaves a
  slot without a target, whose repository nobody knows after the restart: `strayed` in
  `SlotsApart`.
- *Runs without a target.* A start queued behind a removal runs without a target
  (`methods.ts:232`): `lost`. That is also a start at boot whose slug was given to
  another checkout meanwhile.
- *Reloads.* A run that is being started across a reload has the older definition and
  no mark until the next reload (`methods.ts:470`): `across` in `OutdatedIsMarked`. A
  mark stays when the file is reverted.
- *A config that does not parse* is replaced by the next write (`methods.ts:746`), as
  its comment says: `EditsSurvive` excepts that.
- *The interface.* A failure, or data read in one piece with its grant, that comes
  after the selection moved on shows in the new pane (`data.ts:448-456`): `late` in
  `PaneFollowsSelection`. A change made before the first `ui.get` is answered is taken
  off the screen by the answer (`data.ts:188-193`): `early` in `SeenIsStored`. A late
  answer for one target's commands replaces another's, which then stays "loading" for
  the session (`data.ts:316`). An older unfinished line that comes to match the search
  moves a scrolled window (`data.ts:470-474`).

## Plan

1. The resolution of a query to a target (`targets.ts:115-139`) and the backoff
   arithmetic, as operators.
2. `Terminal` without the focus, for larger machines.

## Not modelled

Argument parsing and printing (`cli/` but for `daemon restart`), drawing and wording
of the interface, the parsing of git's output and of dotenv files, field-by-field
validation, path conventions: functions from input to output without state or
concurrency of their own, for which a model would repeat the code. Handlers that only
read (`run.status`, `logs.query`'s formatting, `daemon.status`, `ping`).
`logs/tail.ts` is a bounded copy for `snapshot()`, which the daemon does not read.
Quitting the interface: whether its last `ui.set` still reaches the daemon is up to
the operating system. In the modelled components: the text of output, notes and
errors; exit codes beyond zero or not; the length of delays; the reuse of process ids
beyond what the reaper sees of it.
