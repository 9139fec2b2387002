------------------------------- MODULE Targets -------------------------------
(***************************************************************************)
(* What the daemon remembers: targets, slots, the configuration, and the    *)
(* runs made from them.  src/state, src/config, src/git and the handlers of *)
(* src/daemon/methods.ts.                                                   *)
(*                                                                          *)
(* A step is one turn of the daemon's event loop, one of two writes of the  *)
(* state file made in one turn (the daemon can be killed between them), or  *)
(* something a user does to the files beside it.  A checkout ("tree") stands*)
(* for its canonical path, and a repository for the path a client names it   *)
(* by: any path, also that of a linked checkout, and nothing makes two       *)
(* clients name one repository by the same path.                             *)
(***************************************************************************)
EXTENDS Naturals, FiniteSets, SequencesExt

CONSTANTS
    Repos, Trees,       (* paths that repositories go by, and checkouts: a    *)
                        (* path may be both                                   *)
    Lists, Mains,       (* what git lists from a path; the main checkouts     *)
    BaseName,           (* of a repository's path, slugified                  *)
    Playbooks,          (* names                                              *)
    Branches,           (* what a linked checkout may be on, if on anything   *)
    Definitions, EnvOf, (* playbooks as written, and the env each one sets    *)
    NoDefinition, Detached,
    TargetEnvs,         (* envs the config may give a target                  *)
    Worlds,             (* what the first daemon may find and be asked for,   *)
                        (* and how often things happen, see the counters      *)
    MaxWaiting          (* bound: operations under way                        *)

Linked == Trees \ Mains

\* What a file may say of repositories, and a file.
Registrations ==
    UNION {[known -> [Playbooks -> Definitions \cup {NoDefinition}]] : known \in SUBSET Repos}
Files == [repos : Registrations, env : TargetEnvs \cup {<<>>}, json : BOOLEAN, valid : BOOLEAN]

ASSUME TargetsAssumption ==
    /\ IsFiniteSet(Trees)
    /\ Lists \subseteq Repos \X Trees /\ Mains \subseteq Trees
    /\ BaseName \in [Repos -> Repos]
    /\ NoDefinition \notin Definitions /\ Detached \notin Branches
    /\ DOMAIN EnvOf = Definitions
    /\ \A w \in Worlds :
          /\ w.committed \in [Trees -> [Playbooks -> Definitions \cup {NoDefinition}]]
          /\ w.file \in Files /\ w.asked \subseteq Repos \X Trees \X Playbooks
          /\ {w.edits, w.writes, w.restarts} \subseteq Nat
    /\ MaxWaiting \in Nat

VARIABLES
    present, branch, committed, file,   \* the user's: checkouts that exist, what they
                                        \* are on, their .run-mux.json, the config
    targets, slots,                     \* the state file
    repoIndex, config, runs, queue,     \* the daemon's memory, see below
    boot,                               \* what restoreAutostart has yet to start
    doing,                              \* between two writes of the state file
    asked,                              \* bound: the targets ever asked for
    edits, writes, restarts,            \* bounds: how many changes by the user, of the
                                        \* config by the daemon, and restarts are left
    strayed, split,                     \* history, see SlotsApart
    edited, unread, mine                \* history, see OutdatedIsMarked, EditsSurvive

userVars == <<asked, present, branch, committed, file>>
stateFile == <<targets, slots>>
memory == <<repoIndex, config, runs, queue, boot>>
counters == <<edits, writes, restarts>>
ofSlots == <<strayed, split>>
ofEdits == <<edited, unread, mine>>
history == <<ofSlots, ofEdits>>
vars == <<userVars, stateFile, memory, doing, counters, history>>

Idle == [op |-> "idle"]
Nothing == [kind |-> "nothing"]

\* Functions: g where it says something, f otherwise; f with k mapped to v; f
\* without k.
Layer(f, g) ==
    [k \in DOMAIN f \cup DOMAIN g |-> IF k \in DOMAIN g THEN g[k] ELSE f[k]]
Put(f, k, v) == [x \in DOMAIN f \cup {k} |-> IF x = k THEN v ELSE f[x]]
Drop(f, s) == [k \in DOMAIN f \ {s} |-> f[k]]

-----------------------------------------------------------------------------
(* Configuration.  file.json: it parses; file.valid: the schema accepts it.   *)
(* file.repos gives each registered repository its own playbooks.             *)

Loaded(f) ==
    IF f.json /\ f.valid THEN [repos |-> f.repos, env |-> f.env]
                         ELSE [repos |-> <<>>, env |-> <<>>]

\* resolvePlaybooks, of the files as they are now: a global playbook replaces the
\* committed one of the same name.
Resolved(r, t, p) ==
    LET repos == Loaded(file).repos
        own == IF r \in DOMAIN repos THEN repos[r][p] ELSE NoDefinition
    IN IF own # NoDefinition THEN own
       ELSE IF t \in present THEN committed[t][p] ELSE NoDefinition

\* A daemon started from the terminal of a run inherits that run's slot.
DaemonEnv == [MUX_SLOT |-> 100]

\* resolveEnv: daemon < playbook < target < injected.
ResolvedEnv(def, injected) ==
    Layer(Layer(Layer(DaemonEnv, EnvOf[def]), config.env), injected)

\* planRun and materialise: the environment of the commands of a run.
RunEnv(def, slot) == ResolvedEnv(def, [MUX_SLOT |-> slot])

-----------------------------------------------------------------------------
(* Slots.  repoIndex: of the checkouts it has handed a slot, or was asked to,  *)
(* the repository each was last asked for under.                              *)

\* findCheckout: git answers from a path that is there.
Listed(r, t) == <<r, t>> \in Lists /\ r \notin Trees \ present

\* What is not listed is a main checkout if it is named as its own repository.
IsMain(r, t) == IF Listed(r, t) THEN t \in Mains ELSE r = t

HasTarget(t) == \E x \in targets : x.tree = t

\* Mistake: the repository of a slot is only looked for in memory.
UnindexedNone == {}

\* The slots whose repository repoOf finds by a target.
Unindexed == {u \in DOMAIN slots \ DOMAIN repoIndex : HasTarget(u)}

\* What it finds: the repository of one of the checkout's targets.
Recovered ==
    {found \in [Unindexed -> Repos] :
        \A u \in Unindexed : \E x \in targets : x.tree = u /\ x.repo = found[u]}

\* lowestFree, among what index says is of the repository.
Taken(index, r) == {slots[u] : u \in {v \in DOMAIN slots \cap DOMAIN index : index[v] = r}}

LowestFree(index, r) ==
    CHOOSE n \in 1..(Cardinality(Trees) + 1) :
        n \notin Taken(index, r) /\ 1..(n - 1) \subseteq Taken(index, r)

\* The path of this call is noted in any case; a slot once given stays.
AllocateSlot(r, t) ==
    \/ /\ t \in DOMAIN slots \/ IsMain(r, t)
       /\ repoIndex' = Put(repoIndex, t, r)
       /\ slots' = IF t \in DOMAIN slots THEN slots ELSE Put(slots, t, 0)
    \/ /\ t \notin DOMAIN slots /\ ~IsMain(r, t)
       /\ \E found \in Recovered : repoIndex' = Put(Layer(repoIndex, found), t, r)
       /\ slots' = Put(slots, t, LowestFree(repoIndex', r))

\* planRun, for a start and for every view that is built of a target.
PlanSlot(r, t) ==
    IF t \in DOMAIN slots THEN UNCHANGED <<slots, repoIndex>> ELSE AllocateSlot(r, t)

\* What a path makes a main checkout, while git answers or after it stopped to.
MainFor(r) == {t \in Trees : r = t \/ (<<r, t>> \in Lists /\ t \in Mains)}

\* The paths by which the daemon knows the repository of a checkout.
Paths(t) ==
    {repoIndex[u] : u \in {t} \cap DOMAIN repoIndex}
        \cup {x.repo : x \in {y \in targets : y.tree = t}}

-----------------------------------------------------------------------------
(* Targets *)

\* slugFor: <repo>/<checkout>:<playbook>.  Registering asks the config in memory.
SlugFor(r, t, p) ==
    <<IF r \in DOMAIN config.repos THEN r ELSE BaseName[r],
      IF IsMain(r, t) THEN "main"
      ELSE IF Listed(r, t) /\ branch[t] # Detached THEN branch[t] ELSE t,
      p>>

\* Two records of one target.
Same(x, y) ==
    x.slug = y.slug /\ x.repo = y.repo /\ x.tree = y.tree /\ x.playbook = y.playbook

Collides(slug) == \E x \in targets : x.slug = slug

\* target.add, as far as the slot is on disk.
TargetAdd(r, t, p) ==
    LET slug == SlugFor(r, t, p)
    IN /\ doing = Idle /\ <<r, t, p>> \in asked
       /\ t \in present /\ Resolved(r, t, p) # NoDefinition
       /\ ~\E x \in targets : x.tree = t /\ x.playbook = p
       /\ ~Collides(slug)
       /\ AllocateSlot(r, t)
       /\ split' = IF t \in DOMAIN slots /\ ~(Paths(t) \subseteq {r}) THEN split \cup {t} ELSE split
       /\ doing' = [op |-> "add", target |-> [slug |-> slug, repo |-> r, tree |-> t,
                                              playbook |-> p, autostart |-> FALSE]]
       /\ UNCHANGED <<userVars, targets, config, runs, queue, boot, counters, strayed, ofEdits>>

TargetAdded ==
    /\ doing.op = "add"
    /\ targets' = targets \cup {doing.target}
    /\ doing' = Idle
    /\ UNCHANGED <<userVars, slots, memory, counters, history>>

\* target.update
TargetUpdate(x) ==
    /\ doing = Idle /\ x \in targets
    /\ edits > 0 /\ edits' = edits - 1
    /\ targets' = {IF y.slug = x.slug THEN [x EXCEPT !.autostart = ~@] ELSE y : y \in targets}
    /\ UNCHANGED <<userVars, slots, memory, doing, writes, restarts, history>>

-----------------------------------------------------------------------------
(* Runs: the registry as a queue of operations per target.  An operation holds *)
(* what the handler read before it queued it.  lost: its target was removed    *)
(* meanwhile, be it that another has its slug now; across: a reload has seen   *)
(* another definition meanwhile, and no reload came since.                     *)

Waiting(s) == IF s \in DOMAIN queue THEN queue[s] ELSE <<>>

Enqueue(s, operation) ==
    /\ MapThenSumSet(LAMBDA k : Len(queue[k]), DOMAIN queue) < MaxWaiting
    /\ queue' = Put(queue, s, Append(Waiting(s), operation))

\* planRun comes first, also when the start is then refused.  The config in force is
\* read here; the teardown of what runs comes later.
StartTarget(x, atBoot) ==
    LET def == Resolved(x.repo, x.tree, x.playbook)
    IN /\ doing = Idle
       /\ PlanSlot(x.repo, x.tree)
       /\ IF x.tree \notin present \/ def = NoDefinition THEN UNCHANGED queue
          ELSE Enqueue(x.slug, [op |-> "start", repo |-> x.repo, tree |-> x.tree,
                                playbook |-> x.playbook, def |-> def,
                                slot |-> RunEnv(def, slots'[x.tree])["MUX_SLOT"],
                                boot |-> atBoot, lost |-> ~\E y \in targets : Same(x, y),
                                across |-> FALSE])

\* run.start, and run.restart of the whole target
RunStart(x) ==
    /\ x \in targets /\ StartTarget(x, FALSE)
    /\ UNCHANGED <<userVars, targets, config, runs, boot, doing, counters, history>>

\* run.stop and target.remove
RunStop(x, op) ==
    /\ doing = Idle /\ x \in targets
    /\ Enqueue(x.slug, [op |-> op, repo |-> x.repo, tree |-> x.tree, boot |-> FALSE])
    /\ UNCHANGED <<userVars, stateFile, repoIndex, config, runs, boot, doing, counters, history>>

\* One at a time, from the list of targets as it was at the start of the daemon.
Autostart(x) ==
    /\ x \in boot
    /\ \A s \in DOMAIN queue : \A i \in DOMAIN queue[s] : ~queue[s][i].boot
    /\ boot' = boot \ {x}
    /\ StartTarget(x, TRUE)
    /\ UNCHANGED <<userVars, targets, config, runs, doing, counters, history>>

Rest(s) == IF Len(queue[s]) = 1 THEN Drop(queue, s) ELSE [queue EXCEPT ![s] = Tail(@)]

\* The operation at the head is done, and answers with a view of its target.
Started(s) ==
    LET o == Head(queue[s])
    IN /\ doing = Idle /\ o.op = "start"
       /\ queue' = Rest(s)
       /\ runs' = Put(runs, s, [repo |-> o.repo, tree |-> o.tree, playbook |-> o.playbook,
                                def |-> o.def, slot |-> o.slot, lost |-> o.lost,
                                across |-> o.across, stale |-> FALSE])
       /\ PlanSlot(o.repo, o.tree)
       /\ UNCHANGED <<userVars, targets, config, boot, doing, counters, history>>

Stopped(s) ==
    LET o == Head(queue[s])
    IN /\ doing = Idle /\ o.op = "stop"
       /\ queue' = Rest(s) /\ runs' = Drop(runs, s)
       /\ PlanSlot(o.repo, o.tree)
       /\ UNCHANGED <<userVars, targets, config, boot, doing, counters, history>>

\* The stop that target.remove waits for is done, and it goes on at once to
\* removeTarget: whichever target has the slug now, and then that one's slot.
Removed(s) ==
    /\ doing = Idle /\ Head(queue[s]).op = "remove"
    /\ runs' = Drop(runs, s)
    /\ targets' = {x \in targets : x.slug # s}
    /\ \/ ~Collides(s) /\ doing' = Idle
       \/ \E x \in targets : x.slug = s /\ doing' = [op |-> "release", tree |-> x.tree]
    /\ queue' = [r \in DOMAIN Rest(s) |->
                    IF r # s THEN queue[r]
                    ELSE [i \in DOMAIN Rest(s)[r] |->
                             IF Rest(s)[r][i].op = "start" THEN [Rest(s)[r][i] EXCEPT !.lost = TRUE]
                                                           ELSE Rest(s)[r][i]]]
    /\ UNCHANGED <<userVars, slots, repoIndex, config, boot, counters, history>>

\* Unless another target needs it.
ReleaseSlot ==
    /\ doing.op = "release" /\ doing' = Idle
    /\ IF HasTarget(doing.tree) THEN UNCHANGED <<slots, ofSlots>>
       ELSE /\ slots' = Drop(slots, doing.tree)
            /\ strayed' = strayed \ {doing.tree} /\ split' = split \ {doing.tree}
    /\ UNCHANGED <<userVars, targets, memory, counters, ofEdits>>

-----------------------------------------------------------------------------
(* The configuration *)

\* Mistake: the file is written from the config in memory.
RawCached == [repos |-> config.repos, env |-> config.env, json |-> TRUE, valid |-> TRUE]

\* mutateGlobalConfig: what is not JSON is replaced.
Raw == IF file.json THEN file
       ELSE [repos |-> <<>>, env |-> <<>>, json |-> TRUE, valid |-> TRUE]

\* The daemon reads back what it wrote.
WriteRepos(repos) ==
    /\ doing = Idle
    /\ writes > 0 /\ writes' = writes - 1
    /\ file' = [Raw EXCEPT !.repos = repos]
    /\ config' = Loaded(file')
    /\ edited' = TRUE /\ unread' = FALSE
    /\ UNCHANGED <<asked, present, branch, committed, stateFile, repoIndex, runs, queue, boot,
                   doing, edits, restarts, ofSlots>>

\* What the user wrote is gone with a file that is replaced.
RepoAdd(r) ==
    /\ WriteRepos(IF r \in DOMAIN Raw.repos
                  THEN Raw.repos ELSE Put(Raw.repos, r, [p \in Playbooks |-> NoDefinition]))
    /\ mine' = IF file.json THEN mine ELSE Nothing

RepoRemove(r) ==
    /\ WriteRepos(Drop(Raw.repos, r))
    /\ mine' = IF file.json /\ ~(mine.kind = "playbook" /\ mine.repo = r) THEN mine ELSE Nothing

\* Mistake: a playbook that is gone does not count as changed.
ChangedIfThere(def, current) == current # NoDefinition /\ current # def

DefinitionChanged(def, current) == current # def

ConfigReload ==
    /\ doing = Idle
    /\ config' = Loaded(file)
    /\ runs' = [s \in DOMAIN runs |->
                  [runs[s] EXCEPT !.across = FALSE, !.stale = @ \/ \E x \in targets :
                      x.slug = s
                      /\ DefinitionChanged(runs[s].def, Resolved(x.repo, x.tree, x.playbook))]]
    /\ queue' = [s \in DOMAIN queue |->
                    [i \in DOMAIN queue[s] |->
                        LET o == queue[s][i] IN
                        IF o.op = "start"
                        THEN [o EXCEPT !.across = o.def # Resolved(o.repo, o.tree, o.playbook)]
                        ELSE o]]
    /\ edited' = FALSE /\ unread' = FALSE
    /\ UNCHANGED <<userVars, stateFile, repoIndex, boot, doing, counters, ofSlots, mine>>

-----------------------------------------------------------------------------
(* The user, and the daemon's own end and beginning *)

Edit ==
    /\ edits > 0 /\ edits' = edits - 1 /\ edited' = TRUE
    /\ UNCHANGED <<stateFile, memory, doing, writes, restarts, ofSlots>>

EditConfig ==
    /\ Edit /\ unread' = TRUE
    /\ \/ \E r \in DOMAIN file.repos, p \in Playbooks, d \in Definitions :
             /\ file.json /\ file' = [file EXCEPT !.repos[r][p] = d]
             /\ mine' = [kind |-> "playbook", repo |-> r, playbook |-> p, def |-> d]
       \/ \E e \in TargetEnvs :
             /\ file.json /\ file' = [file EXCEPT !.env = e]
             /\ mine' = [kind |-> "env", env |-> e]
       \/ file' = [file EXCEPT !.json = ~@] /\ mine' = mine
       \/ file.json /\ file' = [file EXCEPT !.valid = ~@] /\ mine' = mine
    /\ UNCHANGED <<asked, present, branch, committed>>

EditCommitted ==
    /\ Edit
    /\ \E t \in Trees, p \in Playbooks, d \in Definitions \cup {NoDefinition} :
          committed' = [committed EXCEPT ![t][p] = d]
    /\ UNCHANGED <<asked, present, branch, file, unread, mine>>

\* git lets no two checkouts of a repository be on one branch.
SwitchBranch ==
    /\ Edit
    /\ \E t \in Linked, b \in Branches \cup {Detached} :
          /\ b = Detached
             \/ ~\E u \in Linked, r \in Repos :
                    {<<r, t>>, <<r, u>>} \subseteq Lists /\ branch[u] = b
          /\ branch' = [branch EXCEPT ![t] = b]
    /\ UNCHANGED <<asked, present, committed, file, unread, mine>>

\* A checkout goes away, or is there again.
MoveTree ==
    /\ Edit
    /\ \E t \in Linked : present' = IF t \in present THEN present \ {t} ELSE present \cup {t}
    /\ UNCHANGED <<asked, branch, committed, file, unread, mine>>

\* The daemon ends in whatever way and another one starts.
Restart ==
    /\ restarts > 0 /\ restarts' = restarts - 1
    /\ repoIndex' = <<>> /\ config' = Loaded(file)
    /\ runs' = <<>> /\ queue' = <<>> /\ doing' = Idle
    /\ boot' = {x \in targets : x.autostart}
    /\ strayed' = strayed \cup {t \in DOMAIN slots : ~HasTarget(t)}
    /\ unread' = FALSE
    /\ UNCHANGED <<userVars, stateFile, edits, writes, split, edited, mine>>

-----------------------------------------------------------------------------

Init ==
    /\ present = Trees /\ branch = [t \in Linked |-> Detached]
    /\ \E w \in Worlds :
          /\ committed = w.committed /\ file = w.file /\ asked = w.asked
          /\ edits = w.edits /\ writes = w.writes /\ restarts = w.restarts
    /\ targets = {} /\ slots = <<>>
    /\ repoIndex = <<>> /\ config = Loaded(file) /\ runs = <<>> /\ queue = <<>>
    /\ boot = {} /\ doing = Idle
    /\ strayed = {} /\ split = {} /\ edited = FALSE /\ unread = FALSE /\ mine = Nothing

Next ==
    \/ \E r \in Repos, t \in Trees, p \in Playbooks : TargetAdd(r, t, p)
    \/ TargetAdded \/ ReleaseSlot \/ ConfigReload
    \/ \E x \in targets :
          TargetUpdate(x) \/ RunStart(x) \/ RunStop(x, "stop") \/ RunStop(x, "remove")
    \/ \E x \in boot : Autostart(x)
    \/ \E s \in DOMAIN queue : Started(s) \/ Stopped(s) \/ Removed(s)
    \/ \E r \in Repos : RepoAdd(r) \/ RepoRemove(r)
    \/ EditConfig \/ EditCommitted \/ SwitchBranch \/ MoveTree \/ Restart

Spec == Init /\ [][Next]_vars

-----------------------------------------------------------------------------

\* Two targets never answer to one slug nor run one playbook twice in a checkout,
\* and two checkouts never share a slot, on disk or in what their runs were given,
\* if the daemon knows them by one path of a repository, but for the main ones with
\* slot 0 (a run has the slot on record, whatever its playbook, the config or the
\* daemon's own environment say).  Excepted are the checkouts of which it cannot
\* know so: one that already had a slot when a target was added under another path
\* (split), and one that had a slot and no target when a daemon started (strayed),
\* until that slot is released; so is a run that began when its target was gone.
SlotsApart ==
    /\ \A x, y \in targets :
          x.slug = y.slug \/ (x.tree = y.tree /\ x.playbook = y.playbook) => x = y
    /\ \A t, u \in DOMAIN slots \ (strayed \cup split) :
          t # u /\ slots[t] = slots[u] =>
              \A r \in Paths(t) \cap Paths(u) : slots[t] = 0 /\ {t, u} \subseteq MainFor(r)
    /\ \A s \in DOMAIN runs : ~runs[s].lost => slots[runs[s].tree] = runs[s].slot

\* After a reload, and until something is edited again, a run that is not marked
\* runs what is on disk.  What the reload could not compare, for it was only being
\* started, stays so until the next reload.
OutdatedIsMarked ==
    ~edited => \A s \in DOMAIN runs :
        \/ runs[s].def = Resolved(runs[s].repo, runs[s].tree, runs[s].playbook)
        \/ runs[s].stale \/ runs[s].across \/ runs[s].lost

\* What the user last wrote into the config stays in it, a playbook of a repository
\* or a target's env, however much older the config in the daemon's memory is when
\* it writes the file: until the repository is removed, or the daemon replaces a
\* file that does not parse.  And what the daemon goes by is the file, unless the
\* user has changed it since the daemon last read it.
EditsSurvive ==
    /\ mine.kind = "playbook" =>
          mine.repo \in DOMAIN file.repos /\ file.repos[mine.repo][mine.playbook] = mine.def
    /\ mine.kind = "env" => file.env = mine.env
    /\ ~unread => config = Loaded(file)

=============================================================================
