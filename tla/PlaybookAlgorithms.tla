------------------------- MODULE PlaybookAlgorithms -------------------------
(***************************************************************************)
(* The three loops over a playbook as the source runs them, over commands   *)
(* and dependencies in the order the playbook lists them, against the       *)
(* order-free definitions of Playbook:                                      *)
(*   reachableLabels (supervisor.ts), a repeated pass that adds as it goes; *)
(*   cascade (supervisor.ts), a breadth-first queue over dependents;        *)
(*   hasDependencyCycle (schema.ts), a depth-first search with two colours. *)
(***************************************************************************)
EXTENDS Playbook, SequencesExt

CONSTANT BooksToCheck

\* A config file is finite.
ASSUME AlgorithmsAssumption == IsFiniteSet(Labels) /\ BooksToCheck \subseteq Books

VARIABLES playbook, listing     \* a playbook, and the order it lists labels in

BooksInit == playbook \in BooksToCheck /\ listing \in SetToSeqs(Labels)

BooksNext == UNCHANGED <<playbook, listing>>

BooksSpec == BooksInit /\ [][BooksNext]_<<playbook, listing>>

Listed(S) == FoldLeft(LAMBDA s, l : IF l \in S THEN Append(s, l) ELSE s, <<>>, listing)

-----------------------------------------------------------------------------
(* reachableLabels *)

Reached(R, c) ==
    IF c \in playbook.commands /\ Satisfiable(playbook, c, R) THEN R \cup {c} ELSE R

ReachPass(R) == FoldLeft(Reached, R, listing)

\* Mistake: one pass is enough only when the playbook lists tasks in order.
ReachableLabelsOnePass == ReachPass({})

ReachableLabels ==
    LET loop[R \in SUBSET Labels] == IF ReachPass(R) = R THEN R ELSE loop[ReachPass(R)]
    IN loop[{}]

-----------------------------------------------------------------------------
(* cascade *)

\* One turn of the queue: the dependents of its head not seen before join it.
Turn(s) ==
    LET new == DirectDependents(playbook, Head(s.queue)) \ s.seen
    IN [queue |-> Tail(s.queue) \o Listed(new), seen |-> s.seen \cup new]

\* Mistake: the queue is never refilled.
CascadedOnce(l) == DirectDependents(playbook, l) \ {l}

Cascaded(l) ==
    LET loop[s \in [queue : Seq(Labels), seen : SUBSET Labels]] ==
          IF s.queue = <<>> THEN s.seen ELSE loop[Turn(s)]
    IN loop[[queue |-> <<l>>, seen |-> {l}]] \ {l}

-----------------------------------------------------------------------------
(* hasDependencyCycle *)

DependsOn(l) == IF l \in playbook.commands THEN playbook.dependsOn[l] ELSE {}

\* The labels to visit, those being visited (the current path), and those done.
Walks == [todo : Seq(Labels), open : SUBSET Labels, done : SUBSET Labels]

\* What the visits answer: whether one met a cycle, and the labels now done.
Walked(todo) ==
    LET walk[w \in Walks] ==
          IF w.todo = <<>> THEN [cycle |-> FALSE, done |-> w.done]
          ELSE LET l == Head(w.todo)
                   inner == walk[[todo |-> Listed(DependsOn(l)), open |-> w.open \cup {l},
                                  done |-> w.done]]
                   visit == IF l \in w.open THEN [cycle |-> TRUE, done |-> w.done]
                            ELSE IF l \in w.done THEN [cycle |-> FALSE, done |-> w.done]
                            ELSE IF inner.cycle THEN inner
                            ELSE [cycle |-> FALSE, done |-> inner.done \cup {l}]
               IN IF visit.cycle THEN visit
                  ELSE walk[[todo |-> Tail(w.todo), open |-> w.open, done |-> visit.done]]
    IN walk[[todo |-> todo, open |-> {}, done |-> {}]]

\* Mistake: only what the first command leads to is searched.
CycleFoundFromFirst == Walked(<<Listed(playbook.commands)[1]>>).cycle

CycleFound == Walked(Listed(playbook.commands)).cycle

-----------------------------------------------------------------------------

\* The loop finds exactly the commands whose gate can ever open, whatever the
\* order of the commands.
ReachableLoopIsExact == ReachableLabels = Reachable(playbook)

\* The queue visits every command that depends on the failed one directly or
\* not, once, also around a cycle.
CascadeIsExact == \A l \in playbook.commands : Cascaded(l) = Downstream(playbook, l)

\* The search reports a cycle exactly when some commands depend on each other
\* in a ring; `done` marks never hide one.
CycleSearchIsExact == CycleFound <=> HasDependencyCycle(playbook)

\* The config layer (playbookProblems) and the supervisor (blocked) agree: what
\* the first accepts the second can bring up entirely, and in what the first
\* rejects the second blocks some command.
ValidMeansReachable == PlaybookValid(playbook) <=> Reachable(playbook) = playbook.commands
=============================================================================
