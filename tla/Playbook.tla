------------------------------ MODULE Playbook ------------------------------
(***************************************************************************)
(* A playbook: the set of commands one run starts, the kind and restart    *)
(* policy of each, and the dependsOn graph between them.  Pure operators    *)
(* only; the supervisor computes them once, in its constructor, and the     *)
(* config layer uses them to reject a playbook that can never come up.      *)
(*                                                                          *)
(* The graph closures are stated as least fixed points (the intersection of *)
(* every closed set), which is what the worklists in the source compute.    *)
(***************************************************************************)

CONSTANT Labels     (* every label a playbook can mention, declared or not  *)

Kinds == {"task", "service"}

Policies == {"never", "on-failure", "always"}

\* A playbook as the supervisor receives it.  dependsOn may name a label that
\* is not a command of the playbook: the config layer rejects that, the
\* supervisor copes with it.
Books == [commands  : SUBSET Labels,
          kind      : [Labels -> Kinds],
          policy    : [Labels -> Policies],
          dependsOn : [Labels -> SUBSET Labels]]

-----------------------------------------------------------------------------
(* Which commands can ever start. *)

\* Mistake: a service counts as something that can be waited for.
SatisfiableByService(b, c, S) ==
    \A d \in b.dependsOn[c] : d \in b.commands /\ d \in S

\* Every dependency of c is a declared task in S.
Satisfiable(b, c, S) ==
    \A d \in b.dependsOn[c] : d \in b.commands /\ b.kind[d] = "task" /\ d \in S

\* S contains each command it satisfies: a fixed point of the loop.
ReachClosed(b, S) ==
    \A c \in b.commands : Satisfiable(b, c, S) => c \in S

\* The labels whose gate can eventually open.
Reachable(b) ==
    {c \in b.commands : \A S \in SUBSET b.commands : ReachClosed(b, S) => c \in S}

-----------------------------------------------------------------------------
(* Whom a failure takes down. *)

DirectDependents(b, l) == {d \in b.commands : l \in b.dependsOn[d]}

DependentsClosed(b, S) ==
    \A s \in S : DirectDependents(b, s) \subseteq S

\* Every command that depends on l, directly or not, other than l itself.
Downstream(b, l) ==
    {d \in b.commands \ {l} :
        \A S \in SUBSET b.commands :
            (l \in S /\ DependentsClosed(b, S)) => d \in S}

-----------------------------------------------------------------------------
(* What the config layer accepts. *)

UnknownDeps(b) == (UNION {b.dependsOn[c] : c \in b.commands}) \ b.commands

ServiceDeps(b) ==
    {d \in b.commands : b.kind[d] = "service" /\ DirectDependents(b, d) # {}}

\* A finite graph has a cycle exactly when some nonempty set of commands each
\* depends on a member of the set.
HasDependencyCycle(b) ==
    \E S \in SUBSET b.commands :
        S # {} /\ \A c \in S : b.dependsOn[c] \cap S # {}

PlaybookValid(b) ==
    UnknownDeps(b) = {} /\ ~HasDependencyCycle(b) /\ ServiceDeps(b) = {}

=============================================================================
