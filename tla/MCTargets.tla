----------------------------- MODULE MCTargets -----------------------------
(* A repository with its main checkout and two linked ones, one of which is  *)
(* also named as a repository; one definition sets the slot itself, and so   *)
(* may the config.                                                           *)
EXTENDS Targets
CONSTANTS m, a, b, d1, d2
\* git lists all of them from any of them.
MCLists == Repos \X Trees
MCBaseName == [x \in Repos |-> m]
MCEnvOf == (d1 :> <<>>) @@ (d2 :> ("MUX_SLOT" :> 101))
MCTargetEnvs == {"MUX_SLOT" :> 102}
\* Two linked checkouts; the main one and a linked one of a registered repository
\* with a playbook of its own; one checkout with two targets, the same repository
\* in a file that the schema refuses; one checkout, and what is written back and
\* forth; a linked checkout under its own path, then with another under that of the
\* main one; the main one under the path of a linked one.
MCWorlds ==
    LET Unregistered == [repos |-> <<>>, env |-> <<>>, json |-> TRUE, valid |-> TRUE]
        Own(valid) == [repos |-> m :> [p \in Playbooks |-> d2], env |-> "MUX_SLOT" :> 102,
                       json |-> TRUE, valid |-> valid]
        World(f, triples, counts) ==
            [committed |-> [t \in Trees |-> [p \in Playbooks |-> d1]],
             file |-> f, asked |-> triples,
             edits |-> counts[1], writes |-> counts[2], restarts |-> counts[3]]
    IN {World(Unregistered, {<<m, a, "dev">>, <<m, b, "dev">>}, <<1, 0, 1>>),
        World(Own(TRUE), {<<m, m, "dev">>, <<m, a, "dev">>}, <<1, 0, 1>>),
        World(Own(FALSE), {<<m, a, "dev">>, <<m, a, "test">>}, <<1, 0, 1>>),
        World(Own(TRUE), {<<m, a, "dev">>}, <<2, 1, 0>>),
        World(Unregistered, {<<a, a, "dev">>, <<m, b, "dev">>, <<m, a, "test">>}, <<0, 0, 1>>),
        World(Unregistered, {<<a, m, "dev">>, <<a, a, "dev">>}, <<1, 0, 0>>)}
=============================================================================
