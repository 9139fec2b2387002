----------------------------- MODULE MCTerminal ------------------------------
\* Two targets of one registered repository, one of which gives way to a target of a
\* repository that is not registered; another registered one, without targets; and
\* the chunks of text that a command may write.
EXTENDS Terminal

CONSTANTS a, b, c, r, q, u, out, err

MCRepoPath == [s \in Slugs |-> IF s = c THEN u ELSE r]
MCListings == {<<a, b>>, <<c, a>>}
MCSessions == {[sidebarWidth |-> 2, targetOrder |-> (r :> <<b, a>>)]}

Chunk(label, parts) == [label |-> label, parts |-> parts]
MCChunks == {Chunk(out, <<"plain">>), Chunk(out, <<"plain", "wanted", "">>), Chunk(err, <<"plain", "">>)}

\* One playbook is not listed any more.
MCPlaybookOf == [s \in Slugs |-> IF s = b THEN "gone" ELSE "dev"]
MCCommandsOf == [s \in Slugs |-> IF s = a THEN {"web"} ELSE {"web", "api"}]
MCRepoLists ==
    {(r :> [checkout |-> {"main"}, playbook |-> {"dev", "ci"}])
        @@ (q :> [checkout |-> {"trunk"}, playbook |-> {"dev"}])}

=============================================================================
