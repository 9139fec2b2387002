----------------------------- MODULE MCAlgorithms -----------------------------
(* The sequential algorithms, each by itself: every dependency graph on three  *)
(* labels, of which c may be undeclared; every short stream of bytes.          *)
EXTENDS PlaybookAlgorithms, Framing

CONSTANTS a, b, c

\* Restart policies play no part here.
MCBooks ==
    [commands : {{a, b}, {a, b, c}}, kind : [Labels -> Kinds],
     policy : {[l \in Labels |-> "never"]}, dependsOn : [Labels -> SUBSET Labels]]

\* A graph, or a stream.
MCInit ==
    \/ BooksInit /\ incoming = <<>> /\ Fresh
    \/ playbook = (CHOOSE x \in BooksToCheck : TRUE) /\ listing = <<a, b, c>> /\ DecoderInit

MCNext ==
    \/ BooksNext /\ UNCHANGED decoder
    \/ DecoderNext /\ UNCHANGED <<playbook, listing>>

MCSpec == MCInit /\ [][MCNext]_<<playbook, listing, decoder>>
=============================================================================
