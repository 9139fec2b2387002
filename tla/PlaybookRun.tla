---------------------------- MODULE PlaybookRun -----------------------------
(***************************************************************************)
(* What a run promises about the statuses it reports, with no word on       *)
(* processes, timers or kills: which command may change status, to what,    *)
(* and what must be true of the others when it does.                        *)
(***************************************************************************)
EXTENDS Playbook

CONSTANT Playbooks

VARIABLES
    book,       \* the playbook of this run
    phase,      \* the reported status of each command
    won,        \* commands that have exited 0 at least once
    life        \* "new", "live", "stopping", "stopped"

runVars == <<book, phase, won, life>>

Init ==
    /\ book \in Playbooks
    /\ phase = [l \in Labels |-> "pending"]
    /\ won = {}
    /\ life = "new"

GateMet(l) == book.dependsOn[l] \subseteq won'

\* f is a task that fails in this step.
FailsNow(f) == book.kind[f] = "task" /\ phase[f] # "errored" /\ phase'[f] = "errored"

\* A command that has not started leaves "pending" because its gate is met, or
\* because a task it depends on fails.
Unblock(l) ==
    /\ phase[l] = "pending"
    /\ \/ phase'[l] \in {"running", "errored"} /\ GateMet(l)
       \/ phase'[l] = "errored" /\ \E f \in book.commands :
                                       FailsNow(f) /\ l \in Downstream(book, f)

\* What a command that has started may do next.
Successors(s) ==
    CASE s = "running"    -> {"restarting", "exited", "errored"}
      [] s = "restarting" -> {"running", "errored"}
      [] s = "exited"     -> {"running", "errored"}
      [] s = "errored"    -> {"running"}
      [] OTHER            -> {}

Advance(l) ==
    /\ phase'[l] \in Successors(phase[l])
    /\ phase'[l] = "running" => GateMet(l)
    /\ phase'[l] = "exited" => l \in won'

Same(l) == phase'[l] = phase[l]

\* While the run is live one command moves at a time, and everything else
\* stays put or leaves "pending"; only the mover can have exited 0.
Begin ==
    /\ life = "new" /\ life' = "live"
    /\ won' = won
    /\ \A l \in Labels : Same(l) \/ (l \in book.commands /\ Unblock(l))

Work ==
    /\ life = "live" /\ life' = "live"
    /\ \E m \in book.commands :
          /\ won' = won \/ (won' = won \cup {m} /\ phase[m] = "running")
          /\ Same(m) \/ Advance(m) \/ Unblock(m)
          /\ \A l \in Labels \ {m} :
                Same(l) \/ (l \in book.commands /\ Unblock(l))

\* From the moment a run is stopping nothing starts: a command keeps the
\* outcome it had or becomes "stopped".
WindDown ==
    /\ won' = won
    /\ \A l \in Labels :
          \/ Same(l)
          \/ phase[l] \in {"pending", "running", "restarting"} /\ phase'[l] = "stopped"

Halt == life = "live" /\ life' = "stopping" /\ WindDown

Halting == life = "stopping" /\ life' = "stopping" /\ WindDown

Halted ==
    /\ life = "stopping" /\ life' = "stopped"
    /\ WindDown
    /\ \A l \in book.commands : phase'[l] \in {"exited", "errored", "stopped"}

Next == (Begin \/ Work \/ Halt \/ Halting \/ Halted) /\ book' = book

Spec == Init /\ [][Next]_runVars

=============================================================================
