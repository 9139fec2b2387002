---------------------------- MODULE MCSupervisor ----------------------------
(* Playbooks for model checking Supervisor. *)
EXTENDS Supervisor

CONSTANTS a, b, c

Fn(x, y, z) == [l \in Labels |-> IF l = a THEN x ELSE IF l = b THEN y ELSE z]

\* Every playbook with at most the two commands a and b, valid or not: c is a
\* label that is never declared, so depending on it is depending on nothing.
Pairs ==
    { [commands |-> {a, b}, kind |-> Fn(ka, kb, "task"), policy |-> Fn(pa, pb, "never"),
       dependsOn |-> Fn(da, db, {})] :
        ka \in Kinds, kb \in Kinds, pa \in Policies, pb \in Policies,
        da \in SUBSET {a, b}, db \in SUBSET {a, b, c} }

Singles ==
    { [commands |-> {a}, kind |-> Fn(k, "task", "task"), policy |-> Fn(p, "never", "never"),
       dependsOn |-> Fn(d, {}, {})] : k \in Kinds, p \in Policies, d \in SUBSET {a, c} }

Triple(kind, policy, deps) ==
    [commands |-> {a, b, c}, kind |-> kind, policy |-> policy, dependsOn |-> deps]

TaskTaskService == Fn("task", "task", "service")

Chain == Triple(TaskTaskService, Fn("never", "on-failure", "never"), Fn({}, {a}, {b}))

\* Two tasks gate one service.
Join == Triple(TaskTaskService, Fn("always", "never", "on-failure"), Fn({}, {}, {a, b}))

\* One task gates a service; another service runs beside them.
Fork == Triple(Fn("task", "service", "service"), Fn("never", "never", "always"),
               Fn({}, {a}, {a}))

\* A task chain whose middle depends on a service: rejected by the config layer.
Misuse == Triple(Fn("service", "task", "task"), Fn("never", "never", "never"),
                 Fn({}, {a}, {b}))

MCPlaybooks == Singles \cup Pairs \cup {Chain, Join, Fork, Misuse}

\* The playbooks the run with a stuck child starts.
MCLivePlaybooks == {Chain, Fork}
=============================================================================
