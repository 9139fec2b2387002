--------------------------- MODULE RegistryProofs ---------------------------
(***************************************************************************)
(* The safety of the daemon's runs, for every set of targets and any number *)
(* of runs and of operations waiting.  The invariant says who owns a        *)
(* process (Owned), what the last operation waiting is (Answered), that the *)
(* shutdown still has work to do where something it saw may run (Known),    *)
(* and that nothing is served before the autostart is over (Restoring).     *)
(***************************************************************************)
EXTENDS Registry, TLAPS, SequenceTheorems

Owned(s) ==
    /\ entry[s] # NoRun => stopping[s] = NoRun
    /\ stopping[s] # NoRun => AtWork(s, Teardowns)
    /\ alive[s] \subseteq {entry[s], stopping[s]}
    /\ entry[s] <= runs[s] /\ stopping[s] <= runs[s] /\ seen[s] <= runs[s]

Answered(s) ==
    /\ queue[s] # <<>> => lastAsk[s] = queue[s][Len(queue[s])]
    /\ queue[s] = <<>> /\ lastAsk[s] \in Stops => entry[s] = NoRun

Known(s) ==
    seen[s] # NoRun /\ seen[s] \in alive[s] \cup {entry[s]} =>
        phase = "stopping" /\ "shutdown" \in ToSet(queue[s])

Restoring ==
    restoring # {} => \A s \in Slugs : \A i \in 1 .. Len(queue[s]) : queue[s][i] = "start"

IInv ==
    /\ TypeOK
    /\ \A s \in Slugs : Owned(s) /\ Answered(s) /\ Known(s)
    /\ Restoring

-----------------------------------------------------------------------------
(* Queues. *)

\* What Registry.serialise adds to a queue.
LEMMA AppendFacts ==
    ASSUME NEW q \in Seq(Ops), NEW op \in Ops
    PROVE  /\ Append(q, op) \in Seq(Ops)
           /\ Append(q, op) # <<>>
           /\ q # <<>> => Head(Append(q, op)) = Head(q)
           /\ q = <<>> => Head(Append(q, op)) = op
           /\ Append(q, op)[Len(Append(q, op))] = op
           /\ Len(Append(q, op)) = Len(q) + 1
           /\ \A i \in 1 .. Len(q) : Append(q, op)[i] = q[i]
           /\ ToSet(q) \subseteq ToSet(Append(q, op))
           /\ op \in ToSet(Append(q, op))
  <1>1. /\ Append(q, op) \in Seq(Ops) /\ Append(q, op) # <<>>
        /\ q # <<>> => Head(Append(q, op)) = Head(q)
        /\ q = <<>> => Head(Append(q, op)) = op
        /\ Append(q, op)[Len(Append(q, op))] = op
        /\ Len(Append(q, op)) = Len(q) + 1
        /\ \A i \in 1 .. Len(q) : Append(q, op)[i] = q[i]
    OBVIOUS
  <1>2. DOMAIN q = 1 .. Len(q) /\ DOMAIN Append(q, op) = 1 .. Len(q) + 1 /\ Len(q) \in Nat
    BY <1>1
  <1>3. ToSet(q) \subseteq ToSet(Append(q, op))
    BY <1>1, <1>2 DEF ToSet
  <1>4. op \in ToSet(Append(q, op))
    BY <1>1, <1>2 DEF ToSet
  <1> QED BY <1>1, <1>3, <1>4

\* What the end of an operation takes from it.
LEMMA TailFacts ==
    ASSUME NEW q \in Seq(Ops), q # <<>>
    PROVE  /\ Tail(q) \in Seq(Ops)
           /\ Head(q) \in Ops
           /\ Len(Tail(q)) = Len(q) - 1
           /\ Tail(q) # <<>> => Tail(q)[Len(Tail(q))] = q[Len(q)]
           /\ Tail(q) = <<>> => q[Len(q)] = Head(q)
           /\ \A i \in 1 .. Len(Tail(q)) : Tail(q)[i] = q[i + 1] /\ i + 1 \in 1 .. Len(q)
           /\ \A x \in ToSet(q) : x # Head(q) => x \in ToSet(Tail(q))
  <1>1. /\ Tail(q) \in Seq(Ops) /\ Head(q) \in Ops /\ Len(Tail(q)) = Len(q) - 1
        /\ Len(q) \in Nat \ {0} /\ DOMAIN q = 1 .. Len(q)
        /\ \A i \in 1 .. Len(Tail(q)) : Tail(q)[i] = q[i + 1] /\ i + 1 \in 1 .. Len(q)
    OBVIOUS
  <1>2. Tail(q) # <<>> => Tail(q)[Len(Tail(q))] = q[Len(q)]
    BY <1>1
  <1>3. ASSUME Tail(q) = <<>> PROVE q[Len(q)] = Head(q)
    <2>1. Len(Tail(q)) = 0
      BY <1>1, <1>3, EmptySeq
    <2>2. Len(Tail(q)) = Len(q) - 1 /\ Len(q) \in Nat
      BY <1>1
    <2>3. Len(q) = 1
      <3> DEFINE n == Len(q)
                 m == Len(Tail(q))
      <3>1. m = 0 /\ m = n - 1 /\ n \in Nat
        BY <2>1, <2>2
      <3> HIDE DEF n, m
      <3>2. n = 1
        BY <3>1
      <3> QED BY <3>2 DEF n
    <2> QED BY <2>3
  <1>4. ASSUME NEW x \in ToSet(q), x # Head(q) PROVE x \in ToSet(Tail(q))
    <2>1. PICK i \in 1 .. Len(q) : x = q[i]
      BY <1>1 DEF ToSet
    <2>2. i # 1
      BY <1>1, <1>4, <2>1
    <2>3. i - 1 \in DOMAIN Tail(q) /\ Tail(q)[i - 1] = x
      BY <1>1, <2>1, <2>2
    <2> QED BY <2>3 DEF ToSet
  <1> QED BY <1>1, <1>2, <1>3, <1>4

-----------------------------------------------------------------------------
(* The steps. *)

\* A request, or the autostart, adds an operation to one queue.
LEMMA EnqueueStep ==
    ASSUME IInv, NEW s \in Slugs, NEW op \in Ops, Enqueue(s, op),
           restoring # {} => op = "start",
           restoring' \in SUBSET restoring,
           UNCHANGED <<phase, targets, entry, stopping, runs, alive, seen>>
    PROVE  IInv'
  <1> USE DEF IInv
  <1>1. TypeOK
    OBVIOUS
  <1>2. queue' = [queue EXCEPT ![s] = Append(queue[s], op)]
        /\ lastAsk' = [lastAsk EXCEPT ![s] = op]
    BY DEF Enqueue
  <1>3. queue[s] \in Seq(Ops) /\ queue'[s] = Append(queue[s], op) /\ lastAsk'[s] = op
    BY <1>1, <1>2 DEF TypeOK
  <1>4. \A t \in Slugs : t # s => queue'[t] = queue[t] /\ lastAsk'[t] = lastAsk[t]
    BY <1>1, <1>2 DEF TypeOK
  <1>5. TypeOK'
    BY <1>1, <1>2, <1>3, AppendFacts DEF TypeOK
  <1>6. ASSUME NEW t \in Slugs PROVE (Owned(t) /\ Answered(t) /\ Known(t))'
    <2>1. CASE t = s
      <3>1. Owned(s)'
        BY <1>3, AppendFacts DEF Owned, AtWork
      <3>2. Answered(s)'
        BY <1>3, AppendFacts DEF Answered
      <3>3. Known(s)'
        BY <1>3, AppendFacts DEF Known
      <3> QED BY <2>1, <3>1, <3>2, <3>3
    <2>2. CASE t # s
      BY <1>4, <2>2 DEF Owned, AtWork, Answered, Known
    <2> QED BY <2>1, <2>2
  <1>7. Restoring'
    <2> SUFFICES ASSUME restoring' # {}, NEW t \in Slugs, NEW i \in 1 .. Len(queue'[t])
                 PROVE  queue'[t][i] = "start"
      BY DEF Restoring
    <2>1. restoring # {}
      OBVIOUS
    <2>2. op = "start" /\ \A u \in Slugs : \A j \in 1 .. Len(queue[u]) : queue[u][j] = "start"
      BY <2>1 DEF Restoring
    <2>3. CASE t # s
      BY <1>4, <2>2, <2>3
    <2>4. CASE t = s
      <3>1. Len(queue'[s]) = Len(queue[s]) + 1 /\ queue'[s][Len(queue'[s])] = op
            /\ \A j \in 1 .. Len(queue[s]) : queue'[s][j] = queue[s][j]
        BY <1>3, AppendFacts
      <3>2. Len(queue[s]) \in Nat
        BY <1>3
      <3>3. i \in 1 .. Len(queue[s]) \/ i = Len(queue'[s])
        BY <2>4, <3>1, <3>2
      <3> QED BY <2>2, <2>4, <3>1, <3>3
    <2> QED BY <2>3, <2>4
  <1> QED BY <1>5, <1>6, <1>7

\* The operation at work on a target ends; what the others know is untouched.
LEMMA PopFacts ==
    ASSUME IInv, NEW s \in Slugs, queue[s] # <<>>, Pop(s)
    PROVE  /\ queue' \in [Slugs -> Seq(Ops)]
           /\ queue'[s] = Tail(queue[s])
           /\ \A t \in Slugs : t # s => queue'[t] = queue[t]
           /\ queue'[s] # <<>> => lastAsk[s] = queue'[s][Len(queue'[s])]
           /\ queue'[s] = <<>> => lastAsk[s] = Head(queue[s])
           /\ \A x \in ToSet(queue[s]) : x # Head(queue[s]) => x \in ToSet(queue'[s])
           /\ restoring # {} =>
                \A t \in Slugs : \A i \in 1 .. Len(queue'[t]) : queue'[t][i] = "start"
  <1>1. TypeOK /\ Answered(s) /\ Restoring
    BY DEF IInv
  <1>2. queue[s] \in Seq(Ops) /\ queue' = [queue EXCEPT ![s] = Tail(queue[s])]
    BY <1>1 DEF TypeOK, Pop
  <1>3. /\ queue' \in [Slugs -> Seq(Ops)]
        /\ queue'[s] = Tail(queue[s])
        /\ \A t \in Slugs : t # s => queue'[t] = queue[t]
    BY <1>1, <1>2, TailFacts DEF TypeOK
  <1>4. queue'[s] # <<>> => lastAsk[s] = queue'[s][Len(queue'[s])]
    BY <1>1, <1>2, <1>3, TailFacts DEF Answered
  <1>5. queue'[s] = <<>> => lastAsk[s] = Head(queue[s])
    BY <1>1, <1>2, <1>3, TailFacts DEF Answered
  <1>6. \A x \in ToSet(queue[s]) : x # Head(queue[s]) => x \in ToSet(queue'[s])
    BY <1>2, <1>3, TailFacts
  <1>7. ASSUME restoring # {}, NEW t \in Slugs, NEW i \in 1 .. Len(queue'[t])
        PROVE  queue'[t][i] = "start"
    <2>1. \A u \in Slugs : \A j \in 1 .. Len(queue[u]) : queue[u][j] = "start"
      BY <1>1, <1>7 DEF Restoring
    <2>2. CASE t # s
      BY <1>3, <2>1, <2>2
    <2>3. CASE t = s
      <3>1. queue'[s][i] = queue[s][i + 1] /\ i + 1 \in 1 .. Len(queue[s])
        BY <1>2, <1>3, <1>7, <2>3, TailFacts
      <3> QED BY <2>1, <2>3, <3>1
    <2> QED BY <2>2, <2>3
  <1> QED BY <1>3, <1>4, <1>5, <1>6, <1>7

\* A run is torn down: no process of its target is left.
LEMMA TornDownMeansGone ==
    ASSUME IInv, NEW s \in Slugs, TornDown(s)
    PROVE  entry[s] = NoRun /\ alive[s] = {}
  <1>1. TypeOK /\ Owned(s)
    BY DEF IInv
  <1>2. NoRun \notin alive[s]
    BY <1>1 DEF TypeOK, Runs, NoRun
  <1> QED BY <1>1, <1>2 DEF Owned, TornDown

\* Registry.teardown takes the run out of the registry.
LEMMA TeardownStep ==
    ASSUME IInv, NEW s \in Slugs, BeginTeardown(s)
    PROVE  IInv'
  <1> USE DEF IInv
  <1>1. TypeOK /\ entry[s] # NoRun /\ AtWork(s, Teardowns)
        /\ entry' = [entry EXCEPT ![s] = NoRun] /\ stopping' = [stopping EXCEPT ![s] = entry[s]]
        /\ UNCHANGED <<phase, targets, restoring, queue, runs, alive, lastAsk, seen>>
    BY DEF BeginTeardown
  <1>2. entry'[s] = NoRun /\ stopping'[s] = entry[s]
        /\ \A t \in Slugs : t # s => entry'[t] = entry[t] /\ stopping'[t] = stopping[t]
    BY <1>1 DEF TypeOK
  <1>3. TypeOK'
    BY <1>1 DEF TypeOK
  <1>4. ASSUME NEW t \in Slugs PROVE (Owned(t) /\ Answered(t) /\ Known(t))'
    <2>1. Owned(t) /\ Answered(t) /\ Known(t)
      OBVIOUS
    <2>2. CASE t = s
      <3>1. Owned(s)'
        BY <1>1, <1>2, <2>1, <2>2 DEF Owned, AtWork, TypeOK, NoRun
      <3>2. Answered(s)'
        BY <1>1, <1>2, <2>1, <2>2 DEF Answered
      <3>3. Known(s)'
        BY <1>1, <1>2, <2>1, <2>2 DEF Known
      <3> QED BY <2>2, <3>1, <3>2, <3>3
    <2>3. CASE t # s
      BY <1>1, <1>2, <2>1, <2>3 DEF Owned, AtWork, Answered, Known
    <2> QED BY <2>2, <2>3
  <1>5. Restoring'
    BY <1>1 DEF Restoring
  <1> QED BY <1>3, <1>4, <1>5

\* A stop ends; target.remove drops a record nothing is restoring.
LEMMA StopOverStep ==
    ASSUME IInv, NEW s \in Slugs, StopOver(s)
    PROVE  IInv'
  <1> USE DEF IInv
  <1>1. TypeOK /\ queue[s] # <<>> /\ Head(queue[s]) \in Stops /\ Pop(s) /\ TornDown(s)
        /\ stopping' = [stopping EXCEPT ![s] = NoRun]
        /\ targets' = (IF Head(queue[s]) = "remove" THEN targets \ {s} ELSE targets)
        /\ UNCHANGED <<phase, restoring, entry, runs, alive, lastAsk, seen>>
    BY DEF StopOver, AtWork
  <1>2. entry[s] = NoRun /\ alive[s] = {}
    BY <1>1, TornDownMeansGone
  <1>3. stopping'[s] = NoRun /\ \A t \in Slugs : t # s => stopping'[t] = stopping[t]
    BY <1>1 DEF TypeOK
  <1>4. restoring = {}
    <2>1. Len(queue[s]) \in Nat \ {0} /\ Head(queue[s]) = queue[s][1]
      BY <1>1 DEF TypeOK
    <2> QED BY <1>1, <2>1 DEF Restoring, Stops
  <1>5. TypeOK'
    BY <1>1, <1>4, PopFacts DEF TypeOK
  <1>6. ASSUME NEW t \in Slugs PROVE (Owned(t) /\ Answered(t) /\ Known(t))'
    <2>1. Owned(t) /\ Answered(t) /\ Known(t)
      OBVIOUS
    <2>2. CASE t = s
      <3>1. Owned(s)'
        BY <1>1, <1>2, <1>3, <2>1, <2>2 DEF Owned, TypeOK, NoRun
      <3>2. Answered(s)'
        BY <1>1, <1>2, PopFacts DEF Answered
      <3>3. Known(s)'
        BY <1>1, <1>2 DEF Known
      <3> QED BY <2>2, <3>1, <3>2, <3>3
    <2>3. CASE t # s
      <3>1. queue'[t] = queue[t]
        BY <1>1, <2>3, PopFacts
      <3> QED BY <1>1, <1>3, <2>1, <2>3, <3>1 DEF Owned, AtWork, Answered, Known
    <2> QED BY <2>2, <2>3
  <1>7. Restoring'
    BY <1>1, <1>4 DEF Restoring
  <1> QED BY <1>5, <1>6, <1>7

\* Only the runs of one target that have processes change.
LEMMA AliveFacts ==
    ASSUME TypeOK, NEW s \in Slugs, NEW R \in SUBSET Runs, alive' = [alive EXCEPT ![s] = R]
    PROVE  /\ alive' \in [Slugs -> SUBSET Runs]
           /\ alive'[s] = R
           /\ \A t \in Slugs : t # s => alive'[t] = alive[t]
  <1>1. alive \in [Slugs -> SUBSET Runs]
    BY DEF TypeOK
  <1>2. alive' \in [Slugs -> SUBSET Runs]
    BY <1>1
  <1>3. alive'[s] = R /\ \A t \in Slugs : t # s => alive'[t] = alive[t]
    BY <1>1
  <1> QED BY <1>2, <1>3

\* A start ends, with a run whose number nobody has seen yet, or without one.
LEMMA StartOverStep ==
    ASSUME IInv, NEW s \in Slugs, StartOver(s)
    PROVE  IInv'
  <1> USE DEF IInv
  <1>1. TypeOK /\ queue[s] # <<>> /\ Head(queue[s]) = "start" /\ Pop(s) /\ TornDown(s)
        /\ stopping' = [stopping EXCEPT ![s] = NoRun]
        /\ UNCHANGED <<phase, targets, restoring, lastAsk, seen>>
    BY DEF StartOver, AtWork
  <1>2. entry[s] = NoRun /\ alive[s] = {}
    BY <1>1, TornDownMeansGone
  <1>3. stopping'[s] = NoRun /\ \A t \in Slugs : t # s => stopping'[t] = stopping[t]
    BY <1>1 DEF TypeOK
  <1>4. /\ entry' \in [Slugs -> Runs \cup {NoRun}] /\ runs' \in [Slugs -> 0 .. MaxRuns]
        /\ alive' \in [Slugs -> SUBSET Runs]
        /\ \A t \in Slugs : t # s =>
              entry'[t] = entry[t] /\ runs'[t] = runs[t] /\ alive'[t] = alive[t]
        /\ \/ entry'[s] = NoRun /\ runs'[s] = runs[s] /\ alive'[s] = {}
           \/ /\ runs'[s] = runs[s] + 1 /\ entry'[s] = runs'[s]
              /\ alive'[s] \subseteq {runs'[s]}
    <2>1. CASE UNCHANGED <<entry, runs, alive>>
      BY <1>1, <1>2, <2>1 DEF TypeOK
    <2>2. CASE /\ runs[s] < MaxRuns
               /\ runs' = [runs EXCEPT ![s] = @ + 1]
               /\ entry' = [entry EXCEPT ![s] = runs'[s]]
               /\ alive' \in {alive, [alive EXCEPT ![s] = @ \cup {runs'[s]}]}
      <3>1. runs[s] \in 0 .. MaxRuns /\ runs'[s] = runs[s] + 1
        BY <1>1, <2>2 DEF TypeOK
      <3>2. runs'[s] \in Runs
        BY <2>2, <3>1, BoundsAssumption DEF Runs
      <3>3. runs' \in [Slugs -> 0 .. MaxRuns] /\ \A t \in Slugs : t # s => runs'[t] = runs[t]
        BY <1>1, <2>2, <3>2 DEF TypeOK, Runs
      <3>4. entry' \in [Slugs -> Runs \cup {NoRun}] /\ entry'[s] = runs'[s]
            /\ \A t \in Slugs : t # s => entry'[t] = entry[t]
        BY <1>1, <2>2, <3>2 DEF TypeOK
      <3>5. alive' \in [Slugs -> SUBSET Runs] /\ alive'[s] \subseteq {runs'[s]}
            /\ \A t \in Slugs : t # s => alive'[t] = alive[t]
        <4>1. CASE alive' = alive
          BY <1>1, <1>2, <4>1 DEF TypeOK
        <4>2. CASE alive' = [alive EXCEPT ![s] = alive[s] \cup {runs'[s]}]
          <5>1. alive[s] \cup {runs'[s]} = {runs'[s]} /\ {runs'[s]} \in SUBSET Runs
            BY <1>2, <3>2
          <5>2. alive' = [alive EXCEPT ![s] = {runs'[s]}]
            BY <4>2, <5>1
          <5> QED BY <1>1, <5>1, <5>2, AliveFacts
        <4> QED BY <2>2, <4>1, <4>2
      <3> QED BY <3>1, <3>3, <3>4, <3>5
    <2> QED BY <2>1, <2>2 DEF StartOver
  <1>5. TypeOK'
    BY <1>1, <1>4, PopFacts DEF TypeOK
  <1>6. ASSUME NEW t \in Slugs PROVE (Owned(t) /\ Answered(t) /\ Known(t))'
    <2>1. Owned(t) /\ Answered(t) /\ Known(t)
      OBVIOUS
    <2>2. CASE t = s
      <3>1. runs[s] \in Nat /\ seen[s] <= runs[s] /\ 0 <= runs'[s] /\ seen[s] <= runs'[s]
        BY <1>1, <1>4, <2>1, <2>2, BoundsAssumption DEF TypeOK, Owned, Runs, NoRun
      <3>2. Owned(s)'
        BY <1>1, <1>3, <1>4, <3>1 DEF Owned, NoRun
      <3>3. Answered(s)'
        BY <1>1, PopFacts DEF Answered, Stops
      <3>4. Known(s)'
        BY <1>1, <1>4, <3>1 DEF Known, NoRun, TypeOK, Runs
      <3> QED BY <2>2, <3>2, <3>3, <3>4
    <2>3. CASE t # s
      <3>1. queue'[t] = queue[t]
        BY <1>1, <2>3, PopFacts
      <3> QED BY <1>1, <1>3, <1>4, <2>1, <2>3, <3>1 DEF Owned, AtWork, Answered, Known
    <2> QED BY <2>2, <2>3
  <1>7. Restoring'
    BY <1>1, PopFacts DEF Restoring
  <1> QED BY <1>5, <1>6, <1>7

\* restartCommand ends: it was not what any teardown waited for.
LEMMA RestartOverStep ==
    ASSUME IInv, NEW s \in Slugs, RestartOver(s)
    PROVE  IInv'
  <1> USE DEF IInv
  <1>1. TypeOK /\ queue[s] # <<>> /\ Head(queue[s]) = "restart" /\ Pop(s)
        /\ UNCHANGED <<phase, targets, restoring, entry, stopping, runs, alive, lastAsk, seen>>
    BY DEF RestartOver, AtWork
  <1>2. TypeOK'
    BY <1>1, PopFacts DEF TypeOK
  <1>3. ASSUME NEW t \in Slugs PROVE (Owned(t) /\ Answered(t) /\ Known(t))'
    <2>1. Owned(t) /\ Answered(t) /\ Known(t)
      OBVIOUS
    <2>2. CASE t = s
      <3>1. stopping[s] = NoRun
        BY <1>1, <2>1, <2>2 DEF Owned, AtWork, Teardowns, Stops
      <3>2. Owned(s)'
        BY <1>1, <2>1, <2>2, <3>1 DEF Owned
      <3>3. Answered(s)'
        BY <1>1, PopFacts DEF Answered, Stops
      <3>4. Known(s)'
        BY <1>1, <2>1, <2>2, PopFacts DEF Known
      <3> QED BY <2>2, <3>2, <3>3, <3>4
    <2>3. CASE t # s
      <3>1. queue'[t] = queue[t]
        BY <1>1, <2>3, PopFacts
      <3> QED BY <1>1, <2>1, <3>1 DEF Owned, AtWork, Answered, Known
    <2> QED BY <2>2, <2>3
  <1>4. Restoring'
    BY <1>1, PopFacts DEF Restoring
  <1> QED BY <1>2, <1>3, <1>4

\* Processes of a run come, while it is registered, and go.
LEMMA ProcessStep ==
    ASSUME IInv, NEW s \in Slugs, NEW r \in Runs, Revive(s) \/ Die(s, r)
    PROVE  IInv'
  <1> USE DEF IInv
  <1>1. TypeOK /\ UNCHANGED <<phase, targets, restoring, queue, entry, stopping, runs, lastAsk, seen>>
    BY DEF Revive, Die
  <1>2. /\ alive' \in [Slugs -> SUBSET Runs]
        /\ \A t \in Slugs : t # s => alive'[t] = alive[t]
        /\ alive'[s] \subseteq alive[s] \cup {entry[s]}
    <2>1. alive[s] \in SUBSET Runs
      BY <1>1 DEF TypeOK
    <2>2. PICK R \in SUBSET Runs :
            R \subseteq alive[s] \cup {entry[s]} /\ alive' = [alive EXCEPT ![s] = R]
      <3>1. CASE Revive(s)
        <4>1. entry[s] # NoRun /\ alive' = [alive EXCEPT ![s] = alive[s] \cup {entry[s]}]
          BY <3>1 DEF Revive
        <4>2. alive[s] \cup {entry[s]} \in SUBSET Runs
          BY <1>1, <2>1, <4>1 DEF TypeOK
        <4> QED BY <4>1, <4>2
      <3>2. CASE Die(s, r)
        <4>1. alive' = [alive EXCEPT ![s] = alive[s] \ {r}]
          BY <3>2 DEF Die
        <4>2. alive[s] \ {r} \in SUBSET Runs
          BY <2>1
        <4> QED BY <4>1, <4>2
      <3> QED BY <3>1, <3>2
    <2>3. /\ alive' \in [Slugs -> SUBSET Runs]
          /\ alive'[s] = R
          /\ \A t \in Slugs : t # s => alive'[t] = alive[t]
      BY <1>1, <2>2, AliveFacts
    <2> QED BY <2>2, <2>3
  <1>3. TypeOK'
    BY <1>1, <1>2 DEF TypeOK
  <1>4. ASSUME NEW t \in Slugs PROVE (Owned(t) /\ Answered(t) /\ Known(t))'
    <2>1. Owned(t) /\ Answered(t) /\ Known(t) /\ alive'[t] \subseteq alive[t] \cup {entry[t]}
      BY <1>2
    <2> QED BY <1>1, <2>1 DEF Owned, AtWork, Answered, Known
  <1>5. Restoring'
    BY <1>1 DEF Restoring
  <1> QED BY <1>3, <1>4, <1>5

\* The shutdown begins: an operation is queued wherever something is registered.
LEMMA StopStep ==
    ASSUME IInv, Stop
    PROVE  IInv'
  <1> USE DEF IInv
  <1>1. TypeOK /\ phase = "serving" /\ phase' = "stopping" /\ seen' = entry /\ restoring = {}
        /\ queue' = [s \in Slugs |->
                        IF entry[s] # NoRun THEN Append(queue[s], "shutdown") ELSE queue[s]]
        /\ lastAsk' = [s \in Slugs |-> IF entry[s] # NoRun THEN "shutdown" ELSE lastAsk[s]]
        /\ UNCHANGED <<targets, restoring, entry, stopping, runs, alive>>
    BY DEF Stop, Idle
  <1>2. "shutdown" \in Ops
    BY DEF Ops, Teardowns, Stops
  <1>3. ASSUME NEW t \in Slugs
        PROVE  queue'[t] \in Seq(Ops) /\ lastAsk'[t] \in Ops \cup {"none"}
    BY <1>1, <1>2, AppendFacts DEF TypeOK
  <1>4. TypeOK'
    BY <1>1, <1>3 DEF TypeOK
  <1>5. ASSUME NEW t \in Slugs PROVE (Owned(t) /\ Answered(t) /\ Known(t))'
    <2>1. Owned(t) /\ Answered(t) /\ Known(t) /\ queue[t] \in Seq(Ops) /\ seen'[t] = entry[t]
      BY <1>1 DEF TypeOK
    <2>2. CASE entry[t] = NoRun
      <3>1. queue'[t] = queue[t] /\ lastAsk'[t] = lastAsk[t]
        BY <1>1, <2>2
      <3>2. Owned(t)'
        BY <1>1, <2>1, <2>2, <3>1 DEF Owned, AtWork
      <3>3. Answered(t)' /\ Known(t)'
        BY <1>1, <2>1, <2>2, <3>1 DEF Answered, Known
      <3> QED BY <3>2, <3>3
    <2>3. CASE entry[t] # NoRun
      <3>1. queue'[t] = Append(queue[t], "shutdown") /\ lastAsk'[t] = "shutdown"
        BY <1>1, <2>3
      <3>2. Owned(t)'
        BY <1>1, <2>1, <2>3 DEF Owned
      <3>3. Answered(t)'
        BY <1>2, <2>1, <3>1, AppendFacts DEF Answered
      <3>4. Known(t)'
        BY <1>1, <1>2, <2>1, <3>1, AppendFacts DEF Known
      <3> QED BY <3>2, <3>3, <3>4
    <2> QED BY <2>2, <2>3
  <1>6. Restoring'
    BY <1>1 DEF Restoring
  <1> QED BY <1>4, <1>5, <1>6

\* A record is added, the server closes, the process ends.
LEMMA QuietStep ==
    ASSUME IInv, (\E s \in Slugs : TargetAdd(s)) \/ CloseServer \/ ExitProcess
    PROVE  IInv'
  <1> USE DEF IInv
  <1>1. TypeOK /\ UNCHANGED <<restoring, queue, entry, stopping, runs, alive, lastAsk, seen>>
    BY DEF TargetAdd, CloseServer, ExitProcess
  <1>2. TypeOK'
    BY <1>1 DEF TypeOK, TargetAdd, CloseServer, ExitProcess
  <1>3. ASSUME NEW t \in Slugs PROVE Known(t)'
    <2>1. Known(t)
      OBVIOUS
    <2>2. CASE \E s \in Slugs : TargetAdd(s)
      BY <1>1, <2>1, <2>2 DEF TargetAdd, Known
    <2>3. CASE CloseServer
      BY <1>1, <2>1, <2>3 DEF CloseServer, AllStopped, Known
    <2>4. CASE ExitProcess
      BY <1>1, <2>1, <2>4 DEF ExitProcess, Known
    <2> QED BY <2>2, <2>3, <2>4
  <1>4. ASSUME NEW t \in Slugs PROVE Owned(t)' /\ Answered(t)'
    <2>1. Owned(t) /\ Answered(t)
      OBVIOUS
    <2> QED BY <1>1, <2>1 DEF Owned, AtWork, Answered
  <1>5. Restoring'
    BY <1>1 DEF Restoring
  <1> QED BY <1>2, <1>3, <1>4, <1>5

\* A handler of a request starts, stops, removes or restarts.
LEMMA RequestStep ==
    ASSUME IInv, NEW s \in Slugs,
           RunStart(s) \/ RunStop(s) \/ TargetRemove(s) \/ RunRestart(s)
    PROVE  IInv'
  <1>1. PICK op \in Ops : Request(s, op)
    BY DEF RunStart, RunStop, TargetRemove, RunRestart, Ops, Teardowns, Stops
  <1>2. restoring = {}
    BY <1>1 DEF Request, Serving, Idle
  <1> QED BY <1>1, <1>2, EnqueueStep DEF Request

\* restoreAutostart starts the next target, or cannot.
LEMMA RestoreStep ==
    ASSUME IInv, NEW s \in Slugs, RestoreNext(s)
    PROVE  IInv'
  <1>1. /\ restoring' \in SUBSET restoring
        /\ Enqueue(s, "start") \/ UNCHANGED <<queue, lastAsk>>
        /\ UNCHANGED <<phase, targets, entry, stopping, runs, alive, seen>>
    BY DEF RestoreNext
  <1>2. CASE Enqueue(s, "start")
    BY <1>1, <1>2, EnqueueStep DEF Ops, Teardowns
  <1>3. CASE UNCHANGED <<queue, lastAsk>>
    <2>1. TypeOK'
      BY <1>1, <1>3 DEF IInv, TypeOK
    <2>2. ASSUME NEW t \in Slugs PROVE (Owned(t) /\ Answered(t) /\ Known(t))'
      BY <1>1, <1>3 DEF IInv, Owned, AtWork, Answered, Known
    <2>3. Restoring'
      BY <1>1, <1>3 DEF IInv, Restoring
    <2> QED BY <2>1, <2>2, <2>3 DEF IInv
  <1> QED BY <1>1, <1>2, <1>3

-----------------------------------------------------------------------------
(* The theorems. *)

LEMMA InitStep == Init => IInv
  <1> SUFFICES ASSUME Init PROVE IInv
    OBVIOUS
  <1>1. TypeOK
    BY BoundsAssumption DEF Init, TypeOK, Nothing, NoRun
  <1>2. ASSUME NEW s \in Slugs PROVE Owned(s) /\ Answered(s) /\ Known(s)
    BY DEF Init, Owned, Answered, Known, Nothing, NoRun, Stops
  <1>3. Restoring
    BY EmptySeq DEF Init, Restoring
  <1> QED BY <1>1, <1>2, <1>3 DEF IInv

LEMMA NextStep == IInv /\ [Next]_vars => IInv'
  <1> SUFFICES ASSUME IInv, [Next]_vars PROVE IInv'
    OBVIOUS
  <1>1. CASE \E s \in Slugs : TargetAdd(s)
    BY <1>1, QuietStep
  <1>2. ASSUME NEW s \in Slugs,
               RunStart(s) \/ RunStop(s) \/ TargetRemove(s) \/ RunRestart(s)
        PROVE  IInv'
    BY <1>2, RequestStep
  <1>3. ASSUME NEW s \in Slugs, BeginTeardown(s) PROVE IInv'
    BY <1>3, TeardownStep
  <1>4. ASSUME NEW s \in Slugs, StopOver(s) PROVE IInv'
    BY <1>4, StopOverStep
  <1>5. ASSUME NEW s \in Slugs, StartOver(s) PROVE IInv'
    BY <1>5, StartOverStep
  <1>6. ASSUME NEW s \in Slugs, RestartOver(s) PROVE IInv'
    BY <1>6, RestartOverStep
  <1>7. ASSUME NEW s \in Slugs, Revive(s) PROVE IInv'
    <2>1. entry[s] \in Runs
      BY <1>7 DEF IInv, TypeOK, Revive
    <2> QED BY <1>7, <2>1, ProcessStep
  <1>8. ASSUME NEW s \in Slugs, NEW r \in Runs, Die(s, r) PROVE IInv'
    BY <1>8, ProcessStep
  <1>9. ASSUME NEW s \in Slugs, RestoreNext(s) PROVE IInv'
    BY <1>9, RestoreStep
  <1>10. CASE Stop
    BY <1>10, StopStep
  <1>11. CASE CloseServer \/ ExitProcess
    BY <1>11, QuietStep
  <1>12. CASE UNCHANGED vars
    <2>1. TypeOK'
      BY <1>12 DEF IInv, TypeOK, vars
    <2>2. ASSUME NEW t \in Slugs PROVE (Owned(t) /\ Answered(t) /\ Known(t))'
      BY <1>12 DEF IInv, Owned, AtWork, Answered, Known, vars
    <2>3. Restoring'
      BY <1>12 DEF IInv, Restoring, vars
    <2> QED BY <2>1, <2>2, <2>3 DEF IInv
  <1> QED
    BY <1>1, <1>2, <1>3, <1>4, <1>5, <1>6, <1>7, <1>8, <1>9, <1>10, <1>11, <1>12 DEF Next

\* Every process is owned, every queue knows what was asked last, and the
\* shutdown knows what it has still to wait for.
THEOREM Invariance == Spec => []IInv
  BY InitStep, NextStep, PTL DEF Spec

\* The state of the registry is well typed: in particular no record is dropped
\* that restoreAutostart has still to start.
THEOREM TypeOKHolds == Spec => []TypeOK
  <1>1. IInv => TypeOK
    BY DEF IInv
  <1> QED BY <1>1, Invariance, PTL

\* Every process belongs to the registered run or to the one being torn down.
THEOREM RunsAreReachable == Spec => []NoUnreachableRun
  <1>1. IInv => NoUnreachableRun
    <2> SUFFICES ASSUME IInv, NEW s \in Slugs, NEW r \in alive[s], r # entry[s]
                 PROVE  r = stopping[s] /\ AtWork(s, Teardowns)
      BY DEF NoUnreachableRun
    <2>1. Owned(s) /\ r # NoRun
      BY DEF IInv, TypeOK, Runs, NoRun
    <2> QED BY <2>1 DEF Owned
  <1> QED BY <1>1, Invariance, PTL

\* A stop is not overtaken by what was asked for before it.
THEOREM StopsAreFinal == Spec => []LastStopWins
  <1>1. IInv => LastStopWins
    <2> SUFFICES ASSUME IInv, NEW s \in Slugs, queue[s] = <<>>, lastAsk[s] \in Stops
                 PROVE  entry[s] = NoRun /\ alive[s] = {}
      BY DEF LastStopWins
    <2>1. entry[s] = NoRun /\ stopping[s] = NoRun /\ alive[s] \subseteq {NoRun}
      BY DEF IInv, Owned, Answered, AtWork
    <2>2. NoRun \notin alive[s]
      BY DEF IInv, TypeOK, Runs, NoRun
    <2> QED BY <2>1, <2>2
  <1> QED BY <1>1, Invariance, PTL

\* No run of a target is started while another one has processes.
THEOREM RunsDoNotOverlap == Spec => StartsFollowStops
  <1>1. IInv /\ [Next]_vars => [\A s \in Slugs : runs'[s] # runs[s] => alive[s] = {}]_vars
    <2> SUFFICES ASSUME IInv, Next, NEW s \in Slugs, runs'[s] # runs[s]
                 PROVE  alive[s] = {}
      OBVIOUS
    <2>1. PICK t \in Slugs : StartOver(t)
      BY DEF Next, TargetAdd, Request, RunStart, RunStop, TargetRemove, RunRestart,
             BeginTeardown, StopOver, RestartOver, Revive, Die, RestoreNext, Stop,
             CloseServer, ExitProcess
    <2>2. t = s
      BY <2>1 DEF IInv, TypeOK, StartOver
    <2> QED BY <2>1, <2>2, TornDownMeansGone DEF StartOver
  <1> QED BY <1>1, Invariance, PTL DEF Spec, StartsFollowStops

\* What stopAll saw has ended when the daemon exits.
THEOREM ShutdownIsThorough == Spec => []ShutdownKillsKnown
  <1>1. IInv => ShutdownKillsKnown
    <2> SUFFICES ASSUME IInv, phase = "exited", NEW s \in Slugs
                 PROVE  seen[s] \notin alive[s]
      BY DEF ShutdownKillsKnown
    <2>1. Known(s) /\ NoRun \notin alive[s]
      BY DEF IInv, TypeOK, Runs, NoRun
    <2> QED BY <2>1 DEF Known
  <1> QED BY <1>1, Invariance, PTL

=============================================================================
