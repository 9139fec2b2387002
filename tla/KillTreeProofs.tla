---------------------------- MODULE KillTreeProofs ----------------------------
(***************************************************************************)
(* What one call of killTrees leaves behind, for any number of children.    *)
(*                                                                          *)
(* Both properties speak of the end of the call, when its requests are long *)
(* over.  That they last needs one fact: only a shell that is up can fork,  *)
(* and from the force request on no shell of the batch is up any more.       *)
(***************************************************************************)
EXTENDS KillTree, TLAPS

TypeOK ==
    /\ platform \in {"posix", "windows"}
    /\ shell \in [Kids -> {"none", "up", "doomed", "zombie", "gone"}]
    /\ worker \in [Kids -> {"none", "up", "doomed"}]
    /\ stage \in {"idle", "soft", "force", "done"}
    /\ live \subseteq Kids
    /\ gaveUp \in BOOLEAN

\* Every child of the batch was spawned.
BatchSpawned == \A c \in live : shell[c] # "none"

\* On POSIX no taskkill is ever waited for, and once force was used (or was not
\* needed) nobody in the groups is up, nor can come up.
ForceReachedAll ==
    platform = "posix" =>
        /\ asked = {}
        /\ stage \in {"force", "done"} =>
              \A c \in live : shell[c] # "up" /\ worker[c] # "up"

IInv == TypeOK /\ BatchSpawned /\ ForceReachedAll /\ ResolvedMeansGone

-----------------------------------------------------------------------------
(* Signals. *)

\* A signal makes processes that are up die, and does nothing else.
Signalled ==
    /\ shell' \in [Kids -> {"none", "up", "doomed", "zombie", "gone"}]
    /\ worker' \in [Kids -> {"none", "up", "doomed"}]
    /\ \A c \in Kids :
          /\ shell'[c] = shell[c] \/ (shell[c] = "up" /\ shell'[c] = "doomed")
          /\ worker'[c] = worker[c] \/ (worker[c] = "up" /\ worker'[c] = "doomed")

LEMMA DoomEffect ==
    ASSUME TypeOK, NEW S, NEW T, Doom(S, T)
    PROVE  /\ Signalled
           /\ \A c \in Kids : /\ c \in S => shell'[c] # "up"
                              /\ c \in T => worker'[c] # "up"
  BY DEF Doom, TypeOK, Signalled

\* So do the requests and the answers of taskkill; the force request spares nobody.
LEMMA Requests ==
    ASSUME TypeOK
    PROVE  /\ RequestTerminate \/ ForceTerminate => Signalled
           /\ SoftAnswer \/ ForceAnswer => Signalled
           /\ ForceTerminate /\ platform = "posix" =>
                 \A c \in live : shell'[c] # "up" /\ worker'[c] # "up"
  <1>1. ASSUME NEW S, NEW T, Doom(S, T) PROVE Signalled
    BY <1>1, DoomEffect
  <1>2. UNCHANGED <<shell, worker>> => Signalled
    BY DEF Signalled, TypeOK
  <1>3. \A C : AskPolitely(C) => Signalled
    BY <1>1 DEF AskPolitely
  <1>4. RequestTerminate \/ ForceTerminate => Signalled
    BY <1>1, <1>2, <1>3 DEF RequestTerminate, ForceTerminate
  <1>5. SoftAnswer \/ ForceAnswer => Signalled
    BY <1>1, <1>3 DEF SoftAnswer, ForceAnswer
  <1>6. ForceTerminate /\ platform = "posix" =>
            \A c \in live : shell'[c] # "up" /\ worker'[c] # "up"
    BY DoomEffect DEF ForceTerminate, TypeOK
  <1> QED
    BY <1>4, <1>5, <1>6

-----------------------------------------------------------------------------
(* The invariant. *)

LEMMA InvInit == Init => IInv
  BY DEF Init, IInv, TypeOK, BatchSpawned, ForceReachedAll, ResolvedMeansGone

\* IsGone, for a batch of children that were spawned.
LEMMA GoneMeansGone ==
    ASSUME TypeOK, BatchSpawned, IsGone, NEW c \in live
    PROVE  shell[c] = "gone" /\ (platform = "posix" => worker[c] = "none")
  BY DEF TypeOK, BatchSpawned, IsGone, ChildrenExited, GroupsEmpty, IsLive

LEMMA CallStep == IInv /\ Call => IInv'
  <1> SUFFICES ASSUME IInv, Call PROVE IInv'
    OBVIOUS
  <1> USE DEF IInv, TypeOK, BatchSpawned, ForceReachedAll, ResolvedMeansGone
  <1>1. \A c \in live' : c \in Kids /\ shell[c] # "none"
    BY DEF Call, IsLive
  <1>2. CASE live' = {}
    BY <1>2 DEF Call
  <1>3. CASE live' # {}
    <2>1. Signalled
      BY <1>3, Requests DEF Call
    <2>2. stage' = "soft" /\ UNCHANGED <<platform, softFailed, refused, gaveUp>>
      BY <1>3 DEF Call
    <2>3. platform = "posix" => asked' = {}
      BY <1>3 DEF Call, RequestTerminate
    <2> QED
      BY <1>1, <2>1, <2>2, <2>3 DEF Signalled
  <1> QED
    BY <1>2, <1>3

LEMMA StageStep == IInv /\ (SoftEnds \/ ForceEnds) => IInv'
  <1> SUFFICES ASSUME IInv, SoftEnds \/ ForceEnds PROVE IInv'
    OBVIOUS
  <1> USE DEF IInv, TypeOK, BatchSpawned, ForceReachedAll, ResolvedMeansGone
  <1>1. CASE SoftEnds /\ IsGone
    BY <1>1, GoneMeansGone DEF SoftEnds
  <1>2. CASE SoftEnds /\ ~IsGone
    <2>1. Signalled
      BY <1>2, Requests DEF SoftEnds
    <2>2. platform = "posix" =>
            asked' = {} /\ \A c \in live : shell'[c] # "up" /\ worker'[c] # "up"
      BY <1>2, Requests DEF SoftEnds, ForceTerminate
    <2>3. stage' = "force" /\ UNCHANGED <<platform, live, gaveUp>>
      BY <1>2 DEF SoftEnds
    <2> QED
      BY <2>1, <2>2, <2>3 DEF Signalled
  <1>3. CASE ForceEnds
    BY <1>3, GoneMeansGone DEF ForceEnds
  <1> QED
    BY <1>1, <1>2, <1>3

LEMMA AnswerStep == IInv /\ (SoftAnswer \/ ForceAnswer) => IInv'
  <1> SUFFICES ASSUME IInv, SoftAnswer \/ ForceAnswer PROVE IInv'
    OBVIOUS
  <1>1. Signalled
    BY Requests DEF IInv
  <1>2. platform # "posix" /\ UNCHANGED <<platform, stage, live, gaveUp>>
    BY DEF SoftAnswer, ForceAnswer, IInv, ForceReachedAll
  <1> QED
    BY <1>1, <1>2 DEF Signalled, IInv, TypeOK, BatchSpawned, ForceReachedAll, ResolvedMeansGone

LEMMA ProcessStep ==
    ASSUME IInv, NEW c \in Kids, Fork(c) \/ ShellDies(c) \/ Report(c) \/ WorkerDies(c)
    PROVE  IInv'
  BY DEF IInv, TypeOK, BatchSpawned, ForceReachedAll, ResolvedMeansGone, Fork, ShellDies, Report,
         WorkerDies, Processes

LEMMA InvStep == IInv /\ [Next]_vars => IInv'
  <1>1. IInv /\ UNCHANGED vars => IInv'
    BY DEF vars, IInv, TypeOK, BatchSpawned, ForceReachedAll, ResolvedMeansGone
  <1> QED
    BY <1>1, CallStep, StageStep, AnswerStep, ProcessStep DEF Next

\* Whenever a call of killTrees has come to its force request, on POSIX nobody in the
\* groups of its children is up any more, nor can a shell fork one.
THEOREM Invariance == Spec => []IInv
  BY InvInit, InvStep, PTL DEF Spec

\* killTrees that resolves in time leaves none of its shells, and on POSIX nobody
\* in their groups: a restart finds the ports free (killTrees, isGone).
THEOREM ResolvedTreesAreGone == Spec => []ResolvedMeansGone
  <1>1. IInv => ResolvedMeansGone
    BY DEF IInv
  <1> QED
    BY <1>1, Invariance, PTL

\* Nobody in the groups gets away without a SIGKILL, not even a worker that outlived
\* its shell or was forked during the wait (forceTerminate).
THEOREM NobodyIsLeftUp == Spec => []NothingLeftUp
  <1>1. IInv => NothingLeftUp
    BY DEF IInv, ForceReachedAll, NothingLeftUp
  <1> QED
    BY <1>1, Invariance, PTL

=============================================================================
