--------------------------- MODULE ConnectionProofs ---------------------------
(***************************************************************************)
(* No source outlives its subscription, its connection or its subscriber,   *)
(* and no stream loses or repeats what was pushed, for any number of        *)
(* requests and any length of streams.  Below them, the decoder hears the   *)
(* same frames however its bytes were cut.                                  *)
(***************************************************************************)
EXTENDS Connection, Framing, FiniteSetTheorems, SequenceTheorems, WellFoundedInduction, TLAPS

\* What can be on the wire.
FromServer == [kind : {"hello", "ok", "error", "oversized", "data", "end", "fin"}, id : Nat]
FromClient == [kind : {"request", "subscribe", "unsubscribe", "fin"}, id : Nat]

Wires == toClient \in Seq(FromServer) /\ toServer \in Seq(FromClient)

-----------------------------------------------------------------------------
(* Only such frames are sent. *)

LEMMA Frames ==
    ASSUME NEW id \in Nat
    PROVE  /\ \A kind \in {"ok", "error", "oversized", "data", "end"} :
                  Frame(kind, id) \in FromServer
           /\ \A kind \in {"request", "subscribe", "unsubscribe"} : Frame(kind, id) \in FromClient
           /\ Fin \in FromServer \cap FromClient
  BY DEF Frame, Fin, FromServer, FromClient

LEMMA Prefix ==
    ASSUME NEW S, NEW s \in Seq(S), NEW n \in 0..Len(s)
    PROVE  SubSeq(s, 1, n) \in Seq(S)
  OBVIOUS

LEMMA CallsAreFrames ==
    Wires /\ (Request \/ Subscribe \/ Close \/ \E i \in Ids : Subscribed(i) \/ Unsubscribe(i))
        => Wires'
  <1> SUFFICES ASSUME Wires,
                      Request \/ Subscribe \/ Close
                        \/ \E i \in Ids : Subscribed(i) \/ Unsubscribe(i)
               PROVE  Wires'
    OBVIOUS
  <1> USE DEF Wires, serverVars
  <1>1. CASE Request \/ Subscribe
    <2>1. nextId \in Nat
      BY <1>1 DEF Request, Subscribe, Ids
    <2>2. /\ Frame("request", nextId) \in FromClient
          /\ Frame("subscribe", nextId) \in FromClient
      BY <2>1, Frames
    <2>3. toServer' \in {toServer, Append(toServer, Frame("request", nextId)),
                        Append(toServer, Frame("subscribe", nextId))}
      BY <1>1 DEF Request, Subscribe, SendRequest, Send
    <2>4. toClient' = toClient
      BY <1>1 DEF Request, Subscribe
    <2>5. /\ Append(toServer, Frame("request", nextId)) \in Seq(FromClient)
          /\ Append(toServer, Frame("subscribe", nextId)) \in Seq(FromClient)
      BY <2>2
    <2>6. toServer' \in Seq(FromClient)
      BY <2>3, <2>5
    <2> QED
      BY <2>4, <2>6
  <1>2. CASE Close
    <2>1. toClient' = toClient /\ toServer' = Append(toServer, Fin)
      BY <1>2 DEF Close, Send
    <2>2. Fin \in FromClient
      BY Frames
    <2> QED
      BY <2>1, <2>2
  <1>3. CASE \E i \in Ids : Subscribed(i)
    BY <1>3 DEF Subscribed
  <1>4. CASE \E i \in Ids : Unsubscribe(i)
    <2>1. PICK i \in Ids : Unsubscribe(i)
      BY <1>4
    <2>2. Frame("unsubscribe", i) \in FromClient
      BY Frames DEF Ids
    <2> QED
      BY <2>1, <2>2 DEF Unsubscribe, Send
  <1> QED
    BY <1>1, <1>2, <1>3, <1>4

LEMMA ClientKeepsFrames ==
    Wires /\ (OnFrame \/ OnEnd \/ ClientDestroys) => Wires'
  <1> SUFFICES ASSUME Wires, OnFrame \/ OnEnd \/ ClientDestroys
               PROVE  Wires'
    OBVIOUS
  <1> USE DEF Wires, serverVars
  <1>1. CASE OnFrame
    BY <1>1 DEF OnFrame
  <1>2. CASE OnEnd
    <2>1. toClient' = <<>> /\ toServer' \in {toServer, Append(toServer, Fin)}
      BY <1>2 DEF OnEnd
    <2>2. Fin \in FromClient
      BY Frames
    <2> QED
      BY <2>1, <2>2
  <1>3. CASE ClientDestroys
    BY <1>3, Frames, Prefix DEF ClientDestroys
  <1> QED
    BY <1>1, <1>2, <1>3

LEMMA ServerSendsFrames ==
    Wires /\ (OnRequest \/ OnSubscribe \/ OnUnsubscribe \/ OnFin \/ ServerDestroys
                 \/ \E i \in Ids : Respond(i) \/ Push(i) \/ EndSource(i))
        => Wires'
  <1> SUFFICES ASSUME Wires,
                      OnRequest \/ OnSubscribe \/ OnUnsubscribe \/ OnFin \/ ServerDestroys
                        \/ \E i \in Ids : Respond(i) \/ Push(i) \/ EndSource(i)
               PROVE  Wires'
    OBVIOUS
  <1> USE DEF Wires, clientVars
  <1>1. ASSUME NEW fs \in Seq(FromServer), Write(fs) PROVE toClient' \in Seq(FromServer)
    BY <1>1 DEF Write
  <1>2. ASSUME NEW kind, Receive(kind)
        PROVE  toServer' \in Seq(FromClient) /\ Head(toServer).id \in Nat
    <2>1. toServer # <<>> /\ toServer' = Tail(toServer)
      BY <1>2 DEF Receive
    <2>2. Head(toServer) \in FromClient
      BY <2>1
    <2> QED
      BY <2>1, <2>2 DEF FromClient
  <1>3. CASE OnRequest \/ OnUnsubscribe
    BY <1>2, <1>3 DEF OnRequest, OnUnsubscribe
  <1>4. CASE OnSubscribe
    <2> DEFINE id == Head(toServer).id
    <2>1. toServer' \in Seq(FromClient) /\ id \in Nat
      BY <1>2, <1>4 DEF OnSubscribe
    <2>2. /\ <<Frame("error", id)>> \in Seq(FromServer)
          /\ <<Frame("ok", id)>> \in Seq(FromServer)
          /\ <<Frame("ok", id), Frame("end", id)>> \in Seq(FromServer)
      BY <2>1, Frames
    <2> QED
      BY <1>1, <1>4, <2>1, <2>2 DEF OnSubscribe
  <1>5. CASE OnFin
    BY <1>5, Frames DEF OnFin
  <1>6. CASE ServerDestroys
    BY <1>6, Frames, Prefix DEF ServerDestroys
  <1>7. CASE \E i \in Ids : Respond(i) \/ Push(i) \/ EndSource(i)
    <2>1. PICK i \in Ids : Respond(i) \/ Push(i) \/ EndSource(i)
      BY <1>7
    <2>2. /\ <<>> \in Seq(FromServer)
          /\ \A kind \in {"ok", "error", "oversized", "data", "end"} :
                <<Frame(kind, i)>> \in Seq(FromServer)
      BY Frames DEF Ids
    <2> QED
      BY <1>1, <2>1, <2>2 DEF Respond, Push, EndSource
  <1> QED
    BY <1>3, <1>4, <1>5, <1>6, <1>7

-----------------------------------------------------------------------------
(* No step leaks: what takes a subscription from the map stops its source in  *)
(* the same turn, and only an open end adds one.                              *)

\* The calls of a client that is not closed, or that change nothing when it is.
LEMMA CallsLeakNothing ==
    NothingLeaks /\ (Request \/ Subscribe \/ Close \/ \E i \in Ids : Subscribed(i) \/ Unsubscribe(i))
        => NothingLeaks'
  <1> SUFFICES ASSUME NothingLeaks,
                      Request \/ Subscribe \/ Close
                        \/ \E i \in Ids : Subscribed(i) \/ Unsubscribe(i)
               PROVE  NothingLeaks'
    OBVIOUS
  <1> USE DEF NothingLeaks, serverVars
  <1>1. CASE Request
    BY <1>1 DEF Request, SendRequest
  <1>2. CASE Subscribe
    BY <1>2 DEF Subscribe, SendRequest, Registered
  <1>3. CASE Close
    BY <1>3 DEF Close
  <1>4. CASE \E i \in Ids : Subscribed(i)
    BY <1>4 DEF Subscribed
  <1>5. CASE \E i \in Ids : Unsubscribe(i)
    BY <1>5 DEF Unsubscribe
  <1> QED
    BY <1>1, <1>2, <1>3, <1>4, <1>5

\* The client's answers and its end.
LEMMA ClientLeaksNothing ==
    Wires /\ NothingLeaks /\ (OnFrame \/ OnEnd \/ ClientDestroys) => NothingLeaks'
  <1> SUFFICES ASSUME Wires, NothingLeaks, OnFrame \/ OnEnd \/ ClientDestroys
               PROVE  NothingLeaks'
    OBVIOUS
  <1> USE DEF NothingLeaks, serverVars
  <1>1. CASE OnFrame
    <2>1. client # "closed" /\ UNCHANGED serverVars
      BY <1>1 DEF OnFrame
    <2>2. client' \in {client, "open"}
      BY <1>1 DEF OnFrame
    <2> QED
      BY <2>1, <2>2
  <1>2. CASE OnEnd \/ ClientDestroys
    BY <1>2 DEF OnEnd, ClientDestroys, ClientCloses
  <1> QED
    BY <1>1, <1>2

\* The server's turns.
LEMMA ServerLeaksNothing ==
    NothingLeaks /\ (OnRequest \/ OnSubscribe \/ OnUnsubscribe \/ OnFin \/ ServerDestroys
                        \/ \E i \in Ids : Respond(i) \/ Push(i) \/ EndSource(i))
        => NothingLeaks'
  <1> SUFFICES ASSUME NothingLeaks,
                      OnRequest \/ OnSubscribe \/ OnUnsubscribe \/ OnFin \/ ServerDestroys
                        \/ \E i \in Ids : Respond(i) \/ Push(i) \/ EndSource(i)
               PROVE  NothingLeaks'
    OBVIOUS
  <1> USE DEF NothingLeaks, clientVars
  <1>1. CASE OnRequest
    BY <1>1 DEF OnRequest, Receive
  <1>2. CASE OnSubscribe
    BY <1>2 DEF OnSubscribe, Receive
  <1>3. CASE OnUnsubscribe
    BY <1>3 DEF OnUnsubscribe, Receive, Stopped
  <1>4. CASE OnFin \/ ServerDestroys
    BY <1>4 DEF OnFin, ServerDestroys, ServerCloses, Stopped
  <1>5. CASE \E i \in Ids : Respond(i) \/ Push(i)
    BY <1>5 DEF Respond, Push
  <1>6. CASE \E i \in Ids : EndSource(i)
    BY <1>6 DEF EndSource
  <1> QED
    BY <1>1, <1>2, <1>3, <1>4, <1>5, <1>6

\* A follow whose client has unsubscribed, closed or died does not keep the daemon
\* pushing, and a client whose daemon died keeps no waiter and no handler
\* (dispose and the two close handlers).
THEOREM ConnectionsLeakNothing == Spec => []NothingLeaks
  <1>1. Init => Wires /\ NothingLeaks
    BY Frames DEF Init, Wires, NothingLeaks, Frame, FromServer
  <1>2. Wires /\ NothingLeaks /\ [Next]_vars => Wires' /\ NothingLeaks'
    <2> SUFFICES ASSUME Wires, NothingLeaks, [Next]_vars PROVE Wires' /\ NothingLeaks'
      OBVIOUS
    <2>1. CASE UNCHANGED vars
      BY <2>1 DEF vars, clientVars, serverVars, Wires, NothingLeaks
    <2>2. CASE Next
      BY <2>2, CallsAreFrames, ClientKeepsFrames, ServerSendsFrames,
         CallsLeakNothing, ClientLeaksNothing, ServerLeaksNothing DEF Next, Delivery
    <2> QED
      BY <2>1, <2>2
  <1> QED
    BY <1>1, <1>2, PTL DEF Spec

-----------------------------------------------------------------------------
(* What StreamsAreWhole needs: an id is used once.                            *)

Ask(f, i) == f.kind \in {"request", "subscribe"} /\ f.id = i

\* Of what a wire holds for an id.
NoAsk(s, i) == \A k \in 1..Len(s) : ~Ask(s[k], i)
AskOnce(s, i) == \A k, l \in 1..Len(s) : Ask(s[k], i) /\ Ask(s[l], i) => k = l
SubscribeAsked(s, i) == \E k \in 1..Len(s) : s[k].kind = "subscribe" /\ s[k].id = i
Silent(s, i) == \A k \in 1..Len(s) : s[k].id # i
NoEnd(s, i) == \A k \in 1..Len(s) : s[k].id = i => s[k].kind \notin {"error", "end"}

Counts ==
    /\ nextId \in Nat /\ server \in {"open", "closed"}
    /\ got \in [Ids -> Nat] /\ ends \in [Ids -> Nat] /\ pushed \in [Ids -> Nat]

Live == client \in {"connecting", "open"}

\* The server has not begun with a request.
Untouched(i) ==
    /\ i \notin handling \cup subs
    /\ pushed[i] = 0 /\ got[i] = 0
    /\ Silent(toClient, i)

Wanted(i) == Live => i \in streams \cup stopped

FreshOK(i) == i >= nextId => NoAsk(toServer, i) /\ Untouched(i) /\ ends[i] = 0
AskedOK(i) ==
    /\ NoAsk(toServer, i) \/ Untouched(i)
    /\ AskOnce(toServer, i)
    /\ SubscribeAsked(toServer, i) => Wanted(i)
HandlingOK(i) == i \in handling => NoAsk(toServer, i) /\ i \notin subs
\* While the server has a subscription, nothing tells the client that it is over.
OpenOK(i) ==
    i \in subs =>
        /\ NoAsk(toServer, i) /\ NoEnd(toClient, i) /\ Wanted(i)
        /\ Live /\ i \notin stopped => pushed[i] = got[i] + OnTheWire(toClient, Frame("data", i))
EndsOK(i) == ends[i] <= 1 /\ (i \in streams => i < nextId /\ ends[i] = 0)

IdOK(i) == FreshOK(i) /\ AskedOK(i) /\ HandlingOK(i) /\ OpenOK(i) /\ EndsOK(i)

IInv == Wires /\ NothingLeaks /\ Counts /\ \A i \in Ids : IdOK(i)

-----------------------------------------------------------------------------
(* Wires. *)

LEMMA AppendIs ==
    ASSUME NEW S, NEW s \in Seq(S), NEW e \in S, NEW t, t = Append(s, e)
    PROVE  /\ t \in Seq(S) /\ Len(t) = Len(s) + 1 /\ Len(s) \in Nat
           /\ t[Len(s) + 1] = e /\ \A k \in 1..Len(s) : t[k] = s[k]
  OBVIOUS

LEMMA TailIs ==
    ASSUME NEW S, NEW s \in Seq(S), s # <<>>, NEW t, t = Tail(s)
    PROVE  /\ t \in Seq(S) /\ Len(t) = Len(s) - 1 /\ Len(s) \in Nat /\ Len(s) >= 1
           /\ Head(s) = s[1] /\ \A k \in 1..Len(t) : t[k] = s[k + 1]
  <1>1. Len(s) \in Nat \ {0} /\ Head(s) = s[1]
    BY EmptySeq
  <1>2. t \in Seq(S) /\ Len(t) = Len(s) - 1 /\ \A k \in 1..Len(t) : t[k] = s[k + 1]
    BY HeadTailProperties
  <1> QED
    BY <1>1, <1>2

LEMMA PrefixIs ==
    ASSUME NEW S, NEW s \in Seq(S), NEW n \in 0..Len(s), NEW t, t = SubSeq(s, 1, n)
    PROVE  /\ t \in Seq(S) /\ Len(t) = n /\ n <= Len(s)
           /\ \A k \in 1..n : t[k] = s[k]
  OBVIOUS

\* What is appended, taken or cut off, for the requests on their way.
LEMMA AskAppended ==
    ASSUME NEW s \in Seq(FromClient), NEW f \in FromClient, NEW t, t = Append(s, f), NEW i
    PROVE  /\ ~Ask(f, i) /\ NoAsk(s, i) => NoAsk(t, i)
           /\ ~Ask(f, i) /\ AskOnce(s, i) => AskOnce(t, i)
           /\ SubscribeAsked(t, i) => SubscribeAsked(s, i) \/ (f.kind = "subscribe" /\ f.id = i)
           /\ NoAsk(s, i) => AskOnce(t, i)
  <1>1. /\ Len(t) = Len(s) + 1 /\ Len(s) \in Nat
        /\ t[Len(s) + 1] = f /\ \A k \in 1..Len(s) : t[k] = s[k]
    BY AppendIs
  <1>2. ASSUME NEW k \in 1..Len(t)
        PROVE  (k \in 1..Len(s) /\ t[k] = s[k]) \/ (k = Len(s) + 1 /\ t[k] = f)
    BY <1>1
  <1> QED
    BY <1>1, <1>2 DEF NoAsk, AskOnce, SubscribeAsked

LEMMA AskTaken ==
    ASSUME NEW s \in Seq(FromClient), s # <<>>, NEW t, t = Tail(s), NEW i
    PROVE  /\ NoAsk(s, i) => NoAsk(t, i) /\ ~Ask(Head(s), i)
           /\ AskOnce(s, i) => AskOnce(t, i)
           /\ SubscribeAsked(t, i) => SubscribeAsked(s, i)
           /\ AskOnce(s, i) /\ Ask(Head(s), i) => NoAsk(t, i)
           /\ Ask(Head(s), i) /\ Head(s).kind = "subscribe" => SubscribeAsked(s, i)
  <1>1. /\ Len(t) = Len(s) - 1 /\ Len(s) \in Nat /\ Len(s) >= 1
        /\ Head(s) = s[1] /\ \A k \in 1..Len(t) : t[k] = s[k + 1]
    BY TailIs
  <1>2. ASSUME NEW k \in 1..Len(t) PROVE k + 1 \in 1..Len(s) /\ k + 1 # 1 /\ t[k] = s[k + 1]
    BY <1>1
  <1>3. 1 \in 1..Len(s)
    BY <1>1
  <1>4. NoAsk(s, i) => NoAsk(t, i) /\ ~Ask(Head(s), i)
    BY <1>1, <1>2, <1>3 DEF NoAsk
  <1>5. AskOnce(s, i) => AskOnce(t, i)
    <2> SUFFICES ASSUME AskOnce(s, i), NEW k \in 1..Len(t), NEW l \in 1..Len(t),
                        Ask(t[k], i), Ask(t[l], i)
                 PROVE  k = l
      BY DEF AskOnce
    <2>1. k + 1 = l + 1
      BY <1>2 DEF AskOnce
    <2> QED
      BY <2>1
  <1>6. SubscribeAsked(t, i) => SubscribeAsked(s, i)
    BY <1>2 DEF SubscribeAsked
  <1>7. AskOnce(s, i) /\ Ask(Head(s), i) => NoAsk(t, i)
    BY <1>1, <1>2, <1>3 DEF NoAsk, AskOnce
  <1>8. Ask(Head(s), i) /\ Head(s).kind = "subscribe" => SubscribeAsked(s, i)
    BY <1>1, <1>3 DEF SubscribeAsked, Ask
  <1> QED
    BY <1>4, <1>5, <1>6, <1>7, <1>8

LEMMA AskCut ==
    ASSUME NEW s \in Seq(FromClient), NEW n \in 0..Len(s), NEW t, t = SubSeq(s, 1, n), NEW i
    PROVE  /\ NoAsk(s, i) => NoAsk(t, i)
           /\ AskOnce(s, i) => AskOnce(t, i)
           /\ SubscribeAsked(t, i) => SubscribeAsked(s, i)
  <1>1. Len(t) = n /\ \A k \in 1..Len(t) : k \in 1..Len(s) /\ t[k] = s[k]
    BY PrefixIs
  <1> QED
    BY <1>1 DEF NoAsk, AskOnce, SubscribeAsked

\* And for the answers and the streams.
LEMMA CountIs ==
    ASSUME NEW S, NEW s \in Seq(S), NEW f
    PROVE  IsFiniteSet({k \in 1..Len(s) : s[k] = f}) /\ OnTheWire(s, f) \in Nat
  <1>1. IsFiniteSet(1..Len(s))
    BY FS_Interval
  <1>2. IsFiniteSet({k \in 1..Len(s) : s[k] = f})
    BY <1>1, FS_Subset
  <1> QED
    BY <1>2, FS_CardinalityType DEF OnTheWire

LEMMA CountAppended ==
    ASSUME NEW s \in Seq(FromServer), NEW f \in FromServer, NEW g
    PROVE  OnTheWire(Append(s, f), g) = IF f = g THEN OnTheWire(s, g) + 1 ELSE OnTheWire(s, g)
  <1> DEFINE t == Append(s, f)
             A == {k \in 1..Len(s) : s[k] = g}
             B == {k \in 1..Len(t) : t[k] = g}
  <1>1. /\ Len(t) = Len(s) + 1 /\ Len(s) \in Nat
        /\ t[Len(s) + 1] = f /\ \A k \in 1..Len(s) : t[k] = s[k]
    BY AppendIs
  <1>2. IsFiniteSet(A)
    BY CountIs
  <1>3. CASE f = g
    <2>1. B = A \cup {Len(s) + 1} /\ Len(s) + 1 \notin A
      BY <1>1, <1>3
    <2> QED
      BY <1>2, <1>3, <2>1, FS_AddElement DEF OnTheWire
  <1>4. CASE f # g
    <2>1. B = A
      BY <1>1, <1>4
    <2> QED
      BY <1>4, <2>1 DEF OnTheWire
  <1> QED
    BY <1>3, <1>4

LEMMA AnswerAppended ==
    ASSUME NEW s \in Seq(FromServer), NEW f \in FromServer, NEW t, t = Append(s, f), NEW i
    PROVE  /\ f.id # i /\ Silent(s, i) => Silent(t, i)
           /\ (f.id # i \/ f.kind \notin {"error", "end"}) /\ NoEnd(s, i) => NoEnd(t, i)
  <1>1. /\ Len(t) = Len(s) + 1 /\ Len(s) \in Nat
        /\ t[Len(s) + 1] = f /\ \A k \in 1..Len(s) : t[k] = s[k]
    BY AppendIs
  <1>2. ASSUME NEW k \in 1..Len(t)
        PROVE  (k \in 1..Len(s) /\ t[k] = s[k]) \/ (k = Len(s) + 1 /\ t[k] = f)
    BY <1>1
  <1> QED
    BY <1>2 DEF Silent, NoEnd

LEMMA AnswerTaken ==
    ASSUME NEW s \in Seq(FromServer), s # <<>>, NEW t, t = Tail(s), NEW i
    PROVE  /\ Silent(s, i) => Silent(t, i) /\ Head(s).id # i
           /\ NoEnd(s, i) => NoEnd(t, i) /\ (Head(s).id = i => Head(s).kind \notin {"error", "end"})
           /\ \A g : OnTheWire(s, g) = IF Head(s) = g THEN OnTheWire(t, g) + 1 ELSE OnTheWire(t, g)
  <1>1. /\ Len(t) = Len(s) - 1 /\ Len(s) \in Nat /\ Len(s) >= 1 /\ t \in Seq(FromServer)
        /\ Head(s) = s[1] /\ \A k \in 1..Len(t) : t[k] = s[k + 1]
    BY TailIs
  <1>2. ASSUME NEW k \in 1..Len(t) PROVE k + 1 \in 1..Len(s) /\ k + 1 # 1 /\ t[k] = s[k + 1]
    BY <1>1
  <1>3. 1 \in 1..Len(s)
    BY <1>1
  <1>4. ASSUME NEW g
        PROVE  OnTheWire(s, g) = IF Head(s) = g THEN OnTheWire(t, g) + 1 ELSE OnTheWire(t, g)
    <2> DEFINE A == {k \in 1..Len(s) : s[k] = g}
               B == {k \in 1..Len(t) : t[k] = g}
               C == {k \in A : k # 1}
               shift == [k \in B |-> k + 1]
    <2>1. IsFiniteSet(B)
      <3>1. IsFiniteSet(1..Len(t)) /\ B \subseteq 1..Len(t)
        BY <1>1, FS_Interval
      <3> HIDE DEF B
      <3> QED
        BY <3>1, FS_Subset
    <2>2. shift \in Bijection(B, C)
      <3>1. \A k \in B : k + 1 \in C
        BY <1>2
      <3>2. \A l \in C : l - 1 \in B /\ (l - 1) + 1 = l
        <4> SUFFICES ASSUME NEW l \in C PROVE l - 1 \in B /\ (l - 1) + 1 = l
          OBVIOUS
        <4>1. l \in 2..Len(s) /\ s[l] = g
          BY <1>1
        <4>2. l - 1 \in 1..Len(t) /\ (l - 1) + 1 = l
          BY <1>1, <4>1
        <4> QED
          BY <1>2, <4>1, <4>2
      <3>3. \A k, l \in B : k + 1 = l + 1 => k = l
        OBVIOUS
      <3> QED
        BY <3>1, <3>2, <3>3, Zenon DEF Bijection, Injection, Surjection, IsInjective
    <2>3. Cardinality(C) = Cardinality(B) /\ IsFiniteSet(C)
      <3> HIDE DEF A, B, C, shift
      <3> QED
        BY <2>1, <2>2, FS_Bijection DEF ExistsBijection
    <2>4. CASE Head(s) = g
      <3>1. A = C \cup {1} /\ 1 \notin C
        BY <1>1, <1>3, <2>4
      <3>2. Cardinality(A) = Cardinality(C) + 1
        <4> HIDE DEF A, C
        <4> QED
          BY <2>3, <3>1, FS_AddElement
      <3> QED
        BY <2>3, <2>4, <3>2 DEF OnTheWire
    <2>5. CASE Head(s) # g
      <3>1. A = C
        BY <1>1, <2>5
      <3> QED
        BY <2>3, <2>5, <3>1 DEF OnTheWire
    <2> QED
      BY <2>4, <2>5
  <1>5. Silent(s, i) => Silent(t, i) /\ Head(s).id # i
    BY <1>1, <1>2, <1>3 DEF Silent
  <1>6. NoEnd(s, i) => NoEnd(t, i) /\ (Head(s).id = i => Head(s).kind \notin {"error", "end"})
    BY <1>1, <1>2, <1>3 DEF NoEnd
  <1> QED
    BY <1>4, <1>5, <1>6

LEMMA AnswerCut ==
    ASSUME NEW s \in Seq(FromServer), NEW n \in 0..Len(s), NEW t, t = SubSeq(s, 1, n), NEW i
    PROVE  Silent(s, i) => Silent(t, i)
  <1>1. Len(t) = n /\ \A k \in 1..Len(t) : k \in 1..Len(s) /\ t[k] = s[k]
    BY PrefixIs
  <1> QED
    BY <1>1 DEF Silent

\* Nothing is on its way to an id nobody has been told about.
LEMMA SilentIs ==
    ASSUME NEW s \in Seq(FromServer), NEW i, Silent(s, i)
    PROVE  NoEnd(s, i) /\ \A kind : OnTheWire(s, Frame(kind, i)) = 0
  <1>1. ASSUME NEW kind PROVE {k \in 1..Len(s) : s[k] = Frame(kind, i)} = {}
    BY DEF Silent, Frame
  <1> QED
    BY <1>1, FS_EmptySet DEF Silent, NoEnd, OnTheWire

-----------------------------------------------------------------------------
(* The turns of the client. *)

LEMMA CountsStep ==
    ASSUME Counts, [Next]_vars
    PROVE  Counts'
  <1> USE DEF Counts, clientVars, serverVars
  <1>1. CASE Request \/ Subscribe \/ Close \/ \E i \in Ids : Subscribed(i) \/ Unsubscribe(i)
    BY <1>1 DEF Request, Subscribe, Close, Subscribed, Unsubscribe
  <1>2. CASE OnFrame
    <2>1. PICK j : j = Head(toClient).id
      OBVIOUS
    <2>2. /\ UNCHANGED <<nextId, pushed, server>>
          /\ got' \in {got, [got EXCEPT ![j] = @ + 1]}
          /\ ends' \in {ends, [ends EXCEPT ![j] = @ + 1]}
      BY <1>2, <2>1 DEF OnFrame
    <2> QED
      BY <2>2
  <1>3. CASE OnEnd \/ ClientDestroys
    <2>1. /\ UNCHANGED <<nextId, got, pushed, server>>
          /\ ends' = [i \in Ids |-> IF i \in streams THEN ends[i] + 1 ELSE ends[i]]
      BY <1>3 DEF OnEnd, ClientDestroys, ClientCloses
    <2> QED
      BY <2>1
  <1>4. CASE OnRequest \/ OnSubscribe \/ OnUnsubscribe
    BY <1>4 DEF OnRequest, OnSubscribe, OnUnsubscribe, Receive
  <1>5. CASE OnFin \/ ServerDestroys
    BY <1>5 DEF OnFin, ServerDestroys, ServerCloses
  <1>6. CASE \E i \in Ids : Respond(i) \/ Push(i) \/ EndSource(i)
    <2>1. PICK i \in Ids : Respond(i) \/ Push(i) \/ EndSource(i)
      BY <1>6
    <2>2. /\ UNCHANGED <<clientVars, server>>
          /\ pushed' \in {pushed, [pushed EXCEPT ![i] = @ + 1]}
      BY <2>1 DEF Respond, Push, EndSource
    <2> QED
      BY <2>2
  <1>7. CASE UNCHANGED vars
    BY <1>7 DEF vars
  <1> QED
    BY <1>1, <1>2, <1>3, <1>4, <1>5, <1>6, <1>7 DEF Next, Delivery

\* A request with a new id is asked for once; nothing has been said about it.
LEMMA CallKeepsIds ==
    ASSUME IInv, NEW i \in Ids, NEW kind \in {"request", "subscribe"},
           nextId \in Ids, SendRequest(Frame(kind, nextId)), nextId' = nextId + 1,
           streams' = IF kind = "subscribe" THEN Registered(nextId) ELSE streams,
           UNCHANGED <<toClient, client, stoppable, stopped, got, ends, serverVars>>
    PROVE  IdOK(i)'
  <1> USE DEF serverVars
  <1>1. /\ Wires /\ Counts /\ IdOK(i) /\ i \in Nat /\ nextId \in Nat
    BY DEF IInv, Ids, Counts
  <1>2. Frame(kind, nextId) \in FromClient /\ (Ask(Frame(kind, nextId), i) <=> i = nextId)
    BY <1>1 DEF Frame, FromClient, Ask
  <1>3. toServer' \in {toServer, Append(toServer, Frame(kind, nextId))}
    BY DEF SendRequest, Send
  <1>4. Untouched(i)' <=> Untouched(i)
    BY DEF Untouched, Silent
  <1>5. FreshOK(i)'
    <2> SUFFICES ASSUME i >= nextId + 1 PROVE NoAsk(toServer, i)' /\ Untouched(i)' /\ ends'[i] = 0
      BY DEF FreshOK
    <2>1. i # nextId /\ NoAsk(toServer, i) /\ Untouched(i) /\ ends[i] = 0
      BY <1>1 DEF IdOK, FreshOK
    <2> QED
      BY <1>1, <1>2, <1>3, <1>4, <2>1, AskAppended DEF Wires
  <1>6. AskedOK(i)'
    <2>1. CASE i = nextId
      <3>1. NoAsk(toServer, i) /\ Untouched(i)
        BY <1>1, <2>1 DEF IdOK, FreshOK
      <3>2. AskOnce(toServer, i) /\ ~SubscribeAsked(toServer, i)
        BY <3>1 DEF NoAsk, AskOnce, SubscribeAsked, Ask
      <3>3. AskOnce(toServer, i)'
        BY <1>1, <1>2, <1>3, <3>1, <3>2, AskAppended DEF Wires
      <3>4. SubscribeAsked(toServer, i)' => Wanted(i)'
        <4> SUFFICES ASSUME SubscribeAsked(toServer, i)' PROVE Wanted(i)'
          OBVIOUS
        <4>1. toServer' # toServer
          BY <3>2
        <4>2. client = "open" /\ toServer' = Append(toServer, Frame(kind, nextId))
          BY <4>1 DEF SendRequest, Send
        <4>3. kind = "subscribe"
          <5>1. PICK f \in FromClient : f = Frame(kind, nextId) /\ f.kind = kind
            BY <1>2 DEF Frame
          <5> QED
            BY <1>1, <3>2, <4>2, <5>1, AskAppended DEF Wires
        <4> QED
          BY <2>1, <4>2, <4>3 DEF Wanted, Registered
      <3> QED
        BY <1>4, <3>1, <3>3, <3>4 DEF AskedOK
    <2>2. CASE i # nextId
      <3>1. NoAsk(toServer, i)' \/ Untouched(i)'
        BY <1>1, <1>2, <1>3, <1>4, <2>2, AskAppended DEF Wires, IdOK, AskedOK
      <3>2. AskOnce(toServer, i)'
        BY <1>1, <1>2, <1>3, <2>2, AskAppended DEF Wires, IdOK, AskedOK
      <3>3. SubscribeAsked(toServer, i)' => SubscribeAsked(toServer, i)
        BY <1>1, <1>2, <1>3, <2>2, AskAppended DEF Wires, Frame
      <3>4. Wanted(i) => Wanted(i)'
        BY DEF Wanted, Live, Registered
      <3> QED
        BY <1>1, <3>1, <3>2, <3>3, <3>4 DEF IdOK, AskedOK
    <2> QED
      BY <2>1, <2>2
  <1>7. HandlingOK(i)' /\ OpenOK(i)'
    <2>1. i \in handling \cup subs => NoAsk(toServer, i)'
      <3> SUFFICES ASSUME i \in handling \cup subs PROVE NoAsk(toServer, i)'
        OBVIOUS
      <3>1. i # nextId /\ NoAsk(toServer, i)
        BY <1>1 DEF IdOK, FreshOK, Untouched, HandlingOK, OpenOK
      <3> QED
        BY <1>1, <1>2, <1>3, <3>1, AskAppended DEF Wires
    <2>2. Wanted(i) => Wanted(i)'
      BY DEF Wanted, Live, Registered
    <2> QED
      BY <1>1, <2>1, <2>2 DEF IdOK, HandlingOK, OpenOK, Live
  <1>8. EndsOK(i)'
    BY <1>1 DEF IdOK, EndsOK, FreshOK, Registered
  <1> QED
    BY <1>5, <1>6, <1>7, <1>8 DEF IdOK

LEMMA OtherCallsKeepIds ==
    ASSUME IInv, NEW i \in Ids,
           Close \/ \E j \in Ids : Subscribed(j) \/ Unsubscribe(j)
    PROVE  IdOK(i)'
  <1> USE DEF serverVars
  <1>1. Wires /\ IdOK(i)
    BY DEF IInv
  <1>2. /\ UNCHANGED <<toClient, nextId, got, ends, serverVars>>
        /\ streams' \subseteq streams /\ (Live' => Live)
        /\ Live' => streams \subseteq streams' \cup stopped' /\ stopped \subseteq stopped'
    BY DEF Close, Subscribed, Unsubscribe, Live
  <1>3. toServer' = toServer
        \/ \E f \in FromClient : toServer' = Append(toServer, f) /\ ~Ask(f, i)
    <2>1. \A j \in Ids : Frame("unsubscribe", j) \in FromClient /\ ~Ask(Frame("unsubscribe", j), i)
      BY DEF Ids, Frame, FromClient, Ask
    <2>2. Fin \in FromClient /\ ~Ask(Fin, i)
      BY DEF Fin, Frame, FromClient, Ask
    <2> QED
      BY <2>1, <2>2 DEF Close, Subscribed, Unsubscribe, Send
  <1>4. /\ NoAsk(toServer, i) => NoAsk(toServer, i)'
        /\ AskOnce(toServer, i) => AskOnce(toServer, i)'
        /\ SubscribeAsked(toServer, i)' => SubscribeAsked(toServer, i)
    <2>1. CASE toServer' = toServer
      BY <2>1
    <2>2. ASSUME NEW f \in FromClient, toServer' = Append(toServer, f), ~Ask(f, i)
          PROVE  /\ NoAsk(toServer, i) => NoAsk(toServer, i)'
                 /\ AskOnce(toServer, i) => AskOnce(toServer, i)'
                 /\ SubscribeAsked(toServer, i)' => SubscribeAsked(toServer, i)
      BY <1>1, <2>2, AskAppended DEF Wires, Ask
    <2> QED
      BY <1>3, <2>1, <2>2
  <1>5. (Untouched(i)' <=> Untouched(i)) /\ (Wanted(i) => Wanted(i)')
    BY <1>2 DEF Untouched, Silent, Wanted
  <1>6. FreshOK(i)' /\ AskedOK(i)' /\ HandlingOK(i)' /\ EndsOK(i)'
    BY <1>1, <1>2, <1>4, <1>5 DEF IdOK, FreshOK, AskedOK, HandlingOK, EndsOK
  <1>7. OpenOK(i)'
    BY <1>1, <1>2, <1>4, <1>5 DEF IdOK, OpenOK
  <1> QED
    BY <1>6, <1>7 DEF IdOK

\* A frame reaches its handler, or an id that has none any more.
LEMMA FrameKeepsIds ==
    ASSUME IInv, NEW i \in Ids, OnFrame
    PROVE  IdOK(i)'
  <1> USE DEF serverVars
  <1>1. Wires /\ Counts /\ IdOK(i) /\ i \in Nat
    BY DEF IInv, Ids
  <1>2. PICK f : f = Head(toClient)
    OBVIOUS
  <1>3. /\ toClient # <<>> /\ toClient' = Tail(toClient)
        /\ UNCHANGED <<toServer, nextId, stopped, handling, subs, pushed>>
        /\ Live' <=> Live
    BY DEF OnFrame, Live
  <1>4. /\ got'[i] = IF f.kind = "data" /\ f.id = i /\ i \in streams THEN got[i] + 1 ELSE got[i]
        /\ ends'[i] = IF f.kind = "end" /\ f.id = i /\ i \in streams THEN ends[i] + 1 ELSE ends[i]
        /\ streams' = IF f.kind \in {"error", "end"} THEN streams \ {f.id} ELSE streams
    BY <1>1, <1>2 DEF OnFrame, Counts
  <1>5. /\ Silent(toClient, i) => Silent(toClient, i)' /\ f.id # i
        /\ NoEnd(toClient, i) => NoEnd(toClient, i)' /\ (f.id = i => f.kind \notin {"error", "end"})
        /\ \A g : OnTheWire(toClient, g)
                    = IF f = g THEN OnTheWire(toClient', g) + 1 ELSE OnTheWire(toClient', g)
    <2>1. PICK s \in Seq(FromServer) : s = toClient
      BY <1>1 DEF Wires
    <2>2. PICK t : t = Tail(s)
      OBVIOUS
    <2>3. s # <<>> /\ f = Head(s) /\ t = toClient'
      BY <1>2, <1>3, <2>1, <2>2
    <2>4. /\ Silent(s, i) => Silent(t, i) /\ Head(s).id # i
          /\ NoEnd(s, i) => NoEnd(t, i) /\ (Head(s).id = i => Head(s).kind \notin {"error", "end"})
          /\ \A g : OnTheWire(s, g)
                      = IF Head(s) = g THEN OnTheWire(t, g) + 1 ELSE OnTheWire(t, g)
      BY <2>2, <2>3, AnswerTaken
    <2> QED
      BY <2>1, <2>3, <2>4
  <1>6. Untouched(i) => Untouched(i)'
    BY <1>3, <1>4, <1>5 DEF Untouched
  <1>7. i \in subs \/ Untouched(i) => (Wanted(i) => Wanted(i)')
    BY <1>1, <1>3, <1>4, <1>5 DEF IdOK, OpenOK, Untouched, Wanted
  <1>8. NoAsk(toServer, i) => ~SubscribeAsked(toServer, i)
    BY DEF NoAsk, SubscribeAsked, Ask
  <1>9. FreshOK(i)'
    BY <1>1, <1>3, <1>4, <1>5, <1>6 DEF IdOK, FreshOK, Untouched
  <1>10. AskedOK(i)' /\ HandlingOK(i)'
    BY <1>1, <1>3, <1>6, <1>7, <1>8 DEF IdOK, AskedOK, HandlingOK
  <1>11. OpenOK(i)'
    <2> SUFFICES ASSUME i \in subs PROVE OpenOK(i)'
      BY <1>3 DEF OpenOK
    <2>1. NoAsk(toServer, i)' /\ NoEnd(toClient, i)' /\ Wanted(i)'
      BY <1>1, <1>3, <1>5, <1>7 DEF IdOK, OpenOK
    <2>2. ASSUME Live, i \notin stopped
          PROVE  pushed[i] = got'[i] + OnTheWire(toClient', Frame("data", i))
      <3>1. i \in streams /\ pushed[i] = got[i] + OnTheWire(toClient, Frame("data", i))
        BY <1>1, <2>2 DEF IdOK, OpenOK, Wanted
      <3>2. got[i] \in Nat /\ OnTheWire(toClient', Frame("data", i)) \in Nat
        <4>1. toClient' \in Seq(FromServer)
          BY <1>1, <1>3 DEF Wires
        <4> QED
          BY <1>1, <4>1, CountIs DEF Counts
      <3>3. f = Frame("data", i) <=> f.kind = "data" /\ f.id = i
        <4>1. f \in FromServer
          BY <1>1, <1>2, <1>3 DEF Wires
        <4> QED
          BY <4>1 DEF FromServer, Frame
      <3> QED
        BY <1>4, <1>5, <3>1, <3>2, <3>3
    <2> QED
      BY <1>3, <2>1, <2>2 DEF OpenOK
  <1>12. EndsOK(i)'
    BY <1>1, <1>3, <1>4 DEF IdOK, EndsOK, Counts
  <1> QED
    BY <1>9, <1>10, <1>11, <1>12 DEF IdOK

\* Once the client is closed, nothing is wanted any more.
LEMMA ClosingKeepsIds ==
    ASSUME IInv, NEW i \in Ids, OnEnd \/ ClientDestroys
    PROVE  IdOK(i)'
  <1> USE DEF serverVars
  <1>1. Wires /\ Counts /\ IdOK(i) /\ i \in Nat
    BY DEF IInv, Ids
  <1>2. /\ UNCHANGED <<nextId, stopped, got, handling, subs, pushed>>
        /\ streams' = {} /\ ~Live' /\ toClient' = <<>>
        /\ ends'[i] = IF i \in streams THEN ends[i] + 1 ELSE ends[i]
    BY DEF OnEnd, ClientDestroys, ClientCloses, Live
  <1>3. /\ NoAsk(toServer, i) => NoAsk(toServer, i)'
        /\ AskOnce(toServer, i) => AskOnce(toServer, i)'
    <2>1. Fin \in FromClient /\ ~Ask(Fin, i)
      BY DEF Fin, Frame, FromClient, Ask
    <2>2. CASE toServer' = toServer
      BY <2>2
    <2>3. CASE toServer' = Append(toServer, Fin)
      BY <1>1, <2>1, <2>3, AskAppended DEF Wires
    <2>4. ASSUME NEW n \in 0..Len(toServer), toServer' = Append(SubSeq(toServer, 1, n), Fin)
          PROVE  /\ NoAsk(toServer, i) => NoAsk(toServer, i)'
                 /\ AskOnce(toServer, i) => AskOnce(toServer, i)'
      <3>1. PICK t \in Seq(FromClient) : t = SubSeq(toServer, 1, n)
        BY <1>1, PrefixIs DEF Wires
      <3>2. (NoAsk(toServer, i) => NoAsk(t, i)) /\ (AskOnce(toServer, i) => AskOnce(t, i))
        BY <1>1, <3>1, AskCut DEF Wires
      <3>3. toServer' = Append(t, Fin)
        BY <2>4, <3>1
      <3> QED
        BY <2>1, <3>2, <3>3, AskAppended
    <2> QED
      BY <2>2, <2>3, <2>4 DEF OnEnd, ClientDestroys
  <1>4. Silent(toClient', i) /\ NoEnd(toClient', i)
    BY <1>2 DEF Silent, NoEnd
  <1>5. Wanted(i)' /\ (Untouched(i) => Untouched(i)')
    BY <1>2, <1>4 DEF Wanted, Untouched
  <1>6. FreshOK(i)' /\ EndsOK(i)'
    <2>1. EndsOK(i)'
      BY <1>1, <1>2 DEF IdOK, EndsOK, Counts
    <2>2. i >= nextId => i \notin streams
      BY <1>1 DEF IdOK, EndsOK, Counts
    <2> QED
      BY <1>1, <1>2, <1>3, <1>5, <2>1, <2>2 DEF IdOK, FreshOK
  <1>7. AskedOK(i)' /\ HandlingOK(i)' /\ OpenOK(i)'
    BY <1>1, <1>2, <1>3, <1>4, <1>5 DEF IdOK, AskedOK, HandlingOK, OpenOK
  <1> QED
    BY <1>6, <1>7 DEF IdOK

-----------------------------------------------------------------------------
(* The turns of the server. *)

LEMMA WrittenIs ==
    ASSUME NEW s \in Seq(FromServer), NEW f \in FromServer, NEW g \in FromServer
    PROVE  /\ s \o <<>> = s /\ s \o <<f>> = Append(s, f)
           /\ s \o <<f, g>> = Append(Append(s, f), g)
  OBVIOUS

\* A frame for another id changes nothing for this one.
LEMMA WriteFrame ==
    ASSUME Wires, NEW id \in Nat, NEW kind \in {"ok", "error", "oversized", "data", "end"},
           Write(<<Frame(kind, id)>>), NEW i
    PROVE  /\ id # i /\ Silent(toClient, i) => Silent(toClient, i)'
           /\ (id # i \/ kind \notin {"error", "end"}) /\ NoEnd(toClient, i) => NoEnd(toClient, i)'
           /\ id # i \/ kind # "data" =>
                 OnTheWire(toClient', Frame("data", i)) = OnTheWire(toClient, Frame("data", i))
           /\ server = "open" /\ id = i /\ kind = "data" =>
                 OnTheWire(toClient', Frame("data", i)) = OnTheWire(toClient, Frame("data", i)) + 1
  <1>1. CASE server = "open"
    <2>1. PICK f \in FromServer : f = Frame(kind, id) /\ f.kind = kind /\ f.id = id
      BY Frames DEF Frame
    <2>2. toClient' = Append(toClient, f)
      BY <1>1, <2>1, WrittenIs DEF Write, Wires
    <2>3. f = Frame("data", i) <=> kind = "data" /\ id = i
      BY <2>1 DEF Frame
    <2>4. PICK s \in Seq(FromServer), t \in Seq(FromServer) : s = toClient /\ t = Append(s, f)
      <3>1. toClient \in Seq(FromServer) /\ Append(toClient, f) \in Seq(FromServer)
        BY AppendIs DEF Wires
      <3> QED
        BY <3>1
    <2>5. f.id # i /\ Silent(s, i) => Silent(t, i)
      BY <2>4, AnswerAppended
    <2>6. (f.id # i \/ f.kind \notin {"error", "end"}) /\ NoEnd(s, i) => NoEnd(t, i)
      BY <2>4, AnswerAppended
    <2>7. \A g : OnTheWire(t, g) = IF f = g THEN OnTheWire(s, g) + 1 ELSE OnTheWire(s, g)
      BY <2>4, CountAppended
    <2>8. s = toClient /\ t = toClient'
      BY <2>2, <2>4
    <2> QED
      BY <1>1, <2>1, <2>3, <2>5, <2>6, <2>7, <2>8
  <1>2. CASE server # "open"
    BY <1>2 DEF Write
  <1> QED
    BY <1>1, <1>2

\* What the server has read is not on its way any more.
LEMMA ReceivedIs ==
    ASSUME Wires, NEW kind, Receive(kind), NEW id, id = Head(toServer).id, NEW i
    PROVE  /\ id \in Nat
           /\ NoAsk(toServer, i) => NoAsk(toServer, i)'
           /\ AskOnce(toServer, i) => AskOnce(toServer, i)'
           /\ SubscribeAsked(toServer, i)' => SubscribeAsked(toServer, i)
           /\ kind \in {"request", "subscribe"} /\ id = i =>
                 /\ ~NoAsk(toServer, i)
                 /\ AskOnce(toServer, i) => NoAsk(toServer, i)'
           /\ kind = "subscribe" /\ id = i => SubscribeAsked(toServer, i)
  <1>1. PICK s \in Seq(FromClient) : s = toServer
    BY DEF Wires
  <1>0. PICK t : t = Tail(s)
    OBVIOUS
  <1>2. s # <<>> /\ Head(s).kind = kind /\ Head(s).id = id /\ t = toServer'
    BY <1>0, <1>1 DEF Receive
  <1>3. Head(s) \in FromClient
    BY <1>2
  <1>4. id \in Nat
    BY <1>2, <1>3 DEF FromClient
  <1>5. Ask(Head(s), i) <=> kind \in {"request", "subscribe"} /\ id = i
    BY <1>2 DEF Ask
  <1>6. /\ NoAsk(s, i) => NoAsk(t, i) /\ ~Ask(Head(s), i)
        /\ AskOnce(s, i) => AskOnce(t, i)
        /\ SubscribeAsked(t, i) => SubscribeAsked(s, i)
        /\ AskOnce(s, i) /\ Ask(Head(s), i) => NoAsk(t, i)
        /\ Ask(Head(s), i) /\ Head(s).kind = "subscribe" => SubscribeAsked(s, i)
    BY <1>0, <1>2, AskTaken
  <1> QED
    BY <1>1, <1>2, <1>4, <1>5, <1>6

LEMMA RequestKeepsIds ==
    ASSUME IInv, NEW i \in Ids, OnRequest \/ OnUnsubscribe
    PROVE  IdOK(i)'
  <1> USE DEF clientVars
  <1>1. Wires /\ Counts /\ IdOK(i)
    BY DEF IInv
  <1>2. PICK id : id = Head(toServer).id
    OBVIOUS
  <1>3. PICK kind \in {"request", "unsubscribe"} :
           /\ Receive(kind) /\ UNCHANGED <<clientVars, toClient, pushed>>
           /\ handling' = IF kind = "request" THEN handling \cup {id} ELSE handling
           /\ subs' = IF kind = "request" THEN subs ELSE subs \ {id}
    BY <1>2 DEF OnRequest, OnUnsubscribe, Receive
  <1>4. /\ NoAsk(toServer, i) => NoAsk(toServer, i)'
        /\ AskOnce(toServer, i) => AskOnce(toServer, i)'
        /\ SubscribeAsked(toServer, i)' => SubscribeAsked(toServer, i)
        /\ kind = "request" /\ id = i =>
              ~NoAsk(toServer, i) /\ (AskOnce(toServer, i) => NoAsk(toServer, i)')
    BY <1>1, <1>2, <1>3, ReceivedIs
  <1>5. NoAsk(toServer, i)' => ~SubscribeAsked(toServer, i)'
    BY DEF NoAsk, SubscribeAsked, Ask
  <1>6. CASE kind = "request" /\ id = i
    <2>1. /\ Untouched(i) /\ NoAsk(toServer, i)' /\ AskOnce(toServer, i)'
          /\ i \notin subs' /\ ~(i >= nextId)
      BY <1>1, <1>3, <1>4, <1>6 DEF IdOK, AskedOK, FreshOK, Untouched
    <2> QED
      BY <1>1, <1>3, <1>5, <2>1 DEF IdOK, FreshOK, AskedOK, HandlingOK, OpenOK, EndsOK
  <1>7. CASE ~(kind = "request" /\ id = i)
    <2>1. (i \in handling' <=> i \in handling) /\ (i \in subs' => i \in subs)
      BY <1>3, <1>7
    <2>2. (Untouched(i) => Untouched(i)') /\ (Wanted(i)' <=> Wanted(i))
      BY <1>3, <2>1 DEF Untouched, Silent, Wanted, Live
    <2>3. FreshOK(i)' /\ AskedOK(i)' /\ HandlingOK(i)' /\ EndsOK(i)'
      BY <1>1, <1>3, <1>4, <2>1, <2>2 DEF IdOK, FreshOK, AskedOK, HandlingOK, EndsOK
    <2>4. OpenOK(i)'
      BY <1>1, <1>3, <1>4, <2>1, <2>2 DEF IdOK, OpenOK, Live
    <2> QED
      BY <2>3, <2>4 DEF IdOK
  <1> QED
    BY <1>6, <1>7

\* A source starts with nothing pushed, and nothing said of its id.
LEMMA SubscribeKeepsIds ==
    ASSUME IInv, NEW i \in Ids, OnSubscribe
    PROVE  IdOK(i)'
  <1> USE DEF clientVars
  <1>1. Wires /\ Counts /\ IdOK(i) /\ i \in Nat
    BY DEF IInv, Ids
  <1>2. PICK id : id = Head(toServer).id
    OBVIOUS
  <1>3. Receive("subscribe") /\ UNCHANGED <<clientVars, server, handling, pushed>>
    BY DEF OnSubscribe, Receive
  <1>4. /\ id \in Nat
        /\ NoAsk(toServer, i) => NoAsk(toServer, i)'
        /\ AskOnce(toServer, i) => AskOnce(toServer, i)'
        /\ SubscribeAsked(toServer, i)' => SubscribeAsked(toServer, i)
        /\ id = i => /\ ~NoAsk(toServer, i) /\ SubscribeAsked(toServer, i)
                     /\ AskOnce(toServer, i) => NoAsk(toServer, i)'
    BY <1>1, <1>2, <1>3, ReceivedIs
  <1>5. \/ Write(<<Frame("error", id)>>) /\ UNCHANGED subs
        \/ Write(<<Frame("ok", id)>>) /\ subs' = subs \cup {id}
        \/ Write(<<Frame("ok", id), Frame("end", id)>>) /\ UNCHANGED subs
    BY <1>2 DEF OnSubscribe
  <1>6. NoAsk(toServer, i)' => ~SubscribeAsked(toServer, i)'
    BY DEF NoAsk, SubscribeAsked, Ask
  <1>7. Wanted(i)' <=> Wanted(i)
    BY <1>3 DEF Wanted, Live
  <1>8. CASE id = i
    <2>1. /\ Untouched(i) /\ NoAsk(toServer, i)' /\ AskOnce(toServer, i)'
          /\ Wanted(i) /\ i \notin handling /\ ~(i >= nextId)
      BY <1>1, <1>4, <1>8 DEF IdOK, AskedOK, FreshOK, Untouched
    <2>2. FreshOK(i)' /\ AskedOK(i)' /\ HandlingOK(i)' /\ EndsOK(i)'
      BY <1>1, <1>3, <1>6, <2>1 DEF IdOK, FreshOK, AskedOK, HandlingOK, EndsOK
    <2>3. CASE i \in subs'
      <3>1. Write(<<Frame("ok", id)>>)
        BY <1>5, <2>1, <2>3 DEF Untouched
      <3>2. NoEnd(toClient, i) /\ OnTheWire(toClient, Frame("data", i)) = 0
        BY <1>1, <2>1, SilentIs DEF Untouched, Wires
      <3>3. NoEnd(toClient, i)' /\ OnTheWire(toClient', Frame("data", i)) = 0
        BY <1>1, <1>4, <3>1, <3>2, WriteFrame
      <3> QED
        BY <1>3, <1>7, <2>1, <2>2, <3>3 DEF IdOK, OpenOK, Untouched
    <2>4. CASE i \notin subs'
      BY <2>2, <2>4 DEF IdOK, OpenOK
    <2> QED
      BY <2>3, <2>4
  <1>9. CASE id # i
    <2>1. i \in subs' <=> i \in subs
      BY <1>5, <1>9
    <2>2. /\ Silent(toClient, i) => Silent(toClient, i)'
          /\ NoEnd(toClient, i) => NoEnd(toClient, i)'
          /\ OnTheWire(toClient', Frame("data", i)) = OnTheWire(toClient, Frame("data", i))
      <3>1. ASSUME NEW kind \in {"error", "ok"}, Write(<<Frame(kind, id)>>)
            PROVE  /\ Silent(toClient, i) => Silent(toClient, i)'
                   /\ NoEnd(toClient, i) => NoEnd(toClient, i)'
                   /\ OnTheWire(toClient', Frame("data", i)) = OnTheWire(toClient, Frame("data", i))
        BY <1>1, <1>4, <1>9, <3>1, WriteFrame
      <3>2. ASSUME Write(<<Frame("ok", id), Frame("end", id)>>), server = "open"
            PROVE  /\ Silent(toClient, i) => Silent(toClient, i)'
                   /\ NoEnd(toClient, i) => NoEnd(toClient, i)'
                   /\ OnTheWire(toClient', Frame("data", i)) = OnTheWire(toClient, Frame("data", i))
        <4>1. PICK f \in FromServer, g \in FromServer :
                 /\ f = Frame("ok", id) /\ f.id = id /\ f # Frame("data", i)
                 /\ g = Frame("end", id) /\ g.id = id /\ g # Frame("data", i)
          BY <1>4, Frames DEF Frame
        <4>2. PICK s \in Seq(FromServer) : s = toClient
          BY <1>1 DEF Wires
        <4>0. Append(s, f) \in Seq(FromServer)
          BY AppendIs
        <4>3. PICK t \in Seq(FromServer) : t = Append(s, f)
          BY <4>0
        <4>4. toClient' = Append(t, g)
          BY <3>2, <4>1, <4>2, <4>3, WrittenIs DEF Write
        <4>5. (Silent(s, i) => Silent(t, i)) /\ (NoEnd(s, i) => NoEnd(t, i))
          BY <1>9, <4>1, <4>3, AnswerAppended
        <4>6. (Silent(t, i) => Silent(toClient', i)) /\ (NoEnd(t, i) => NoEnd(toClient', i))
          BY <1>9, <4>1, <4>4, AnswerAppended
        <4>7. /\ OnTheWire(Append(s, f), Frame("data", i)) = OnTheWire(s, Frame("data", i))
              /\ OnTheWire(Append(t, g), Frame("data", i)) = OnTheWire(t, Frame("data", i))
          BY <4>1, CountAppended
        <4> QED
          BY <4>2, <4>3, <4>4, <4>5, <4>6, <4>7
      <3>3. CASE server # "open"
        BY <1>5, <3>3 DEF Write
      <3> QED
        BY <1>5, <3>1, <3>2, <3>3
    <2>3. Untouched(i) => Untouched(i)'
      BY <1>3, <2>1, <2>2 DEF Untouched
    <2>4. FreshOK(i)' /\ AskedOK(i)' /\ HandlingOK(i)' /\ EndsOK(i)'
      BY <1>1, <1>3, <1>4, <1>7, <2>1, <2>3 DEF IdOK, FreshOK, AskedOK, HandlingOK, EndsOK
    <2>5. OpenOK(i)'
      BY <1>1, <1>3, <1>4, <1>7, <2>1, <2>2 DEF IdOK, OpenOK, Live
    <2> QED
      BY <2>4, <2>5 DEF IdOK
  <1> QED
    BY <1>8, <1>9

\* Answers, and what the sources push: a source that runs has its subscription.
LEMMA SourcesKeepIds ==
    ASSUME IInv, NEW i \in Ids, NEW id \in Ids, Respond(id) \/ Push(id) \/ EndSource(id)
    PROVE  IdOK(i)'
  <1> USE DEF clientVars
  <1>1. Wires /\ NothingLeaks /\ Counts /\ IdOK(i) /\ id \in Nat
    BY DEF IInv, Ids
  <1>2. /\ UNCHANGED <<toServer, clientVars, server>>
        /\ Wanted(i)' <=> Wanted(i)
    BY DEF Respond, Push, EndSource, Wanted, Live
  <1>3. CASE Respond(id)
    <2>1. PICK kind \in {"ok", "error", "oversized"} :
             /\ Write(<<Frame(kind, id)>>) /\ id \in handling /\ handling' = handling \ {id}
             /\ UNCHANGED <<subs, pushed>>
      BY <1>3 DEF Respond
    <2>2. /\ id # i /\ Silent(toClient, i) => Silent(toClient, i)'
          /\ id # i /\ NoEnd(toClient, i) => NoEnd(toClient, i)'
          /\ OnTheWire(toClient', Frame("data", i)) = OnTheWire(toClient, Frame("data", i))
      BY <1>1, <2>1, WriteFrame
    <2>3. CASE id = i
      <3>1. NoAsk(toServer, i) /\ i \notin subs /\ ~(i >= nextId)
        BY <1>1, <2>1, <2>3 DEF IdOK, HandlingOK, FreshOK, Untouched
      <3>2. ~SubscribeAsked(toServer, i)
        BY <3>1 DEF NoAsk, SubscribeAsked, Ask
      <3> QED
        BY <1>1, <1>2, <2>1, <2>3, <3>1, <3>2
           DEF IdOK, FreshOK, AskedOK, HandlingOK, OpenOK, EndsOK
    <2>4. CASE id # i
      <3>1. Untouched(i) => Untouched(i)'
        BY <1>2, <2>1, <2>2, <2>4 DEF Untouched
      <3>2. FreshOK(i)' /\ AskedOK(i)' /\ HandlingOK(i)' /\ EndsOK(i)'
        BY <1>1, <1>2, <2>1, <2>4, <3>1 DEF IdOK, FreshOK, AskedOK, HandlingOK, EndsOK
      <3>3. OpenOK(i)'
        BY <1>1, <1>2, <2>1, <2>2, <2>4 DEF IdOK, OpenOK, Live
      <3> QED
        BY <3>2, <3>3 DEF IdOK
    <2> QED
      BY <2>3, <2>4
  <1>4. CASE Push(id) \/ EndSource(id)
    <2>1. id \in subs /\ server = "open" /\ handling' = handling
      BY <1>1, <1>4 DEF NothingLeaks, Counts, Push, EndSource
    <2>2. PICK kind \in {"data", "end"} :
             /\ Write(<<Frame(kind, id)>>)
             /\ subs' = IF kind = "end" THEN subs \ {id} ELSE subs
             /\ pushed' = IF kind = "data" THEN [pushed EXCEPT ![id] = @ + 1] ELSE pushed
      BY <1>4, <2>1 DEF Push, EndSource
    <2>3. /\ id # i /\ Silent(toClient, i) => Silent(toClient, i)'
          /\ (id # i \/ kind = "data") /\ NoEnd(toClient, i) => NoEnd(toClient, i)'
          /\ id # i \/ kind # "data" =>
                OnTheWire(toClient', Frame("data", i)) = OnTheWire(toClient, Frame("data", i))
          /\ id = i /\ kind = "data" =>
                OnTheWire(toClient', Frame("data", i)) = OnTheWire(toClient, Frame("data", i)) + 1
      BY <1>1, <2>1, <2>2, WriteFrame
    <2>4. CASE id = i
      <3>1. NoAsk(toServer, i) /\ i \notin handling /\ ~(i >= nextId)
        BY <1>1, <2>1, <2>4 DEF IdOK, OpenOK, HandlingOK, FreshOK, Untouched
      <3>2. ~SubscribeAsked(toServer, i)
        BY <3>1 DEF NoAsk, SubscribeAsked, Ask
      <3>3. FreshOK(i)' /\ AskedOK(i)' /\ HandlingOK(i)' /\ EndsOK(i)'
        BY <1>1, <1>2, <2>1, <3>1, <3>2 DEF IdOK, FreshOK, AskedOK, HandlingOK, EndsOK
      <3>4. OpenOK(i)'
        <4> SUFFICES ASSUME i \in subs' PROVE OpenOK(i)'
          BY DEF OpenOK
        <4>1. kind = "data" /\ pushed'[i] = pushed[i] + 1
          BY <1>1, <2>2, <2>4 DEF Counts
        <4>2. NoEnd(toClient, i)'
          BY <1>1, <2>1, <2>3, <2>4, <4>1 DEF IdOK, OpenOK
        <4>3. got[i] \in Nat /\ OnTheWire(toClient, Frame("data", i)) \in Nat
          BY <1>1, CountIs DEF Counts, Wires
        <4>4. Live /\ i \notin stopped =>
                 pushed'[i] = got[i] + OnTheWire(toClient', Frame("data", i))
          BY <1>1, <2>1, <2>3, <2>4, <4>1, <4>3 DEF IdOK, OpenOK
        <4> QED
          BY <1>1, <1>2, <2>1, <2>4, <3>1, <4>2, <4>4 DEF IdOK, OpenOK, Live
      <3> QED
        BY <3>3, <3>4 DEF IdOK
    <2>5. CASE id # i
      <3>1. (i \in subs' <=> i \in subs) /\ pushed'[i] = pushed[i]
        BY <1>1, <2>2, <2>5 DEF Counts
      <3>2. Untouched(i) => Untouched(i)'
        BY <1>2, <2>1, <2>3, <2>5, <3>1 DEF Untouched
      <3>3. FreshOK(i)' /\ AskedOK(i)' /\ HandlingOK(i)' /\ EndsOK(i)'
        BY <1>1, <1>2, <2>1, <3>1, <3>2 DEF IdOK, FreshOK, AskedOK, HandlingOK, EndsOK
      <3>4. OpenOK(i)'
        BY <1>1, <1>2, <2>3, <2>5, <3>1 DEF IdOK, OpenOK, Live
      <3> QED
        BY <3>3, <3>4 DEF IdOK
    <2> QED
      BY <2>4, <2>5
  <1> QED
    BY <1>3, <1>4

\* The server's end: nothing is asked of it and nothing subscribed any more.
LEMMA ServerEndKeepsIds ==
    ASSUME IInv, NEW i \in Ids, OnFin \/ ServerDestroys
    PROVE  IdOK(i)'
  <1> USE DEF clientVars
  <1>1. Wires /\ Counts /\ IdOK(i) /\ i \in Nat /\ i # 0
    BY DEF IInv, Ids
  <1>2. /\ UNCHANGED <<clientVars, handling, pushed>>
        /\ subs' = {} /\ toServer' = <<>>
    BY DEF OnFin, ServerDestroys, ServerCloses
  <1>3. Silent(toClient, i) => Silent(toClient, i)'
    <2>1. Fin \in FromServer /\ Fin.id # i
      BY <1>1, Frames DEF Fin, Frame
    <2>2. CASE OnFin
      BY <1>1, <2>1, <2>2, AnswerAppended DEF OnFin, Wires
    <2>3. CASE ServerDestroys
      <3>1. PICK n \in 0..Len(toClient) : toClient' = Append(SubSeq(toClient, 1, n), Fin)
        BY <2>3 DEF ServerDestroys
      <3>2. PICK t \in Seq(FromServer) : t = SubSeq(toClient, 1, n)
        BY <1>1, PrefixIs DEF Wires
      <3>3. Silent(toClient, i) => Silent(t, i)
        BY <1>1, <3>2, AnswerCut DEF Wires
      <3>4. toClient' = Append(t, Fin)
        BY <3>1, <3>2
      <3>5. Silent(t, i) => Silent(toClient', i)
        BY <2>1, <3>4, AnswerAppended
      <3> QED
        BY <3>3, <3>5
    <2> QED
      BY <2>2, <2>3
  <1>4. NoAsk(toServer, i)' /\ AskOnce(toServer, i)' /\ ~SubscribeAsked(toServer, i)'
    BY <1>2 DEF NoAsk, AskOnce, SubscribeAsked
  <1>5. Untouched(i) => Untouched(i)'
    BY <1>2, <1>3 DEF Untouched
  <1> QED
    BY <1>1, <1>2, <1>4, <1>5 DEF IdOK, FreshOK, AskedOK, HandlingOK, OpenOK, EndsOK

-----------------------------------------------------------------------------

LEMMA StreamsStart == Init => IInv
  <1> SUFFICES ASSUME Init PROVE IInv
    OBVIOUS
  <1>1. Wires /\ NothingLeaks /\ Counts
    BY DEF Init, Wires, NothingLeaks, Counts, Frame, FromServer
  <1>2. ASSUME NEW i \in Ids PROVE IdOK(i)
    <2>1. i # 0
      BY DEF Ids
    <2>2. Silent(toClient, i)
      BY <2>1 DEF Init, Silent, Frame
    <2>3. NoAsk(toServer, i) /\ AskOnce(toServer, i) /\ ~SubscribeAsked(toServer, i)
      BY DEF Init, NoAsk, AskOnce, SubscribeAsked
    <2> QED
      BY <2>2, <2>3
         DEF Init, IdOK, FreshOK, AskedOK, HandlingOK, OpenOK, EndsOK, Untouched
  <1> QED
    BY <1>1, <1>2 DEF IInv

LEMMA StreamsStep == IInv /\ [Next]_vars => IInv'
  <1> SUFFICES ASSUME IInv, [Next]_vars PROVE IInv'
    OBVIOUS
  <1>1. Wires /\ NothingLeaks /\ Counts /\ \A i \in Ids : IdOK(i)
    BY DEF IInv
  <1>2. Counts'
    BY <1>1, CountsStep
  <1>3. CASE UNCHANGED vars
    <2>1. Wires' /\ NothingLeaks'
      BY <1>1, <1>3 DEF vars, clientVars, serverVars, Wires, NothingLeaks
    <2>2. ASSUME NEW i \in Ids PROVE IdOK(i)'
      <3>1. IdOK(i)
        BY <1>1
      <3> QED
        BY <1>3, <3>1 DEF vars, clientVars, serverVars, IdOK, FreshOK, AskedOK, HandlingOK,
           OpenOK, EndsOK, NoAsk, AskOnce, SubscribeAsked, Untouched, Wanted, Live, Silent, NoEnd
    <2> QED
      BY <1>2, <2>1, <2>2 DEF IInv
  <1>4. CASE Next
    <2>1. Wires' /\ NothingLeaks'
      BY <1>1, <1>4, CallsAreFrames, ClientKeepsFrames, ServerSendsFrames,
         CallsLeakNothing, ClientLeaksNothing, ServerLeaksNothing DEF Next, Delivery
    <2>2. ASSUME NEW i \in Ids PROVE IdOK(i)'
      <3>1. CASE Request \/ Subscribe
        <4>1. CASE Request
          BY <3>1, <4>1, CallKeepsIds DEF Request
        <4>2. CASE Subscribe
          BY <3>1, <4>2, CallKeepsIds DEF Subscribe
        <4> QED
          BY <3>1, <4>1, <4>2
      <3>2. CASE Close \/ \E j \in Ids : Subscribed(j) \/ Unsubscribe(j)
        BY <3>2, OtherCallsKeepIds
      <3>3. CASE OnFrame
        BY <3>3, FrameKeepsIds
      <3>4. CASE OnEnd \/ ClientDestroys
        BY <3>4, ClosingKeepsIds
      <3>5. CASE OnRequest \/ OnUnsubscribe
        BY <3>5, RequestKeepsIds
      <3>6. CASE OnSubscribe
        BY <3>6, SubscribeKeepsIds
      <3>7. CASE \E j \in Ids : Respond(j) \/ Push(j) \/ EndSource(j)
        BY <3>7, SourcesKeepIds
      <3>8. CASE OnFin \/ ServerDestroys
        BY <3>8, ServerEndKeepsIds
      <3> QED
        BY <1>4, <3>1, <3>2, <3>3, <3>4, <3>5, <3>6, <3>7, <3>8 DEF Next, Delivery
    <2> QED
      BY <1>2, <2>1, <2>2 DEF IInv
  <1> QED
    BY <1>3, <1>4

\* As long as the handlers of a stream are wanted, everything its source has
\* pushed (openSubscription of src/ipc/server.ts) was given to them or is on its
\* way (route of src/ipc/client.ts), and no stream is ended twice: an id names one
\* request, its answer precedes its data, and its end comes last.
THEOREM StreamsLoseNothing == Spec => []StreamsAreWhole
  <1>1. IInv => StreamsAreWhole
    <2> SUFFICES ASSUME IInv, NEW i \in Ids
                 PROVE  /\ ends[i] <= 1
                        /\ i \in subs /\ i \notin stopped /\ client \in {"open", "connecting"} =>
                              pushed[i] = got[i] + OnTheWire(toClient, Frame("data", i))
      BY DEF StreamsAreWhole
    <2>1. IdOK(i)
      BY DEF IInv
    <2> QED
      BY <2>1 DEF IdOK, EndsOK, OpenOK, Live
  <1> QED
    BY <1>1, StreamsStart, StreamsStep, PTL DEF Spec

-----------------------------------------------------------------------------
(* The decoder.  First induction, stated for a set instead of an operator.  *)

\* The least number outside the set would have its predecessor inside.
LEMMA NatSetInduction ==
    ASSUME NEW T, 0 \in T, \A n \in Nat : n \in T => n + 1 \in T
    PROVE  Nat \subseteq T
<1> DEFINE R == {ss \in Nat \X Nat : ss[1] < ss[2]}
<1>1. SUFFICES ASSUME Nat \ T # {} PROVE FALSE
  OBVIOUS
<1>2. IsWellFoundedOn(R, Nat)
  BY NatLessThanWellFounded, Zenon DEF OpToRel
<1>3. \A x \in Nat, y \in Nat : y < x => <<y, x>> \in R
  OBVIOUS
<1> HIDE DEF R
<1>4. PICK x \in Nat \ T : \A y \in Nat \ T : <<y, x>> \notin R
  BY <1>1, <1>2, WFMin
<1>5. x - 1 \in Nat /\ x - 1 \notin T
  <2>1. x # 0 /\ x \in Nat
    BY <1>4
  <2>2. x - 1 \in T => (x - 1) + 1 \in T
    BY <2>1
  <2> QED
    BY <1>4, <2>1, <2>2
<1>6. <<x - 1, x>> \in R
  BY <1>3, <1>4, <1>5
<1> QED
  BY <1>4, <1>5, <1>6

\* A finite set of numbers has a greatest.
LEMMA MaxIsMax ==
    ASSUME NEW n \in Nat, NEW S \in SUBSET (1..n), S # {}
    PROVE  Max(S) \in S /\ \A y \in S : Max(S) >= y
<1> DEFINE T == {k \in Nat : \A U \in SUBSET (1..k) : U # {} => \E x \in U : \A y \in U : x >= y}
<1>1. 0 \in T
  <2>1. 1..0 = {}
    OBVIOUS
  <2> QED
    BY <2>1
<1>2. ASSUME NEW k \in Nat, k \in T PROVE k + 1 \in T
  <2>1. ASSUME NEW U \in SUBSET (1..(k + 1)), U # {} PROVE \E x \in U : \A y \in U : x >= y
    <3>1. CASE k + 1 \in U
      BY <3>1
    <3>2. CASE k + 1 \notin U
      <4>1. U \in SUBSET (1..k)
        BY <3>2
      <4> QED
        BY <2>1, <4>1, <1>2
    <3> QED
      BY <3>1, <3>2
  <2> QED
    BY <2>1
<1>3. n \in T
  BY <1>1, <1>2, NatSetInduction
<1> QED
  BY <1>3 DEF Max

LEMMA Interval ==
    ASSUME NEW k \in Nat \ {0}
    PROVE  1..k # {} /\ Max(1..k) = k /\ (1..k) \ {k} = 1..(k - 1)
<1>1. k \in Nat /\ k \in 1..k
  OBVIOUS
<1>2. Max(1..k) \in 1..k /\ Max(1..k) >= k
  BY <1>1, MaxIsMax
<1> QED
  BY <1>1, <1>2

SplitFrom(base, p) == FoldLeft(SplitAt, base, p)

\* A fold from the left, step by step.
LEMMA SplitIs ==
    ASSUME NEW base, NEW p, NEW n \in Nat, DOMAIN p = 1..n
    PROVE  \E g : /\ g[0] = base /\ g[n] = SplitFrom(base, p)
                  /\ \A k \in 1..n : g[k] = SplitAt(g[k - 1], p[k])
<1> DEFINE Rec(f, k) == f = [s \in SUBSET (1..k) |-> IF s = {} THEN base ELSE SplitAt(f[s \ {Max(s)}], p[Max(s)])]
           T == {k \in Nat : \E f : Rec(f, k)}
           iter == CHOOSE f : Rec(f, n)
<1>1. 0 \in T
  <2> DEFINE f == [s \in SUBSET (1..0) |-> base]
  <2>1. Rec(f, 0)
    OBVIOUS
  <2> QED
    BY <2>1
<1>2. ASSUME NEW k \in Nat, k \in T PROVE k + 1 \in T
  <2>1. PICK f : Rec(f, k)
    BY <1>2
  <2> DEFINE g == [s \in SUBSET (1..(k + 1)) |->
                     IF s = {} THEN base ELSE SplitAt(f[s \ {Max(s)}], p[Max(s)])]
  <2>2. ASSUME NEW s \in SUBSET (1..(k + 1)), s # {}
        PROVE  s \ {Max(s)} \in SUBSET (1..k)
    <3>1. Max(s) \in s /\ \A y \in s : Max(s) >= y
      <4>1. k + 1 \in Nat
        OBVIOUS
      <4> HIDE DEF T, iter, g
      <4> QED
        BY <2>2, <4>1, MaxIsMax
    <3>2. ASSUME NEW x \in s \ {Max(s)} PROVE x \in 1..k
      <4>1. x <= Max(s) /\ x # Max(s) /\ Max(s) \in 1..(k + 1) /\ x \in 1..(k + 1)
        BY <3>1, <3>2
      <4> QED
        BY <4>1
    <3> QED
      BY <3>2
  <2>3. ASSUME NEW s \in SUBSET (1..k) PROVE g[s] = f[s]
    <3>1. s \in SUBSET (1..(k + 1))
      OBVIOUS
    <3>2. f[s] = IF s = {} THEN base ELSE SplitAt(f[s \ {Max(s)}], p[Max(s)])
      <4>1. f = [t \in SUBSET (1..k) |-> IF t = {} THEN base ELSE SplitAt(f[t \ {Max(t)}], p[Max(t)])]
        BY <2>1
      <4> QED
        BY <4>1, Zenon
    <3> QED
      BY <3>1, <3>2, Zenon
  <2>4. \A s \in SUBSET (1..(k + 1)) : s # {} => f[s \ {Max(s)}] = g[s \ {Max(s)}]
    BY <2>2, <2>3, Zenon
  <2>5. Rec(g, k + 1)
    <3> DEFINE h == g
    <3>1. g = [s \in SUBSET (1..(k + 1)) |->
                 IF s = {} THEN base ELSE SplitAt(h[s \ {Max(s)}], p[Max(s)])]
      BY <2>4, Zenon
    <3> QED
      BY <3>1, Zenon
  <2> HIDE DEF g, Rec
  <2> QED
    BY <2>5
<1>3. \E f : Rec(f, n)
  BY <1>1, <1>2, NatSetInduction
<1>4. Rec(iter, n)
  BY <1>3
<1>5. SplitFrom(base, p) = iter[1..n]
  BY DEF SplitFrom, FoldLeft, MapThenFoldSet
<1> HIDE DEF iter, T
<1> DEFINE g == [k \in 0..n |-> iter[1..k]]
<1>6. iter[1..0] = base
  <2>1. 1..0 = {} /\ {} \in SUBSET (1..n)
    OBVIOUS
  <2>2. iter[{}] = base
    BY <1>4, <2>1, Zenon
  <2> QED
    BY <2>1, <2>2, Zenon
<1>7. ASSUME NEW k \in 1..n PROVE iter[1..k] = SplitAt(iter[1..(k - 1)], p[k])
  <2>1. 1..k \in SUBSET (1..n) /\ 1..k # {} /\ Max(1..k) = k /\ (1..k) \ {k} = 1..(k - 1)
    <3>1. k \in Nat \ {0} /\ 1..k \in SUBSET (1..n)
      OBVIOUS
    <3> QED
      BY <3>1, Interval
  <2>2. iter[1..k] = SplitAt(iter[(1..k) \ {Max(1..k)}], p[Max(1..k)])
    BY <1>4, <2>1, Zenon
  <2> QED
    BY <2>1, <2>2, Zenon
<1>8. g[0] = base /\ g[n] = SplitFrom(base, p)
  BY <1>5, <1>6
<1>9. \A k \in 1..n : g[k] = SplitAt(g[k - 1], p[k])
  BY <1>7
<1> HIDE DEF g
<1> QED
  BY <1>8, <1>9


LEMMA SeqSetInduction ==
    ASSUME NEW S, NEW T, <<>> \in T,
           \A s \in Seq(S), x \in S : s \in T => Append(s, x) \in T
    PROVE  Seq(S) \subseteq T
<1> DEFINE N == {n \in Nat : \A s \in Seq(S) : Len(s) = n => s \in T}
<1>1. 0 \in N
  OBVIOUS
<1>2. ASSUME NEW n \in Nat, n \in N PROVE n + 1 \in N
  <2>1. SUFFICES ASSUME NEW s \in Seq(S), Len(s) = n + 1 PROVE s \in T
    OBVIOUS
  <2> DEFINE front == SubSeq(s, 1, n)
  <2>2. front \in Seq(S) /\ Len(front) = n /\ s[n + 1] \in S
    BY <2>1
  <2>3. s = Append(front, s[n + 1])
    BY <2>1
  <2>4. front \in T
    BY <1>2, <2>2
  <2> HIDE DEF front
  <2> QED
    BY <2>2, <2>3, <2>4
<1>3. \A s \in Seq(S) : Len(s) \in N
  <2>1. Nat \subseteq N
    BY <1>1, <1>2, NatSetInduction
  <2> QED
    BY <2>1
<1> QED
  BY <1>3

LEMMA SplitEmpty ==
    ASSUME NEW base
    PROVE  SplitFrom(base, <<>>) = base
<1>1. PICK p, n : p = <<>> /\ n = 0 /\ n \in Nat /\ DOMAIN p = 1..n
  OBVIOUS
<1>2. SUFFICES ASSUME SplitFrom(base, p) # base PROVE FALSE
  BY <1>1
<1>3. PICK g : g[0] = base /\ g[n] = SplitFrom(base, p)
  BY <1>1, <1>2, SplitIs
<1> QED
  BY <1>1, <1>2, <1>3

LEMMA SplitOfSeq ==
    ASSUME NEW S, NEW p \in Seq(S), NEW base
    PROVE  \E g : /\ g[0] = base /\ g[Len(p)] = SplitFrom(base, p)
                  /\ \A k \in 1..Len(p) : g[k] = SplitAt(g[k - 1], p[k])
<1>1. Len(p) \in Nat /\ DOMAIN p = 1..Len(p)
  OBVIOUS
<1> QED
  BY <1>1, SplitIs

LEMMA SplitSnoc ==
    ASSUME NEW S, NEW base, NEW p \in Seq(S), NEW x \in S
    PROVE  SplitFrom(base, Append(p, x)) = SplitAt(SplitFrom(base, p), x)
<1>1. PICK q \in Seq(S) : q = Append(p, x)
  <2>1. Append(p, x) \in Seq(S)
    OBVIOUS
  <2> QED
    BY <2>1, Zenon
<1>2. PICK f : /\ f[0] = base /\ f[Len(p)] = SplitFrom(base, p)
               /\ \A k \in 1..Len(p) : f[k] = SplitAt(f[k - 1], p[k])
  BY SplitOfSeq
<1>3. PICK h : /\ h[0] = base /\ h[Len(q)] = SplitFrom(base, q)
               /\ \A k \in 1..Len(q) : h[k] = SplitAt(h[k - 1], q[k])
  BY SplitOfSeq
<1>4. PICK n \in Nat : /\ Len(p) = n /\ Len(q) = n + 1 /\ q[n + 1] = x
                       /\ \A k \in 1..n : q[k] = p[k]
  BY <1>1
<1> DEFINE T == {k \in Nat : k <= n => f[k] = h[k]}
<1>7. 0 \in T
  BY <1>2, <1>3
<1>8. ASSUME NEW k \in Nat, k \in T PROVE k + 1 \in T
  <2>1. SUFFICES ASSUME k + 1 <= n PROVE f[k + 1] = h[k + 1]
    OBVIOUS
  <2>2. k + 1 \in 1..n /\ k + 1 \in 1..(n + 1) /\ (k + 1) - 1 = k /\ f[k] = h[k]
    BY <1>8, <2>1
  <2>3. f[k + 1] = SplitAt(f[k], p[k + 1]) /\ h[k + 1] = SplitAt(h[k], q[k + 1])
    BY <1>2, <1>3, <1>4, <2>2
  <2> QED
    BY <1>4, <2>2, <2>3
<1>9. f[n] = h[n]
  <2>1. Nat \subseteq T
    BY <1>7, <1>8, NatSetInduction
  <2> QED
    BY <2>1
<1>10. h[n + 1] = SplitAt(h[n], q[n + 1])
  <2>1. n + 1 \in 1..(n + 1) /\ (n + 1) - 1 = n
    OBVIOUS
  <2> QED
    BY <1>3, <1>4, <2>1
<1> QED
  BY <1>1, <1>2, <1>3, <1>4, <1>9, <1>10

-----------------------------------------------------------------------------
Text == Bytes \ {"newline"}
States == [lines : Seq(Seq(Text)), rest : Seq(Text)]
From(rest) == [lines |-> <<>>, rest |-> rest]

LEMMA SplitAtIs ==
    ASSUME NEW st \in States, NEW x \in Bytes
    PROVE  /\ SplitAt(st, x) \in States
           /\ x = "newline" => /\ SplitAt(st, x).lines = Append(st.lines, st.rest)
                               /\ SplitAt(st, x).rest = <<>>
           /\ x # "newline" => /\ SplitAt(st, x).lines = st.lines
                               /\ SplitAt(st, x).rest = Append(st.rest, x)
<1>1. st.lines \in Seq(Seq(Text)) /\ st.rest \in Seq(Text)
  BY DEF States
<1>2. CASE x = "newline"
  <2>1. SplitAt(st, x) = [lines |-> Append(st.lines, st.rest), rest |-> <<>>]
    BY <1>2 DEF SplitAt
  <2>2. Append(st.lines, st.rest) \in Seq(Seq(Text)) /\ <<>> \in Seq(Text)
    BY <1>1
  <2>3. SplitAt(st, x).lines = Append(st.lines, st.rest) /\ SplitAt(st, x).rest = <<>>
    BY <2>1
  <2>4. SplitAt(st, x) \in States
    BY <2>1, <2>2 DEF States
  <2> QED
    BY <1>2, <2>3, <2>4
<1>3. CASE x # "newline"
  <2>1. SplitAt(st, x) = [lines |-> st.lines, rest |-> Append(st.rest, x)]
    BY <1>3 DEF SplitAt
  <2>2. Append(st.rest, x) \in Seq(Text)
    BY <1>1, <1>3 DEF Text
  <2>3. SplitAt(st, x).lines = st.lines /\ SplitAt(st, x).rest = Append(st.rest, x)
    BY <2>1
  <2>4. SplitAt(st, x) \in States
    BY <1>1, <2>1, <2>2 DEF States
  <2> QED
    BY <1>3, <2>3, <2>4
<1> QED
  BY <1>2, <1>3

LEMMA SplitTyped ==
    ASSUME NEW base \in States, NEW p \in Seq(Bytes)
    PROVE  SplitFrom(base, p) \in States
<1> DEFINE T == {q \in Seq(Bytes) : SplitFrom(base, q) \in States}
<1>1. <<>> \in T
  BY SplitEmpty
<1>2. ASSUME NEW q \in Seq(Bytes), NEW x \in Bytes, q \in T PROVE Append(q, x) \in T
  <2>1. SplitFrom(base, Append(q, x)) = SplitAt(SplitFrom(base, q), x)
    BY SplitSnoc
  <2>2. SplitAt(SplitFrom(base, q), x) \in States
    BY <1>2, SplitAtIs
  <2>3. Append(q, x) \in Seq(Bytes)
    OBVIOUS
  <2> QED
    BY <2>1, <2>2, <2>3
<1> HIDE DEF T
<1>3. p \in T
  BY <1>1, <1>2, SeqSetInduction
<1> QED
  BY <1>3 DEF T

LEMMA FromIs ==
    ASSUME NEW rest \in Seq(Text)
    PROVE  From(rest) \in States /\ From(rest).lines = <<>> /\ From(rest).rest = rest
BY DEF From, States

\* Bytes are taken one after the other.
LEMMA SplitConcat ==
    ASSUME NEW base \in States, NEW p \in Seq(Bytes), NEW c \in Seq(Bytes)
    PROVE  SplitFrom(base, p \o c) = SplitFrom(SplitFrom(base, p), c)
<1> DEFINE T == {q \in Seq(Bytes) : SplitFrom(base, p \o q) = SplitFrom(SplitFrom(base, p), q)}
<1>1. <<>> \in T
  BY SplitEmpty
<1>2. ASSUME NEW q \in Seq(Bytes), NEW x \in Bytes, q \in T PROVE Append(q, x) \in T
  <2>1. PICK w \in Seq(Bytes) : w = p \o q
    <3>1. p \o q \in Seq(Bytes)
      OBVIOUS
    <3> QED
      BY <3>1, Zenon
  <2>2. p \o Append(q, x) = Append(w, x)
    BY <2>1
  <2>3. SplitFrom(base, Append(w, x)) = SplitAt(SplitFrom(base, w), x)
    BY SplitSnoc
  <2>4. SplitFrom(SplitFrom(base, p), Append(q, x)) = SplitAt(SplitFrom(SplitFrom(base, p), q), x)
    BY SplitSnoc
  <2>5. Append(q, x) \in Seq(Bytes)
    OBVIOUS
  <2> QED
    BY <1>2, <2>1, <2>2, <2>3, <2>4, <2>5, Zenon
<1> HIDE DEF T
<1>3. c \in T
  BY <1>1, <1>2, SeqSetInduction
<1> QED
  BY <1>3 DEF T

LEMMA ConcatAppend ==
    ASSUME NEW p \in Seq(Seq(Text)), NEW q \in Seq(Seq(Text)), NEW x \in Seq(Text)
    PROVE  p \o Append(q, x) = Append(p \o q, x)
OBVIOUS

LEMMA LinesStep ==
    ASSUME NEW lines \in Seq(Seq(Text)), NEW a \in States, NEW b \in States, NEW x \in Bytes,
           a.lines = lines \o b.lines, a.rest = b.rest
    PROVE  /\ SplitAt(a, x).lines = lines \o SplitAt(b, x).lines
           /\ SplitAt(a, x).rest = SplitAt(b, x).rest
<1>1. PICK l \in Seq(Seq(Text)), e \in Seq(Text) : l = b.lines /\ e = b.rest
  BY DEF States
<1>2. lines \o Append(l, e) = Append(lines \o l, e)
  BY ConcatAppend, Zenon
<1>3. CASE x = "newline"
  <2>1. /\ SplitAt(a, x).lines = Append(a.lines, a.rest) /\ SplitAt(a, x).rest = <<>>
        /\ SplitAt(b, x).lines = Append(b.lines, b.rest) /\ SplitAt(b, x).rest = <<>>
    BY <1>3 DEF SplitAt
  <2> QED
    BY <1>1, <1>2, <2>1, Zenon
<1>4. CASE x # "newline"
  BY <1>4 DEF SplitAt
<1> QED
  BY <1>3, <1>4

\* What was split before stays in front.
LEMMA SplitLines ==
    ASSUME NEW st \in States, NEW c \in Seq(Bytes)
    PROVE  /\ SplitFrom(st, c).lines = st.lines \o SplitFrom(From(st.rest), c).lines
           /\ SplitFrom(st, c).rest = SplitFrom(From(st.rest), c).rest
<1> DEFINE A(q) == SplitFrom(st, q)
           B(q) == SplitFrom(From(st.rest), q)
           T == {q \in Seq(Bytes) : A(q).lines = st.lines \o B(q).lines /\ A(q).rest = B(q).rest}
<1>0. st.lines \in Seq(Seq(Text)) /\ st.rest \in Seq(Text)
  BY DEF States
<1>1. <<>> \in T
  <2>1. A(<<>>) = st /\ B(<<>>) = From(st.rest) /\ <<>> \in Seq(Bytes)
    BY SplitEmpty
  <2>2. st.lines \o <<>> = st.lines
    BY <1>0
  <2> HIDE DEF A, B
  <2> QED
    BY <1>0, <2>1, <2>2, FromIs
<1>2. ASSUME NEW q \in Seq(Bytes), NEW x \in Bytes, q \in T PROVE Append(q, x) \in T
  <2>1. A(Append(q, x)) = SplitAt(A(q), x) /\ B(Append(q, x)) = SplitAt(B(q), x)
    BY SplitSnoc
  <2>2. A(q) \in States /\ B(q) \in States
    BY <1>0, FromIs, SplitTyped
  <2>3. Append(q, x) \in Seq(Bytes)
    OBVIOUS
  <2>4. A(q).lines = st.lines \o B(q).lines /\ A(q).rest = B(q).rest
    BY <1>2
  <2> HIDE DEF A, B
  <2>5. /\ SplitAt(A(q), x).lines = st.lines \o SplitAt(B(q), x).lines
        /\ SplitAt(A(q), x).rest = SplitAt(B(q), x).rest
    <3>1. PICK a \in States : a = A(q)
      BY <2>2
    <3>2. PICK b \in States : b = B(q)
      BY <2>2
    <3>3. PICK l \in Seq(Seq(Text)) : l = st.lines
      BY <1>0
    <3>4. a.lines = l \o b.lines /\ a.rest = b.rest
      BY <2>4, <3>1, <3>2, <3>3, Zenon
    <3>5. SplitAt(a, x).lines = l \o SplitAt(b, x).lines /\ SplitAt(a, x).rest = SplitAt(b, x).rest
      BY <3>4, LinesStep
    <3> QED
      BY <3>1, <3>2, <3>3, <3>5, Zenon
  <2> QED
    BY <2>1, <2>3, <2>5, Zenon
<1>3. c \in T
  <2> HIDE DEF T
  <2> QED
    BY <1>1, <1>2, SeqSetInduction
<1> QED
  BY <1>3

\* Without a newline nothing is complete.
LEMMA SplitText ==
    ASSUME NEW r \in Seq(Text)
    PROVE  Split(r) = From(r)
<1> DEFINE T == {q \in Seq(Text) : SplitFrom(From(<<>>), q) = From(q)}
<1>1. <<>> \in T
  BY SplitEmpty
<1>2. ASSUME NEW q \in Seq(Text), NEW x \in Text, q \in T PROVE Append(q, x) \in T
  <2>1. SplitFrom(From(<<>>), Append(q, x)) = SplitAt(From(q), x)
    BY <1>2, SplitSnoc
  <2>2. SplitAt(From(q), x) = From(Append(q, x))
    BY DEF SplitAt, From, Text
  <2>3. Append(q, x) \in Seq(Text)
    OBVIOUS
  <2> QED
    BY <2>1, <2>2, <2>3
<1> HIDE DEF T
<1>3. r \in T
  BY <1>1, <1>2, SeqSetInduction
<1> QED
  BY <1>3, Zenon DEF T, Split, SplitFrom, From

\* A line that had begun goes on to the first newline.
GoesOn(r, t, s) ==
    \/ t.lines = <<>> /\ s.lines = <<>> /\ s.rest = r \o t.rest
    \/ /\ t.lines # <<>> /\ s.lines = <<r \o Head(t.lines)>> \o Tail(t.lines)
       /\ s.rest = t.rest

LEMMA HeadAndTail ==
    ASSUME NEW l \in Seq(Seq(Text)), l # <<>>, NEW y \in Seq(Text), NEW h \in Seq(Text)
    PROVE  /\ Append(l, y) # <<>> /\ Head(Append(l, y)) = Head(l)
           /\ Tail(Append(l, y)) = Append(Tail(l), y)
           /\ Tail(l) \in Seq(Seq(Text)) /\ Head(l) \in Seq(Text)
           /\ <<h>> \o Append(Tail(l), y) = Append(<<h>> \o Tail(l), y)
<1>1. Append(l, y) # <<>>
  OBVIOUS
<1>2. Head(Append(l, y)) = Head(l)
  OBVIOUS
<1>3. Tail(l) \in Seq(Seq(Text)) /\ Head(l) \in Seq(Text)
  OBVIOUS
<1>4. Tail(Append(l, y)) = Append(Tail(l), y)
  OBVIOUS
<1>5. <<h>> \o Append(Tail(l), y) = Append(<<h>> \o Tail(l), y)
  <2>1. PICK m \in Seq(Seq(Text)) : m = Tail(l)
    BY <1>3
  <2>2. PICK k \in Seq(Seq(Text)) : k = <<h>>
    <3>1. <<h>> \in Seq(Seq(Text))
      OBVIOUS
    <3> QED
      BY <3>1, Zenon
  <2>3. k \o Append(m, y) = Append(k \o m, y)
    BY ConcatAppend, Zenon
  <2> QED
    BY <2>1, <2>2, <2>3, Zenon
<1> QED
  BY <1>1, <1>2, <1>3, <1>4, <1>5

LEMMA GoesOnStep ==
    ASSUME NEW r \in Seq(Text), NEW t \in States, NEW s \in States, NEW x \in Bytes,
           GoesOn(r, t, s)
    PROVE  GoesOn(r, SplitAt(t, x), SplitAt(s, x))
<1>1. PICK l \in Seq(Seq(Text)) : l = t.lines
  BY DEF States
<1>2. PICK e \in Seq(Text) : e = t.rest
  BY DEF States
<1>3. CASE l = <<>> /\ s.lines = <<>> /\ s.rest = r \o e
  <2>1. CASE x = "newline"
    <3>1. /\ SplitAt(t, x).lines = Append(<<>>, e) /\ SplitAt(t, x).rest = <<>>
          /\ SplitAt(s, x).lines = Append(<<>>, r \o e) /\ SplitAt(s, x).rest = <<>>
      BY <1>1, <1>2, <1>3, <2>1 DEF SplitAt
    <3>2. Append(<<>>, e) = <<e>> /\ Append(<<>>, r \o e) = <<r \o e>>
      OBVIOUS
    <3>3. <<e>> # <<>> /\ Head(<<e>>) = e /\ Tail(<<e>>) = <<>>
      OBVIOUS
    <3>4. <<r \o e>> \o <<>> = <<r \o e>>
      OBVIOUS
    <3> QED
      BY <3>1, <3>2, <3>3, <3>4, Zenon DEF GoesOn
  <2>2. CASE x # "newline"
    <3>1. x \in Text
      BY <2>2 DEF Text
    <3>2. r \o Append(e, x) = Append(r \o e, x)
      BY <3>1
    <3>3. /\ SplitAt(t, x).lines = <<>> /\ SplitAt(t, x).rest = Append(e, x)
          /\ SplitAt(s, x).lines = <<>> /\ SplitAt(s, x).rest = Append(r \o e, x)
      BY <1>1, <1>2, <1>3, <2>2 DEF SplitAt
    <3> QED
      BY <3>2, <3>3 DEF GoesOn
  <2> QED
    BY <2>1, <2>2
<1>4. CASE l # <<>> /\ s.lines = <<r \o Head(l)>> \o Tail(l) /\ s.rest = e
  <2>1. CASE x = "newline"
    <3>1. /\ SplitAt(t, x).lines = Append(l, e) /\ SplitAt(t, x).rest = <<>>
          /\ SplitAt(s, x).lines = Append(s.lines, e) /\ SplitAt(s, x).rest = <<>>
      BY <1>1, <1>2, <1>4, <2>1 DEF SplitAt
    <3>2. Head(l) \in Seq(Text)
      BY <1>4
    <3>3. PICK h \in Seq(Text) : h = r \o Head(l)
      <4>1. PICK k \in Seq(Text) : k = Head(l)
        BY <3>2
      <4>2. r \o k \in Seq(Text)
        OBVIOUS
      <4> QED
        BY <4>1, <4>2
    <3>4. /\ Append(l, e) # <<>> /\ Head(Append(l, e)) = Head(l)
          /\ Tail(Append(l, e)) = Append(Tail(l), e)
          /\ <<h>> \o Append(Tail(l), e) = Append(<<h>> \o Tail(l), e)
      <4>1. l # <<>>
        BY <1>4
      <4> QED
        BY <4>1, HeadAndTail
    <3> QED
      BY <1>4, <3>1, <3>3, <3>4, Zenon DEF GoesOn
  <2>2. CASE x # "newline"
    <3>1. SplitAt(t, x).lines = l /\ SplitAt(s, x).lines = s.lines
      BY <1>1, <2>2 DEF SplitAt
    <3>2. SplitAt(t, x).rest = Append(e, x) /\ SplitAt(s, x).rest = Append(s.rest, x)
      BY <1>2, <2>2 DEF SplitAt
    <3> QED
      BY <1>4, <3>1, <3>2, Zenon DEF GoesOn
  <2> QED
    BY <2>1, <2>2
<1> QED
  BY <1>1, <1>2, <1>3, <1>4 DEF GoesOn

LEMMA SplitGoesOn ==
    ASSUME NEW r \in Seq(Text), NEW c \in Seq(Bytes)
    PROVE  GoesOn(r, SplitFrom(From(<<>>), c), SplitFrom(From(r), c))
<1> DEFINE A(q) == SplitFrom(From(r), q)
           B(q) == SplitFrom(From(<<>>), q)
           T == {q \in Seq(Bytes) : GoesOn(r, B(q), A(q))}
<1>0. <<>> \in Seq(Text) /\ From(<<>>) \in States /\ From(r) \in States
  <2>1. <<>> \in Seq(Text)
    OBVIOUS
  <2> QED
    BY <2>1, FromIs
<1>1. <<>> \in T
  <2>1. A(<<>>) = From(r) /\ B(<<>>) = From(<<>>) /\ <<>> \in Seq(Bytes)
    BY SplitEmpty
  <2>2. r \o <<>> = r
    OBVIOUS
  <2>3. GoesOn(r, From(<<>>), From(r))
    BY <2>2 DEF GoesOn, From
  <2> HIDE DEF A, B
  <2> QED
    BY <2>1, <2>3
<1>2. ASSUME NEW q \in Seq(Bytes), NEW x \in Bytes, q \in T PROVE Append(q, x) \in T
  <2>1. A(Append(q, x)) = SplitAt(A(q), x) /\ B(Append(q, x)) = SplitAt(B(q), x)
    BY SplitSnoc
  <2>2. A(q) \in States /\ B(q) \in States
    BY <1>0, SplitTyped
  <2>3. Append(q, x) \in Seq(Bytes)
    OBVIOUS
  <2>4. GoesOn(r, B(q), A(q))
    BY <1>2
  <2> HIDE DEF A, B
  <2>5. GoesOn(r, SplitAt(B(q), x), SplitAt(A(q), x))
    BY <2>2, <2>4, GoesOnStep
  <2> QED
    BY <2>1, <2>3, <2>5, Zenon
<1>3. c \in T
  <2> HIDE DEF T
  <2> QED
    BY <1>1, <1>2, SeqSetInduction
<1> QED
  BY <1>3

-----------------------------------------------------------------------------

LEMMA FlattenIs ==
    ASSUME NEW seqs, NEW n \in Nat \ {0}, Len(seqs) = n
    PROVE  \E g : /\ g[1] = seqs[1] /\ g[n] = FlattenSeq(seqs)
                  /\ \A i \in 2..n : g[i] = g[i - 1] \o seqs[i]
<1> DEFINE Rec(f, k) == f = [i \in 1..k |-> IF i = 1 THEN seqs[i] ELSE f[i - 1] \o seqs[i]]
           T == {k \in Nat : \E f : Rec(f, k)}
           flat == CHOOSE f : Rec(f, n)
<1>1. 0 \in T
  <2> DEFINE f == [i \in 1..0 |-> <<>>]
  <2>1. Rec(f, 0)
    OBVIOUS
  <2> QED
    BY <2>1
<1>2. ASSUME NEW k \in Nat, k \in T PROVE k + 1 \in T
  <2>1. PICK f : Rec(f, k)
    BY <1>2
  <2> DEFINE g == [i \in 1..(k + 1) |-> IF i = 1 THEN seqs[i] ELSE f[i - 1] \o seqs[i]]
  <2>2. ASSUME NEW i \in 1..k PROVE f[i] = g[i]
    <3>1. i \in 1..(k + 1)
      OBVIOUS
    <3>2. f[i] = IF i = 1 THEN seqs[i] ELSE f[i - 1] \o seqs[i]
      <4>1. f = [j \in 1..k |-> IF j = 1 THEN seqs[j] ELSE f[j - 1] \o seqs[j]]
        BY <2>1
      <4> QED
        BY <4>1, Zenon
    <3> QED
      BY <3>1, <3>2, Zenon
  <2>3. \A i \in 1..(k + 1) : i # 1 => f[i - 1] = g[i - 1]
    <3>1. ASSUME NEW i \in 1..(k + 1), i # 1 PROVE i - 1 \in 1..k
      BY <3>1
    <3> QED
      BY <2>2, <3>1
  <2>4. Rec(g, k + 1)
    <3> DEFINE h == g
    <3>1. g = [i \in 1..(k + 1) |-> IF i = 1 THEN seqs[i] ELSE h[i - 1] \o seqs[i]]
      BY <2>3, Zenon
    <3> QED
      BY <3>1, Zenon
  <2> HIDE DEF g, Rec
  <2> QED
    BY <2>4
<1>3. \E f : Rec(f, n)
  BY <1>1, <1>2, NatSetInduction
<1>4. Rec(flat, n)
  BY <1>3
<1>5. FlattenSeq(seqs) = flat[n]
  BY DEF FlattenSeq
<1> HIDE DEF flat, T
<1>6. flat[1] = seqs[1]
  BY <1>4
<1>7. ASSUME NEW i \in 2..n PROVE flat[i] = flat[i - 1] \o seqs[i]
  <2>1. i \in 1..n /\ i # 1
    OBVIOUS
  <2> QED
    BY <1>4, <2>1, Zenon
<1> QED
  BY <1>5, <1>6, <1>7

LEMMA FlattenEmpty ==
    ASSUME NEW seqs, seqs = <<>>
    PROVE  FlattenSeq(seqs) = <<>>
BY DEF FlattenSeq

LEMMA FlattenSnoc ==
    ASSUME NEW S, NEW seqs \in Seq(Seq(S)), NEW x \in Seq(S)
    PROVE  FlattenSeq(Append(seqs, x)) = FlattenSeq(seqs) \o x
<1>1. PICK more \in Seq(Seq(S)) : more = Append(seqs, x)
  <2>1. Append(seqs, x) \in Seq(Seq(S))
    OBVIOUS
  <2> QED
    BY <2>1, Zenon
<1>2. PICK n \in Nat : /\ Len(seqs) = n /\ Len(more) = n + 1 /\ more[n + 1] = x
                       /\ \A k \in 1..n : more[k] = seqs[k]
  BY <1>1
<1>3. PICK h : /\ h[1] = more[1] /\ h[n + 1] = FlattenSeq(more)
               /\ \A i \in 2..(n + 1) : h[i] = h[i - 1] \o more[i]
  <2>1. n + 1 \in Nat \ {0} /\ Len(more) = n + 1
    BY <1>2
  <2> QED
    BY <2>1, FlattenIs
<1>4. CASE n = 0
  <2>1. seqs = <<>>
    BY <1>2, <1>4
  <2>2. FlattenSeq(seqs) = <<>>
    BY <2>1, FlattenEmpty
  <2>3. FlattenSeq(more) = x /\ <<>> \o x = x
    BY <1>2, <1>3, <1>4
  <2> QED
    BY <1>1, <2>2, <2>3
<1>5. CASE n # 0
  <2>1. PICK f : /\ f[1] = seqs[1] /\ f[n] = FlattenSeq(seqs)
                 /\ \A i \in 2..n : f[i] = f[i - 1] \o seqs[i]
    <3>1. n \in Nat \ {0} /\ Len(seqs) = n
      BY <1>2, <1>5
    <3> QED
      BY <3>1, FlattenIs
  <2> DEFINE T == {k \in Nat : k + 1 <= n => f[k + 1] = h[k + 1]}
  <2>2. 0 \in T
    BY <1>2, <1>3, <2>1
  <2>3. ASSUME NEW k \in Nat, k \in T PROVE k + 1 \in T
    <3>1. SUFFICES ASSUME k + 2 <= n PROVE f[k + 2] = h[k + 2]
      OBVIOUS
    <3>2. k + 2 \in 2..n /\ k + 2 \in 2..(n + 1) /\ (k + 2) - 1 = k + 1 /\ f[k + 1] = h[k + 1]
      BY <2>3, <3>1
    <3>3. f[k + 2] = f[k + 1] \o seqs[k + 2] /\ h[k + 2] = h[k + 1] \o more[k + 2]
      BY <1>3, <2>1, <3>2
    <3>4. more[k + 2] = seqs[k + 2]
      BY <1>2, <3>2
    <3> QED
      BY <3>2, <3>3, <3>4
  <2>4. f[n] = h[n]
    <3>1. n - 1 \in Nat /\ (n - 1) + 1 = n
      BY <1>5
    <3> HIDE DEF T
    <3>2. n - 1 \in T
      BY <2>2, <2>3, <3>1, NatSetInduction
    <3> QED
      BY <3>1, <3>2 DEF T
  <2>5. h[n + 1] = h[n] \o more[n + 1]
    <3>1. n + 1 \in 2..(n + 1) /\ (n + 1) - 1 = n
      BY <1>5
    <3> QED
      BY <1>3, <3>1
  <2> QED
    BY <1>1, <1>2, <1>3, <2>1, <2>4, <2>5
<1> QED
  BY <1>4, <1>5

\* What a line can come to.
Event(line) == IF TooLong(line) THEN [is |-> "too_large"]
               ELSE IF Contains(line, "bad") THEN [is |-> "malformed"]
               ELSE [is |-> "frame", text |-> Trim(line)]

Events == {Event(line) : line \in Seq(Text)} \cup {[is |-> "too_large"], [is |-> "truncated"]}

LEMMA HeardTyped ==
    ASSUME NEW line \in Seq(Text)
    PROVE  Heard(line) \in Seq(Events)
<1>1. Heard(line) = <<>> \/ Heard(line) = <<Event(line)>>
  BY DEF Heard, Event
<1>2. PICK e \in Events : e = Event(line)
  BY DEF Events
<1>3. <<>> \in Seq(Events) /\ <<e>> \in Seq(Events)
  OBVIOUS
<1> QED
  BY <1>1, <1>2, <1>3

LEMMA AllHeardEmpty ==
    AllHeard(<<>>) = <<>>
<1>1. [i \in DOMAIN <<>> |-> Heard(<<>>[i])] = <<>>
  OBVIOUS
<1> QED
  BY <1>1, FlattenEmpty, Zenon DEF AllHeard

LEMMA AllHeardSnoc ==
    ASSUME NEW lines \in Seq(Seq(Text)), NEW x \in Seq(Text)
    PROVE  AllHeard(Append(lines, x)) = AllHeard(lines) \o Heard(x)
<1> DEFINE Outs(l) == [i \in DOMAIN l |-> Heard(l[i])]
<1>1. PICK more \in Seq(Seq(Text)) : more = Append(lines, x)
  <2>1. Append(lines, x) \in Seq(Seq(Text))
    OBVIOUS
  <2> QED
    BY <2>1, Zenon
<1>2. ASSUME NEW l \in Seq(Seq(Text)) PROVE Outs(l) \in Seq(Seq(Events))
  <2>1. \A i \in DOMAIN l : Heard(l[i]) \in Seq(Events)
    BY HeardTyped
  <2>2. DOMAIN l = 1..Len(l) /\ Len(l) \in Nat
    OBVIOUS
  <2> QED
    BY <2>1, <2>2
<1>3. PICK p \in Seq(Seq(Events)) : p = Outs(lines)
  BY <1>2, Zenon
<1>4. PICK q \in Seq(Seq(Events)) : q = Outs(more)
  BY <1>2, Zenon
<1>5. PICK e \in Seq(Events) : e = Heard(x)
  BY HeardTyped
<1>6. q = Append(p, e)
  <2>0. PICK n \in Nat : n = Len(lines)
    OBVIOUS
  <2>1. /\ Len(lines) = n /\ Len(more) = n + 1 /\ more[n + 1] = x
        /\ \A k \in 1..n : more[k] = lines[k]
    <3> HIDE DEF Outs
    <3>1. Len(more) = n + 1 /\ more[n + 1] = x
      BY <1>1, <2>0
    <3>2. ASSUME NEW k \in 1..n PROVE more[k] = lines[k]
      BY <1>1, <2>0
    <3> QED
      BY <2>0, <3>1, <3>2
  <2>2. DOMAIN lines = 1..n /\ DOMAIN more = 1..(n + 1)
    BY <2>1
  <2>3. Len(p) = n /\ \A k \in 1..n : p[k] = Heard(lines[k])
    BY <1>3, <2>2
  <2>4. Len(q) = n + 1 /\ \A k \in 1..(n + 1) : q[k] = Heard(more[k])
    BY <1>4, <2>2
  <2>5. ASSUME NEW k \in 1..n PROVE q[k] = p[k]
    <3>1. k \in 1..(n + 1)
      OBVIOUS
    <3> QED
      BY <2>1, <2>3, <2>4, <3>1, Zenon
  <2>6. q[n + 1] = e
    BY <1>5, <2>1, <2>4
  <2> HIDE DEF Outs
  <2> QED
    BY <2>3, <2>4, <2>5, <2>6
<1>7. FlattenSeq(Append(p, e)) = FlattenSeq(p) \o e
  BY FlattenSnoc
<1>8. AllHeard(lines) = FlattenSeq(p) /\ AllHeard(more) = FlattenSeq(q)
  BY <1>3, <1>4, Zenon DEF AllHeard
<1> QED
  BY <1>1, <1>5, <1>6, <1>7, <1>8, Zenon

LEMMA AllHeardTyped ==
    ASSUME NEW lines \in Seq(Seq(Text))
    PROVE  AllHeard(lines) \in Seq(Events)
<1> DEFINE T == {l \in Seq(Seq(Text)) : AllHeard(l) \in Seq(Events)}
<1>1. <<>> \in T
  <2>1. <<>> \in Seq(Events) /\ <<>> \in Seq(Seq(Text))
    OBVIOUS
  <2> QED
    BY <2>1, AllHeardEmpty, Zenon
<1>2. ASSUME NEW l \in Seq(Seq(Text)), NEW x \in Seq(Text), l \in T PROVE Append(l, x) \in T
  <2>1. AllHeard(Append(l, x)) = AllHeard(l) \o Heard(x)
    BY AllHeardSnoc
  <2>2. PICK a \in Seq(Events), b \in Seq(Events) : a = AllHeard(l) /\ b = Heard(x)
    BY <1>2, HeardTyped
  <2>3. a \o b \in Seq(Events) /\ Append(l, x) \in Seq(Seq(Text))
    OBVIOUS
  <2> QED
    BY <2>1, <2>2, <2>3, Zenon
<1>3. lines \in T
  <2> HIDE DEF T
  <2> QED
    BY <1>1, <1>2, SeqSetInduction
<1> QED
  BY <1>3

LEMMA ConcatAssociates ==
    ASSUME NEW x \in Seq(Events), NEW y \in Seq(Events), NEW z \in Seq(Events)
    PROVE  (x \o y) \o z = x \o (y \o z)
OBVIOUS

LEMMA AllHeardConcat ==
    ASSUME NEW p \in Seq(Seq(Text)), NEW r \in Seq(Seq(Text))
    PROVE  AllHeard(p \o r) = AllHeard(p) \o AllHeard(r)
<1> DEFINE T == {q \in Seq(Seq(Text)) : AllHeard(p \o q) = AllHeard(p) \o AllHeard(q)}
<1>0. PICK a \in Seq(Events) : a = AllHeard(p)
  BY AllHeardTyped
<1>1. <<>> \in T
  <2>1. p \o <<>> = p /\ a \o <<>> = a /\ <<>> \in Seq(Seq(Text))
    OBVIOUS
  <2> QED
    BY <1>0, <2>1, AllHeardEmpty, Zenon
<1>2. ASSUME NEW q \in Seq(Seq(Text)), NEW x \in Seq(Text), q \in T PROVE Append(q, x) \in T
  <2>1. PICK w \in Seq(Seq(Text)) : w = p \o q
    <3>1. p \o q \in Seq(Seq(Text))
      OBVIOUS
    <3> QED
      BY <3>1, Zenon
  <2>2. p \o Append(q, x) = Append(w, x)
    BY <2>1, ConcatAppend, Zenon
  <2>3. AllHeard(Append(w, x)) = AllHeard(w) \o Heard(x)
    BY AllHeardSnoc
  <2>4. AllHeard(Append(q, x)) = AllHeard(q) \o Heard(x)
    BY AllHeardSnoc
  <2>5. PICK b \in Seq(Events), e \in Seq(Events) : b = AllHeard(q) /\ e = Heard(x)
    BY AllHeardTyped, HeardTyped
  <2>6. (a \o b) \o e = a \o (b \o e)
    BY ConcatAssociates
  <2>7. Append(q, x) \in Seq(Seq(Text))
    OBVIOUS
  <2> QED
    BY <1>0, <1>2, <2>1, <2>2, <2>3, <2>4, <2>5, <2>6, <2>7, Zenon
<1>3. r \in T
  <2> HIDE DEF T
  <2> QED
    BY <1>1, <1>2, SeqSetInduction
<1> QED
  BY <1>3

LEMMA AllHeardOne ==
    ASSUME NEW x \in Seq(Text)
    PROVE  AllHeard(<<x>>) = Heard(x)
<1>1. <<>> \in Seq(Seq(Text)) /\ Append(<<>>, x) = <<x>>
  OBVIOUS
<1>2. PICK e \in Seq(Events) : e = Heard(x)
  BY HeardTyped
<1>3. <<>> \o e = e
  OBVIOUS
<1>4. PICK l \in Seq(Seq(Text)) : l = <<>>
  BY <1>1
<1>5. AllHeard(Append(l, x)) = AllHeard(l) \o Heard(x)
  BY AllHeardSnoc
<1> QED
  BY <1>1, <1>2, <1>3, <1>4, <1>5, AllHeardEmpty, Zenon

-----------------------------------------------------------------------------

LEMMA TextIsBytes == Seq(Text) \subseteq Seq(Bytes)
BY DEF Text

LEMMA SplitIsFold ==
    ASSUME NEW a \in Seq(Bytes)
    PROVE  Split(a) = SplitFrom(From(<<>>), a) /\ Split(a) \in States
<1>1. Split(a) = SplitFrom(From(<<>>), a)
  BY Zenon DEF Split, SplitFrom, From
<1>2. <<>> \in Seq(Text)
  OBVIOUS
<1>3. From(<<>>) \in States
  BY <1>2, FromIs
<1>4. SplitFrom(From(<<>>), a) \in States
  BY <1>3, SplitTyped
<1> QED
  BY <1>1, <1>4

\* The lines of a longer stream are those of the shorter one and those of what follows.
LEMMA SplitOn ==
    ASSUME NEW a \in Seq(Bytes), NEW c \in Seq(Bytes), NEW r \in Seq(Text), r = Split(a).rest
    PROVE  /\ Split(a \o c).lines = Split(a).lines \o SplitFrom(From(r), c).lines
           /\ Split(a \o c).rest = SplitFrom(From(r), c).rest
<1>1. PICK w \in Seq(Bytes) : w = a \o c
  <2>1. a \o c \in Seq(Bytes)
    OBVIOUS
  <2> QED
    BY <2>1, Zenon
<1>2. PICK b \in States : b = From(<<>>)
  <2>1. <<>> \in Seq(Text)
    OBVIOUS
  <2> QED
    BY <2>1, FromIs
<1>3. PICK st \in States : st = Split(a)
  BY SplitIsFold
<1>4. Split(w) = SplitFrom(b, w) /\ Split(a) = SplitFrom(b, a)
  BY <1>2, SplitIsFold
<1>5. SplitFrom(b, a \o c) = SplitFrom(SplitFrom(b, a), c)
  BY SplitConcat
<1>6. Split(a \o c) = SplitFrom(st, c)
  BY <1>1, <1>3, <1>4, <1>5, Zenon
<1>7. /\ SplitFrom(st, c).lines = st.lines \o SplitFrom(From(st.rest), c).lines
      /\ SplitFrom(st, c).rest = SplitFrom(From(st.rest), c).rest
  BY SplitLines
<1> QED
  BY <1>3, <1>6, <1>7, Zenon

\* What the decoder splits when it was in the middle of a line.
LEMMA SplitBuffer ==
    ASSUME NEW r \in Seq(Text), NEW c \in Seq(Bytes)
    PROVE  Split(r \o c) = SplitFrom(From(r), c)
<1>1. PICK p \in Seq(Bytes) : p = r
  BY TextIsBytes
<1>2. PICK w \in Seq(Bytes) : w = p \o c
  <2>1. p \o c \in Seq(Bytes)
    OBVIOUS
  <2> QED
    BY <2>1, Zenon
<1>3. PICK b \in States : b = From(<<>>)
  <2>1. <<>> \in Seq(Text)
    OBVIOUS
  <2> QED
    BY <2>1, FromIs
<1>4. Split(w) = SplitFrom(b, w) /\ Split(p) = SplitFrom(b, p)
  BY <1>3, SplitIsFold
<1>5. SplitFrom(b, p \o c) = SplitFrom(SplitFrom(b, p), c)
  BY SplitConcat
<1>6. Split(r) = From(r)
  BY SplitText
<1> QED
  BY <1>1, <1>2, <1>4, <1>5, <1>6, Zenon

LEMMA LongStaysLong ==
    ASSUME NEW r \in Seq(Text), TooLong(r), NEW e \in Seq(Text)
    PROVE  TooLong(r \o e) /\ r \o e \in Seq(Text) /\ Heard(r \o e) = <<[is |-> "too_large"]>>
<1>1. r \o e \in Seq(Text) /\ Len(r \o e) = Len(r) + Len(e) /\ Len(r) \in Nat /\ Len(e) \in Nat
  OBVIOUS
<1>2. TooLong(r \o e)
  BY <1>1, FramingAssumption DEF TooLong
<1> QED
  BY <1>1, <1>2 DEF Heard

Closing(rest, over) ==
    IF TooLong(rest) THEN <<[is |-> "too_large"]>>
    ELSE IF over /\ Trim(rest) # <<>> THEN <<[is |-> "truncated"]>> ELSE <<>>

DecoderOK ==
    /\ arrived \in Seq(Bytes) /\ incoming \in Seq(Bytes)
    /\ discarding \in BOOLEAN /\ ended \in BOOLEAN
    /\ ~ended => /\ discarding <=> TooLong(Split(arrived).rest)
                 /\ buffer = IF discarding THEN <<>> ELSE Split(arrived).rest
    /\ reported = AllHeard(Split(arrived).lines) \o Closing(Split(arrived).rest, ended)

LEMMA DecoderStarts ==
    ASSUME DecoderInit
    PROVE  DecoderOK
<1>1. PICK n \in Nat : incoming \in [1..n -> Bytes]
  BY FramingAssumption DEF DecoderInit, SeqOf
<1>2. incoming \in Seq(Bytes)
  BY <1>1
<1>3. arrived = <<>> /\ buffer = <<>> /\ discarding = FALSE /\ reported = <<>> /\ ended = FALSE
  BY DEF DecoderInit, Fresh
<1>4. <<>> \in Seq(Bytes) /\ <<>> \in Seq(Text) /\ <<>> \o <<>> = <<>>
  OBVIOUS
<1>5. Split(<<>>) = From(<<>>)
  BY <1>4, SplitText
<1>6. Split(<<>>).lines = <<>> /\ Split(<<>>).rest = <<>>
  BY <1>5 DEF From
<1>7. ~TooLong(<<>>)
  BY FramingAssumption DEF TooLong
<1>8. Closing(<<>>, FALSE) = <<>>
  BY <1>7 DEF Closing
<1> QED
  BY <1>2, <1>3, <1>4, <1>6, <1>7, <1>8, AllHeardEmpty DEF DecoderOK

\* The chunk that is pushed, as far as it matters.
LEMMA FeedKeeps ==
    ASSUME DecoderOK, Feed
    PROVE  DecoderOK'
<1>1. ~ended /\ ended' = ended
  BY DEF Feed
<1>2. PICK n \in DOMAIN incoming :
         /\ incoming' = SubSeq(incoming, n + 1, Len(incoming))
         /\ arrived' = arrived \o SubSeq(incoming, 1, n)
         /\ LET split == Split(buffer \o SubSeq(incoming, 1, n))
                lines == IF discarding /\ split.lines # <<>> THEN Tail(split.lines) ELSE split.lines
                skipping == Skipping(split.lines)
            IN /\ discarding' = (skipping \/ TooLong(split.rest))
               /\ buffer' = IF discarding' THEN <<>> ELSE split.rest
               /\ reported' = reported \o AllHeard(lines)
                    \o IF ~skipping /\ TooLong(split.rest) THEN Heard(split.rest) ELSE <<>>
  BY DEF Feed
<1>3. PICK c \in Seq(Bytes) : c = SubSeq(incoming, 1, n)
  <2>1. SubSeq(incoming, 1, n) \in Seq(Bytes)
    BY DEF DecoderOK
  <2> QED
    BY <2>1, Zenon
<1>4. incoming' \in Seq(Bytes)
  BY <1>2 DEF DecoderOK
<1>5. PICK a \in Seq(Bytes) : a = arrived
  BY DEF DecoderOK
<1>6. PICK lines \in Seq(Seq(Text)), r \in Seq(Text) : lines = Split(a).lines /\ r = Split(a).rest
  <2>1. Split(a) \in States
    BY SplitIsFold
  <2> QED
    BY <2>1 DEF States
<1>7. PICK u \in States : u = SplitFrom(From(r), c)
  <2>1. From(r) \in States
    BY FromIs
  <2> QED
    BY <2>1, SplitTyped
<1>8. PICK more \in Seq(Seq(Text)), e \in Seq(Text) : more = u.lines /\ e = u.rest
  BY DEF States
<1>9. arrived' = a \o c /\ a \o c \in Seq(Bytes)
  BY <1>2, <1>3, <1>5
<1>10. Split(arrived').lines = lines \o more /\ Split(arrived').rest = e
  <2>1. /\ Split(a \o c).lines = Split(a).lines \o SplitFrom(From(r), c).lines
        /\ Split(a \o c).rest = SplitFrom(From(r), c).rest
    BY <1>6, SplitOn
  <2> QED
    BY <1>6, <1>7, <1>8, <1>9, <2>1, Zenon
<1>11. AllHeard(lines \o more) = AllHeard(lines) \o AllHeard(more)
  BY AllHeardConcat
<1>12. PICK p \in Seq(Events), q \in Seq(Events) : p = AllHeard(lines) /\ q = AllHeard(more)
  BY AllHeardTyped
<1>13. /\ (discarding <=> TooLong(r)) /\ buffer = (IF discarding THEN <<>> ELSE r)
       /\ reported = p \o Closing(r, FALSE) /\ discarding \in BOOLEAN
  BY <1>1, <1>5, <1>6, <1>12 DEF DecoderOK
<1>14. Heard(e) = <<[is |-> "too_large"]>> \/ ~TooLong(e)
  BY DEF Heard
<1>15. SUFFICES /\ discarding' \in BOOLEAN /\ (discarding' <=> TooLong(e))
                /\ buffer' = IF discarding' THEN <<>> ELSE e
                /\ reported' = (p \o q) \o Closing(e, FALSE)
  BY <1>1, <1>4, <1>9, <1>10, <1>11, <1>12 DEF DecoderOK
<1>16. CASE ~discarding
  <2>1. Split(buffer \o c) = u
    <3>1. Split(r \o c) = SplitFrom(From(r), c)
      BY SplitBuffer
    <3> QED
      BY <1>7, <1>13, <1>16, <3>1
  <2>2. /\ discarding' = TooLong(e)
        /\ buffer' = IF discarding' THEN <<>> ELSE e
        /\ reported' = reported \o AllHeard(more) \o IF TooLong(e) THEN Heard(e) ELSE <<>>
    <3>1. Skipping(more) = FALSE /\ TooLong(e) \in BOOLEAN
      BY <1>16 DEF Skipping, TooLong
    <3>2. /\ discarding' = (Skipping(more) \/ TooLong(e))
          /\ buffer' = IF discarding' THEN <<>> ELSE e
          /\ reported' = reported \o AllHeard(more)
                           \o IF ~Skipping(more) /\ TooLong(e) THEN Heard(e) ELSE <<>>
      BY <1>2, <1>3, <1>8, <1>16, <2>1
    <3>3. discarding' = TooLong(e)
      BY <3>1, <3>2
    <3> QED
      BY <3>1, <3>2, <3>3
  <2>3. Closing(r, FALSE) = <<>> /\ p \o <<>> = p
    BY <1>13, <1>16 DEF Closing
  <2>4. Closing(e, FALSE) = IF TooLong(e) THEN Heard(e) ELSE <<>>
    BY <1>14 DEF Closing
  <2>5. TooLong(e) \in BOOLEAN
    BY DEF TooLong
  <2> QED
    BY <1>12, <1>13, <2>2, <2>3, <2>4, <2>5
<1>17. CASE discarding
  <2>1. PICK v \in States : v = SplitFrom(From(<<>>), c)
    <3>1. <<>> \in Seq(Text)
      OBVIOUS
    <3>2. From(<<>>) \in States
      BY <3>1, FromIs
    <3> QED
      BY <3>2, SplitTyped
  <2>2. PICK late \in Seq(Seq(Text)), f \in Seq(Text) : late = v.lines /\ f = v.rest
    BY DEF States
  <2>3. GoesOn(r, v, u)
    BY <1>7, <2>1, SplitGoesOn
  <2>4. buffer \o c = c
    BY <1>13, <1>17
  <2>5. Split(buffer \o c) = v
    BY <2>1, <2>4, SplitIsFold
  <2>6. /\ discarding' = (Skipping(late) \/ TooLong(f))
        /\ buffer' = IF discarding' THEN <<>> ELSE f
        /\ reported' = reported \o AllHeard(IF late # <<>> THEN Tail(late) ELSE late)
                         \o IF ~Skipping(late) /\ TooLong(f) THEN Heard(f) ELSE <<>>
    BY <1>2, <1>3, <1>17, <2>2, <2>5
  <2>7. PICK z : z = <<[is |-> "too_large"]>> /\ z \in Seq(Events)
    <3>1. PICK o \in Events : o = [is |-> "too_large"]
      BY DEF Events
    <3>2. <<o>> \in Seq(Events)
      OBVIOUS
    <3> QED
      BY <3>1, <3>2
  <2>8. TooLong(r) /\ reported = p \o z
    BY <1>13, <1>17, <2>7 DEF Closing
  <2>9. CASE late = <<>>
    <3>1. more = <<>> /\ e = r \o f
      BY <1>8, <2>2, <2>3, <2>9 DEF GoesOn
    <3>2. TooLong(e)
      BY <2>8, <3>1, LongStaysLong
    <3>3. Skipping(late) = TRUE
      BY <1>17, <2>9 DEF Skipping
    <3>4. discarding' = TRUE /\ buffer' = <<>> /\ reported' = (reported \o AllHeard(<<>>)) \o <<>>
      BY <2>6, <2>9, <3>3
    <3>5. q = <<>>
      BY <1>12, <3>1, AllHeardEmpty
    <3>6. ((p \o z) \o <<>>) \o <<>> = p \o z /\ p \o <<>> = p
      <4>1. PICK k \in Seq(Events) : k = p \o z
        <5>1. p \o z \in Seq(Events)
          BY <2>7
        <5> QED
          BY <5>1, Zenon
      <4>2. k \o <<>> = k /\ p \o <<>> = p
        OBVIOUS
      <4> QED
        BY <4>1, <4>2
    <3>7. Closing(e, FALSE) = z
      BY <2>7, <3>2 DEF Closing
    <3>8. reported' = p \o z
      BY <2>8, <3>4, <3>6, AllHeardEmpty
    <3> QED
      BY <3>2, <3>4, <3>5, <3>6, <3>7, <3>8
  <2>10. CASE late # <<>>
    <3>1. more = <<r \o Head(late)>> \o Tail(late) /\ e = f
      BY <1>8, <2>2, <2>3, <2>10 DEF GoesOn
    <3>2. PICK tail \in Seq(Seq(Text)), h \in Seq(Text) : tail = Tail(late) /\ h = Head(late)
      <4>1. Tail(late) \in Seq(Seq(Text)) /\ Head(late) \in Seq(Text)
        BY <2>10
      <4> QED
        BY <4>1, Zenon
    <3>3. PICK g \in Seq(Text) : g = r \o h /\ Heard(g) = z
      BY <2>7, <2>8, LongStaysLong
    <3>4. PICK one \in Seq(Seq(Text)) : one = <<g>>
      <4>1. <<g>> \in Seq(Seq(Text))
        OBVIOUS
      <4> QED
        BY <4>1, Zenon
    <3>5. AllHeard(one) = z
      BY <3>3, <3>4, AllHeardOne
    <3>6. AllHeard(one \o tail) = AllHeard(one) \o AllHeard(tail)
      BY AllHeardConcat
    <3>7. PICK y \in Seq(Events) : y = AllHeard(tail)
      BY AllHeardTyped
    <3>8. q = z \o y
      BY <1>12, <3>1, <3>2, <3>3, <3>4, <3>5, <3>6, <3>7, Zenon
    <3>9. Skipping(late) = FALSE
      BY <2>10 DEF Skipping
    <3>10. /\ discarding' = TooLong(e)
           /\ buffer' = IF discarding' THEN <<>> ELSE e
           /\ reported' = (reported \o y) \o IF TooLong(e) THEN Heard(e) ELSE <<>>
      <4>1. TooLong(e) \in BOOLEAN
        BY DEF TooLong
      <4>2. discarding' = TooLong(e)
        BY <2>6, <3>1, <3>9, <4>1
      <4> QED
        BY <2>6, <2>10, <3>1, <3>2, <3>7, <3>9, <4>2
    <3>11. (p \o z) \o y = p \o (z \o y)
      <4>1. PICK k \in Seq(Events) : k = z
        BY <2>7
      <4>2. (p \o k) \o y = p \o (k \o y)
        BY ConcatAssociates, Zenon
      <4> QED
        BY <4>1, <4>2, Zenon
    <3>12. Closing(e, FALSE) = IF TooLong(e) THEN Heard(e) ELSE <<>>
      BY <1>14 DEF Closing
    <3>13. TooLong(e) \in BOOLEAN
      BY DEF TooLong
    <3> QED
      BY <2>8, <3>8, <3>10, <3>11, <3>12, <3>13
  <2> QED
    BY <2>9, <2>10
<1> QED
  BY <1>13, <1>16, <1>17

LEMMA EndKeeps ==
    ASSUME DecoderOK, End
    PROVE  DecoderOK'
<1>1. ~ended /\ ended' = TRUE /\ discarding' = FALSE /\ arrived' = arrived /\ incoming' = incoming
  BY DEF End
<1>2. PICK a \in Seq(Bytes) : a = arrived
  BY DEF DecoderOK
<1>3. PICK lines \in Seq(Seq(Text)), r \in Seq(Text) : lines = Split(a).lines /\ r = Split(a).rest
  <2>1. Split(a) \in States
    BY SplitIsFold
  <2> QED
    BY <2>1 DEF States
<1>4. PICK p \in Seq(Events) : p = AllHeard(lines)
  BY AllHeardTyped
<1>5. /\ (discarding <=> TooLong(r)) /\ buffer = (IF discarding THEN <<>> ELSE r)
      /\ reported = p \o Closing(r, FALSE) /\ discarding \in BOOLEAN
  BY <1>1, <1>2, <1>3, <1>4 DEF DecoderOK
<1>6. reported' = p \o Closing(r, TRUE)
  <2>1. CASE TooLong(r)
    BY <1>5, <2>1 DEF Closing, End
  <2>2. CASE ~TooLong(r) /\ Trim(r) = <<>>
    BY <1>5, <2>2 DEF Closing, End
  <2>3. CASE ~TooLong(r) /\ Trim(r) # <<>>
    <3>1. reported' = Append(p \o <<>>, [is |-> "truncated"])
      BY <1>5, <2>3 DEF Closing, End
    <3>2. PICK o \in Events : o = [is |-> "truncated"]
      BY DEF Events
    <3>3. p \o <<>> = p /\ Append(p, o) = p \o <<o>>
      OBVIOUS
    <3>4. Closing(r, TRUE) = <<o>>
      BY <2>3, <3>2 DEF Closing
    <3> QED
      BY <3>1, <3>2, <3>3, <3>4
  <2> QED
    BY <2>1, <2>2, <2>3
<1> QED
  BY <1>1, <1>2, <1>3, <1>4, <1>6 DEF DecoderOK

\* Chunk boundaries are irrelevant: what FrameDecoder has reported is what the
\* bytes that have come say line by line, once each, wherever they were cut.
THEOREM ChunkBoundariesAreIrrelevant == DecoderSpec => []ChunksDoNotMatter
<1>1. DecoderInit => DecoderOK
  BY DecoderStarts
<1>2. DecoderOK /\ [DecoderNext]_decoder => DecoderOK'
  <2>1. ASSUME DecoderOK, Feed PROVE DecoderOK'
    BY <2>1, FeedKeeps
  <2>2. ASSUME DecoderOK, End PROVE DecoderOK'
    BY <2>2, EndKeeps
  <2>3. ASSUME DecoderOK, UNCHANGED decoder PROVE DecoderOK'
    BY <2>3 DEF DecoderOK, decoder
  <2> QED
    BY <2>1, <2>2, <2>3 DEF DecoderNext
<1>3. DecoderOK => ChunksDoNotMatter
  BY DEF DecoderOK, ChunksDoNotMatter, Closing
<1> QED
  BY <1>1, <1>2, <1>3, PTL DEF DecoderSpec

=============================================================================
