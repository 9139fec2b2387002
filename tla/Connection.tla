----------------------------- MODULE Connection -----------------------------
(***************************************************************************)
(* One connection between a client and the daemon: src/ipc/client.ts and    *)
(* the connection half of src/ipc/server.ts.                                *)
(*                                                                          *)
(* A step is one frame, call or event handled at one end.  What was written *)
(* and not read yet is in the two channels, which end in "fin" once their   *)
(* writer has closed.  A frame is one item: chunks of bytes are left out.    *)
(***************************************************************************)
EXTENDS Naturals, Sequences, FiniteSets

CONSTANTS
    MaxId,          (* bound: requests of all kinds, numbered from 1         *)
    MaxData         (* bound: entries a source pushes                        *)

ASSUME ConnectionAssumption == MaxId \in Nat /\ MaxData \in Nat

Ids == 1..MaxId

VARIABLES
    toServer, toClient,     \* the channels
    client,     \* "connecting", "open", "ending" (close() called), "closed"
    server,     \* "open", "closed"
    nextId,
    pending,    \* the requests with a waiter
    outcome,    \* what became of each: "none", "ok", "error" or, if twice, "both"
    streams,    \* the subscriptions with handlers at the client
    stoppable,  \* those whose caller has its unsubscribe function
    stopped,    \* those it was called for
    got,        \* how much data each handler was given
    ends,       \* how often its onEnd or onError was called
    skipped,    \* history: the requests whose answer the client's decoder has skipped
    handling,   \* requests in an async handler
    subs,       \* subscriptions: the map of the server
    running,    \* sources started whose stop function was not called
    pushed      \* how much data each source has pushed while it was listened to

clientVars ==
    <<client, nextId, pending, outcome, streams, stoppable, stopped, got, ends, skipped>>
serverVars == <<server, handling, subs, running, pushed>>
vars == <<toServer, toClient, clientVars, serverVars>>

Frame(kind, id) == [kind |-> kind, id |-> id]
Fin == Frame("fin", 0)

Settle(S, how) ==
    outcome' = [i \in Ids |-> IF i \notin S THEN outcome[i]
                              ELSE IF outcome[i] = "none" THEN how ELSE "both"]

-----------------------------------------------------------------------------
(* client.ts: calls.  A socket that was ended is not writable any more. *)

Send(f) == toServer' = Append(toServer, f)

\* sendRequest: a request that cannot be sent is rejected at once.
SendRequest(f) ==
    IF client = "open"
    THEN Send(f) /\ pending' = pending \cup {f.id} /\ UNCHANGED outcome
    ELSE Settle({f.id}, "error") /\ UNCHANGED <<toServer, pending>>

Request ==
    /\ client # "connecting" /\ nextId \in Ids
    /\ SendRequest(Frame("request", nextId))
    /\ nextId' = nextId + 1
    /\ UNCHANGED <<toClient, client, streams, stoppable, stopped, got, ends, skipped,
                   serverVars>>

\* Mistake: the handlers are registered when the answer has come.
RegisteredLater(id) == streams

\* The handlers are there before the request goes out.
Registered(id) == IF client = "open" THEN streams \cup {id} ELSE streams

Subscribe ==
    /\ client # "connecting" /\ nextId \in Ids
    /\ SendRequest(Frame("subscribe", nextId))
    /\ streams' = Registered(nextId)
    /\ nextId' = nextId + 1
    /\ UNCHANGED <<toClient, client, stoppable, stopped, got, ends, skipped, serverVars>>

\* subscribe goes on after its await: the caller gets the unsubscribe function.
\* (A rejection has taken the handlers away with it, see OnFrame.)
Subscribed(id) ==
    /\ id \in streams /\ id \notin pending \cup stoppable
    /\ stoppable' = stoppable \cup {id}
    /\ UNCHANGED <<toServer, toClient, client, nextId, pending, outcome, streams, stopped,
                   got, ends, skipped, serverVars>>

\* The unsubscribe function: its request has an id too, and nobody waits for it.
\* The id of the stream goes along as the parameter.
Unsubscribe(id) ==
    /\ id \in stoppable \ stopped
    /\ stopped' = stopped \cup {id}
    /\ streams' = streams \ {id}
    /\ IF client = "open" THEN Send(Frame("unsubscribe", id)) ELSE UNCHANGED toServer
    /\ UNCHANGED <<toClient, client, nextId, pending, outcome, stoppable, got, ends,
                   skipped, serverVars>>

Close ==
    /\ client \in {"connecting", "open"}
    /\ client' = "ending"
    /\ Send(Fin)
    /\ UNCHANGED <<toClient, nextId, pending, outcome, streams, stoppable, stopped, got,
                   ends, skipped, serverVars>>

-----------------------------------------------------------------------------
(* client.ts: route, and the end of the socket. *)

\* The hello frame, then answers and stream frames for whoever has a handler.  An
\* answer beyond the limit of a frame is skipped by the decoder, and what it reports
\* of that is ignored once the hello frame has come: nobody hears of the answer.
OnFrame ==
    /\ toClient # <<>> /\ client # "closed" /\ Head(toClient).kind # "fin"
    /\ toClient' = Tail(toClient)
    /\ LET f == Head(toClient)  known == f.id \in streams IN
       \/ /\ f.kind = "hello"
          /\ client' = IF client = "connecting" THEN "open" ELSE client
          /\ UNCHANGED <<pending, outcome, streams, got, ends, skipped>>
       \/ /\ f.kind = "oversized"
          /\ skipped' = skipped \cup {f.id}
          /\ UNCHANGED <<client, pending, outcome, streams, got, ends>>
       \/ /\ f.kind \in {"ok", "error"}
          /\ IF f.id \in pending THEN Settle({f.id}, f.kind) ELSE UNCHANGED outcome
          /\ pending' = pending \ {f.id}
          /\ streams' = IF f.kind = "error" THEN streams \ {f.id} ELSE streams
          /\ UNCHANGED <<client, got, ends, skipped>>
       \/ /\ f.kind = "data"
          /\ got' = IF known THEN [got EXCEPT ![f.id] = @ + 1] ELSE got
          /\ UNCHANGED <<client, pending, outcome, streams, ends, skipped>>
       \/ /\ f.kind = "end"
          /\ ends' = IF known THEN [ends EXCEPT ![f.id] = @ + 1] ELSE ends
          /\ streams' = streams \ {f.id}
          /\ UNCHANGED <<client, pending, outcome, got, skipped>>
    /\ UNCHANGED <<toServer, nextId, stoppable, stopped, serverVars>>

\* Mistake: only those who wait for an answer hear of the end.
ForgottenNone == {}

\* Every waiter is rejected when the socket closes.
Forgotten == pending

\* 'close': waiters are rejected, and every stream's onError is called.
ClientCloses ==
    /\ client' = "closed"
    /\ Settle(Forgotten, "error") /\ pending' = {}
    /\ ends' = [i \in Ids |-> IF i \in streams THEN ends[i] + 1 ELSE ends[i]]
    /\ streams' = {}
    /\ UNCHANGED <<nextId, stoppable, stopped, got, skipped>>

\* The server's end of the connection is over.
OnEnd ==
    /\ client # "closed" /\ toClient # <<>> /\ Head(toClient) = Fin
    /\ toClient' = <<>>
    /\ ClientCloses
    /\ toServer' = IF client = "ending" THEN toServer ELSE Append(toServer, Fin)
    /\ UNCHANGED serverVars

\* abort, the grace of close(), or the client's process dies: what it has not
\* read is lost, and so may be the last of what it wrote.
ClientDestroys ==
    /\ client # "closed"
    /\ ClientCloses
    /\ toClient' = <<>>
    /\ \E n \in 0..Len(toServer) : toServer' = Append(SubSeq(toServer, 1, n), Fin)
    /\ UNCHANGED serverVars

-----------------------------------------------------------------------------
(* server.ts *)

\* write: nothing once the socket is destroyed.
Write(fs) == toClient' = IF server = "open" THEN toClient \o fs ELSE toClient

Receive(kind) ==
    /\ server = "open" /\ toServer # <<>> /\ Head(toServer).kind = kind
    /\ toServer' = Tail(toServer)
    /\ UNCHANGED <<clientVars, server>>

\* dispatch of a request, up to the await of its handler.
OnRequest ==
    /\ Receive("request")
    /\ handling' = handling \cup {Head(toServer).id}
    /\ UNCHANGED <<toClient, subs, running, pushed>>

\* Its handler returns, or throws; the client may be gone by now.  What it returns
\* may be any size (logs.query without a tail), and the server writes it all the same;
\* whatever else goes over the wire is small.
Respond(id) ==
    /\ id \in handling
    /\ handling' = handling \ {id}
    /\ \E kind \in {"ok", "error", "oversized"} : Write(<<Frame(kind, id)>>)
    /\ UNCHANGED <<toServer, clientVars, server, subs, running, pushed>>

\* dispatch of a request whose handler returns a subscription without waiting
\* for anything, and openSubscription, in one turn.  The target may be unknown;
\* start may push, end or throw before it returns.
OnSubscribe ==
    /\ Receive("subscribe")
    /\ LET id == Head(toServer).id IN
       \/ Write(<<Frame("error", id)>>) /\ UNCHANGED <<subs, running, pushed>>
       \/ /\ Write(<<Frame("ok", id)>>)
          /\ subs' = subs \cup {id} /\ running' = running \cup {id}
          /\ UNCHANGED pushed
       \/ Write(<<Frame("ok", id), Frame("end", id)>>) /\ UNCHANGED <<subs, running, pushed>>
    /\ UNCHANGED handling

\* A source pushes: emit.data, emit.end or emit.error, whose disposal stops it.
Push(id) ==
    /\ id \in running /\ pushed[id] < MaxData
    /\ Write(IF id \in subs THEN <<Frame("data", id)>> ELSE <<>>)
    /\ pushed' = IF id \in subs THEN [pushed EXCEPT ![id] = @ + 1] ELSE pushed
    /\ UNCHANGED <<toServer, clientVars, server, handling, subs, running>>

EndSource(id) ==
    /\ id \in running
    /\ Write(IF id \in subs THEN <<Frame("end", id)>> ELSE <<>>)
    /\ subs' = subs \ {id} /\ running' = running \ {id}
    /\ UNCHANGED <<toServer, clientVars, server, handling, pushed>>

\* Mistake: an unsubscribed source is forgotten and goes on.
StoppedNone(S) == running

\* dispose calls the stop function.
Stopped(S) == running \ S

\* dispatch of $unsubscribe.
OnUnsubscribe ==
    /\ Receive("unsubscribe")
    /\ LET id == Head(toServer).id IN
       subs' = subs \ {id} /\ running' = Stopped({id} \cap subs)
    /\ UNCHANGED <<toClient, handling, pushed>>

\* 'close', for whatever reason: every subscription is disposed of.
ServerCloses ==
    /\ server' = "closed"
    /\ subs' = {} /\ running' = Stopped(subs)
    /\ UNCHANGED <<clientVars, handling, pushed>>

OnFin ==
    /\ server = "open" /\ toServer # <<>> /\ Head(toServer) = Fin
    /\ toServer' = <<>>
    /\ toClient' = Append(toClient, Fin)
    /\ ServerCloses

\* The daemon stops: the socket is destroyed, its last writes may be lost.
ServerDestroys ==
    /\ server = "open"
    /\ toServer' = <<>>
    /\ \E n \in 0..Len(toClient) : toClient' = Append(SubSeq(toClient, 1, n), Fin)
    /\ ServerCloses

-----------------------------------------------------------------------------

Init ==
    /\ toServer = <<>> /\ toClient = <<Frame("hello", 0)>>
    /\ client = "connecting" /\ server = "open"
    /\ nextId = 1 /\ pending = {} /\ outcome = [i \in Ids |-> "none"]
    /\ streams = {} /\ stoppable = {} /\ stopped = {}
    /\ got = [i \in Ids |-> 0] /\ ends = [i \in Ids |-> 0] /\ skipped = {}
    /\ handling = {} /\ subs = {} /\ running = {} /\ pushed = [i \in Ids |-> 0]

Delivery == OnFrame \/ OnEnd \/ OnRequest \/ OnSubscribe \/ OnUnsubscribe \/ OnFin

Next ==
    \/ Delivery
    \/ Request \/ Subscribe \/ Close \/ ClientDestroys \/ ServerDestroys
    \/ \E id \in Ids :
          Subscribed(id) \/ Unsubscribe(id) \/ Respond(id) \/ Push(id) \/ EndSource(id)

\* What was sent arrives, and handlers come to an end.
Spec ==
    /\ Init /\ [][Next]_vars
    /\ WF_vars(Delivery) /\ \A id \in Ids : WF_vars(Respond(id)) /\ WF_vars(Subscribed(id))

-----------------------------------------------------------------------------

\* "A leaked follow would keep the daemon pushing at a socket nobody reads": a
\* source runs only while its subscription is in the map of an open connection,
\* and no waiter or handler outlives the client's.
NothingLeaks ==
    /\ running \subseteq subs
    /\ server = "closed" => running = {}
    /\ client = "closed" => pending \cup streams = {}

\* How often a frame is on its way.
OnTheWire(s, f) == Cardinality({k \in 1..Len(s) : s[k] = f})

\* As long as its handlers are wanted, all that a source has pushed was given to
\* them or is on its way, from the first entry on, and a stream ends once.
StreamsAreWhole ==
    \A i \in Ids :
        /\ ends[i] <= 1
        /\ i \in subs /\ i \notin stopped /\ client \in {"open", "connecting"} =>
              pushed[i] = got[i] + OnTheWire(toClient, Frame("data", i))

\* A request is answered or rejected for good and not twice, whatever becomes of the
\* daemon and of the connection, with one exception: when the client has skipped its
\* answer, it waits for as long as the connection lives, and is rejected when that ends.
RequestsSettle ==
    \A i \in Ids :
        (i < nextId) ~> [](\/ outcome[i] \in {"ok", "error"}
                           \/ i \in skipped /\ client # "closed")

=============================================================================
