---------------------------- MODULE Connections -----------------------------
(***************************************************************************)
(* partyserver: the WebSocket connections of one Server.  fetch() accepts  *)
(* a socket into the connection manager, calls the application's onConnect *)
(* and hands the client its end; close and error events take the           *)
(* connection out again.  Hibernate selects the manager: an in-memory map  *)
(* from connection id to connection, or the platform's own list of the     *)
(* accepted sockets, which may hold sockets of other code too.  Connection *)
(* ids are chosen by clients (`_pk'), and a PartySocket keeps its id when  *)
(* it reconnects.  A hibernating server can be put to sleep between events *)
(* and wakes up with nothing but the attachments of its sockets.           *)
(***************************************************************************)
EXTENDS Naturals, FiniteSets

CONSTANTS
  Sessions,   \* sockets ever upgraded
  Ids,        \* connection ids; a user tag may be equal to some id
  None,       \* neither a session nor an id
  ReuseIds,   \* with the in-memory manager too, a client may come back under
              \* its id before its old socket is gone
  MaxWrites   \* bound: calls of setState()

ASSUME ConnectionsAssumption ==
  /\ None \notin Sessions /\ None \notin Ids
  /\ ReuseIds \in BOOLEAN
  /\ MaxWrites \in Nat

VARIABLES
  Hibernate, \* options.hibernate, which never changes
  step,      \* how far fetch() got for the session
  id,        \* connection.id
  tags,      \* the tags accepted for the connection
  ready,     \* readyState of the server's end
  client,    \* the state of the client's end
  registry,  \* #connections: id -> connection (in memory only)
  onClose,   \* the application's onClose for the session
  own,       \* connection.state as the live object has it: the property or the
             \* cached attachment, "cold" when nothing is cached
  saved,     \* __user in the attachment the platform keeps (hibernating)
  last,      \* history: the state the application set last
  writes     \* bound: calls of setState() so far

attachments == <<own, saved, last, writes>>
connVars == <<Hibernate, step, id, tags, ready, client, registry, onClose>>
vars == <<connVars, attachments>>

\* foreign: accepted by application code with ctx.acceptWebSocket().
Steps == {"new", "tagging", "rejected", "connecting", "served", "ghost",
          "foreign"}

\* The connection was accepted: it has listeners, or the platform holds it.
Tracked(s) == step[s] \in {"connecting", "served", "ghost"}

\* A socket with a __pk attachment.
IsPartyServerWebSocket(s) == step[s] # "foreign"

\* What the platform lists, for a tag or for None: dropped once closed.
GetWebSockets(tag) ==
  {s \in Sessions :
     /\ Tracked(s) \/ step[s] = "foreign"
     /\ ready[s] \in {"open", "closing"}
     /\ tag # None => tag \in tags[s]}

InMap(s) == Tracked(s) /\ registry[id[s]] = s

\* getConnections(tag), None for no tag.
YieldedInMemory(tag) ==
  {s \in Sessions : /\ InMap(s)
                    /\ IF tag = None THEN ready[s] = "open" ELSE tag \in tags[s]}
YieldedHibernating_Fault(tag) ==
  {s \in GetWebSockets(tag) :
     ready[s] = "open" /\ \A t \in GetWebSockets(tag) : IsPartyServerWebSocket(t)}
YieldedHibernating(tag) ==
  {s \in GetWebSockets(tag) : ready[s] = "open" /\ IsPartyServerWebSocket(s)}
Yielded(tag) ==
  IF Hibernate THEN YieldedHibernating(tag) ELSE YieldedInMemory(tag)

\* getConnection(id): more than one element is the error it throws.
LookupInMemory(i) == {registry[i]} \ {None}
LookupHibernating_Fault(i) == GetWebSockets(i)
LookupHibernating(i) ==
  {s \in GetWebSockets(i) : IsPartyServerWebSocket(s) /\ id[s] = i}
Lookup(i) == IF Hibernate THEN LookupHibernating(i) ELSE LookupInMemory(i)

-----------------------------------------------------------------------------
(* The state of a connection.                                               *)

Values == {"null", "falsy", "truthy"}

\* attachments.get(ws): the cache, filled from the attachment when empty.
State(s) == IF own[s] = "cold" THEN saved[s] ELSE own[s]

\* accept() saves an attachment without user state; wrapping the connection
\* then saves what was set on it before, if that is truthy.
CreateLazyConnection(s) ==
  LET captured == own[s] = "truthy"
  IN  /\ own' = [own EXCEPT ![s] = IF captured THEN @ ELSE "cold"]
      /\ saved' = [saved EXCEPT ![s] = IF captured THEN own[s] ELSE "null"]

\* serializeAttachment() of a wrapped connection goes to cache and platform;
\* a plain connection just has the property.
SerializeAttachment_Fault(s, v) ==
  own' = [own EXCEPT ![s] = v] /\ UNCHANGED saved
SerializeAttachment(s, v) ==
  /\ own' = [own EXCEPT ![s] = v]
  /\ saved' = IF Hibernate /\ Tracked(s) THEN [saved EXCEPT ![s] = v] ELSE saved

\* setState(), called in getConnectionTags() or any handler.
SetState(s, v) ==
  /\ step[s] = "tagging" \/ (Tracked(s) /\ ready[s] # "closed")
  /\ writes < MaxWrites /\ writes' = writes + 1
  /\ SerializeAttachment(s, v)
  /\ last' = [last EXCEPT ![s] = v]
  /\ UNCHANGED connVars

\* The platform puts the server to sleep when no handler is running.
Sleep ==
  /\ Hibernate
  /\ \A s \in Sessions : step[s] \notin {"tagging", "connecting"} /\ onClose[s] # "running"
  /\ own' = [s \in Sessions |-> IF Tracked(s) THEN "cold" ELSE own[s]]
  /\ UNCHANGED <<connVars, saved, last, writes>>

\* A socket of other code in the same Durable Object, with tags of its own.
AcceptForeign(s, itsTags) ==
  /\ Hibernate /\ step[s] = "new"
  /\ step' = [step EXCEPT ![s] = "foreign"]
  /\ tags' = [tags EXCEPT ![s] = itsTags]
  /\ ready' = [ready EXCEPT ![s] = "open"]
  /\ UNCHANGED <<id, client, registry, onClose, attachments>>

\* Its close and error events end in the server's handlers, which ignore it.
ForeignEvent(s) ==
  /\ ~IsPartyServerWebSocket(s) /\ ready[s] # "closed"
  /\ \E r \in {"closing", "closed"} : ready' = [ready EXCEPT ![s] = r]
  /\ UNCHANGED <<step, id, tags, client, registry, onClose, attachments>>

-----------------------------------------------------------------------------
(* fetch() with an upgrade header, one action per stretch between awaits.   *)

\* The id is free: no earlier socket of that client is still around.
Free(i) == \A s \in Sessions :
             id[s] = i => step[s] = "rejected" \/ (Tracked(s) /\ ready[s] = "closed")

\* The request arrives; getConnectionTags() is awaited.
Fetch(s, i) ==
  /\ step[s] = "new"
  /\ Hibernate \/ ReuseIds \/ Free(i)
  /\ step' = [step EXCEPT ![s] = "tagging"]
  /\ id' = [id EXCEPT ![s] = i]
  /\ UNCHANGED <<tags, ready, client, registry, onClose, attachments>>

\* getConnectionTags() throws, or prepareTags() refuses its result: the
\* socket is in no list and the client gets an error socket in its place.
TagsRejected(s) ==
  /\ step[s] = "tagging"
  /\ step' = [step EXCEPT ![s] = "rejected"]
  /\ UNCHANGED <<id, tags, ready, client, registry, onClose, attachments>>

Register(s) == [registry EXCEPT ![id[s]] = s]

\* prepareTags(): the id comes first, whatever the application returns.
PrepareTags(i, userTags) == {i} \cup userTags

\* accept() and #attachSocketEventHandlers(), then onConnect() is awaited.
Accept(s, userTags) ==
  /\ step[s] = "tagging"
  /\ step' = [step EXCEPT ![s] = "connecting"]
  /\ tags' = [tags EXCEPT ![s] = PrepareTags(id[s], userTags)]
  /\ ready' = [ready EXCEPT ![s] = "open"]
  /\ IF Hibernate THEN CreateLazyConnection(s) /\ UNCHANGED registry
     ELSE registry' = Register(s) /\ UNCHANGED <<own, saved>>
  /\ UNCHANGED <<id, client, onClose, last, writes>>

\* onConnect() settles: the 101 response carries the client's end.
Serve(s) ==
  /\ step[s] = "connecting"
  /\ step' = [step EXCEPT ![s] = "served"]
  /\ client' = [client EXCEPT ![s] = "open"]
  /\ UNCHANGED <<id, tags, ready, registry, onClose, attachments>>

\* onConnect() throws: the client gets an error socket; the accepted
\* connection stays where it is, its other end discarded.
OnConnectThrows(s) ==
  /\ step[s] = "connecting"
  /\ step' = [step EXCEPT ![s] = "ghost"]
  /\ UNCHANGED <<id, tags, ready, client, registry, onClose, attachments>>

-----------------------------------------------------------------------------
(* The end of a connection.                                                 *)

\* removeConnection() deletes by id, whoever is registered under it.
Unregister_Fault(s) == IF onClose[s] = "none" THEN registry
                       ELSE [registry EXCEPT ![id[s]] = None]
Unregister(s) == [registry EXCEPT ![id[s]] = None]

Remove(s) == registry' = IF Hibernate THEN registry ELSE Unregister(s)

\* Application code, or a failing broadcast, calls connection.close().
ServerCloses(s) ==
  /\ Tracked(s) /\ ready[s] = "open"
  /\ ready' = [ready EXCEPT ![s] = "closing"]
  /\ UNCHANGED <<step, id, tags, client, registry, onClose, attachments>>

\* The client sends a Close frame, "bare" when it carries no status code.
ClientCloses(s) ==
  /\ client[s] = "open"
  /\ \E frame \in {"closing", "bare"} : client' = [client EXCEPT ![s] = frame]
  /\ UNCHANGED <<step, id, tags, ready, registry, onClose, attachments>>

\* The client's Close frame arrives, as a first close or as the answer to
\* ours: the connection is removed and onClose() runs (or, if a hibernated
\* server fails to start for the event, is skipped).  Half-open mode: our end
\* stays in CLOSING until we reply.
CloseArrives(s) ==
  /\ client[s] \in {"closing", "bare"}
  /\ onClose[s] = "none" /\ ready[s] # "closed"
  /\ IF ready[s] = "open"
     THEN ready' = [ready EXCEPT ![s] = "closing"] /\ UNCHANGED client
     ELSE /\ ready' = [ready EXCEPT ![s] = "closed"]
          /\ client' = [client EXCEPT ![s] = "closed"]
  /\ Remove(s)
  /\ onClose' = [onClose EXCEPT ![s] = "running"]
  /\ UNCHANGED <<step, id, tags, attachments>>

\* closeQuietly() sends our Close frame unless that has happened already.  A
\* frame without a status arrives as the reserved code 1005: it returns at
\* once, and our end stays half-open until the transport is gone.
Reciprocate_Fault(s, threw) ==
  IF threw \/ client[s] = "bare" THEN UNCHANGED <<ready, client>>
  ELSE /\ ready' = [ready EXCEPT ![s] = "closed"]
       /\ client' = [client EXCEPT ![s] = "closed"]
Reciprocate(s, threw) ==
  IF client[s] = "bare" THEN UNCHANGED <<ready, client>>
  ELSE /\ ready' = [ready EXCEPT ![s] = "closed"]
       /\ client' = [client EXCEPT ![s] = "closed"]

\* onClose() returns, throws, resolves or rejects: closeQuietly() in each case.
OnCloseSettles(s) ==
  /\ onClose[s] = "running"
  /\ onClose' = [onClose EXCEPT ![s] = "done"]
  /\ \E threw \in BOOLEAN : Reciprocate(s, threw)
  /\ UNCHANGED <<step, id, tags, registry, attachments>>

\* The transport is lost.  It surfaces as a close event with a reserved code,
\* to which nothing is replied, or as an error event; onError() keeps no
\* state here, and neither event follows one that was dispatched before.
Drop(s) ==
  /\ Tracked(s) /\ step[s] # "connecting" /\ ready[s] # "closed"
  /\ ready' = [ready EXCEPT ![s] = "closed"]
  /\ client' = [client EXCEPT ![s] = "closed"]
  /\ \/ onClose[s] # "none" /\ UNCHANGED <<registry, onClose>>
     \/ /\ onClose[s] = "none"
        /\ Remove(s)
        /\ \/ onClose' = [onClose EXCEPT ![s] = "running"]
           \/ UNCHANGED onClose
  /\ UNCHANGED <<step, id, tags, attachments>>

Targets(without) == {s \in Yielded(None) : id[s] \notin without}

\* broadcast(msg, without): a connection whose send() throws is closed.
Broadcast(without) ==
  \E failing \in SUBSET Targets(without) :
    /\ ready' = [s \in Sessions |->
                   IF s \in failing THEN "closing" ELSE ready[s]]
    /\ UNCHANGED <<step, id, tags, client, registry, onClose, attachments>>

-----------------------------------------------------------------------------

Init ==
  /\ Hibernate \in BOOLEAN
  /\ step = [s \in Sessions |-> "new"]
  /\ id = [s \in Sessions |-> None]
  /\ tags = [s \in Sessions |-> {}]
  /\ ready = [s \in Sessions |-> "none"]
  /\ client = [s \in Sessions |-> "none"]
  /\ registry = [i \in Ids |-> None]
  /\ onClose = [s \in Sessions |-> "none"]
  /\ own = [s \in Sessions |-> "null"]
  /\ saved = [s \in Sessions |-> "null"]
  /\ last = [s \in Sessions |-> "null"]
  /\ writes = 0

Next ==
  /\ UNCHANGED Hibernate
  /\ \/ \E s \in Sessions :
          \/ \E i \in Ids : Fetch(s, i)
          \/ TagsRejected(s)
          \/ \E userTags \in SUBSET Ids : Accept(s, userTags)
          \/ Serve(s) \/ OnConnectThrows(s)
          \/ ServerCloses(s) \/ ClientCloses(s) \/ CloseArrives(s)
          \/ OnCloseSettles(s) \/ Drop(s)
          \/ \E v \in {"falsy", "truthy"} : SetState(s, v)
          \/ \E itsTags \in SUBSET Ids : AcceptForeign(s, itsTags)
          \/ ForeignEvent(s)
     \/ Sleep
     \/ \E without \in SUBSET Ids : Broadcast(without)

Spec == Init /\ [][Next]_vars

(* Frames and events that were sent arrive, and the application's onClose   *)
(* settles.  Nothing is assumed of what clients and the application start.  *)
Fairness ==
  \A s \in Sessions :
    /\ WF_vars(UNCHANGED Hibernate /\ CloseArrives(s))
    /\ WF_vars(UNCHANGED Hibernate /\ OnCloseSettles(s))

FairSpec == Spec /\ Fairness

-----------------------------------------------------------------------------

TypeOK ==
  /\ Hibernate \in BOOLEAN
  /\ step \in [Sessions -> Steps]
  /\ id \in [Sessions -> Ids \cup {None}]
  /\ tags \in [Sessions -> SUBSET Ids]
  /\ ready \in [Sessions -> {"none", "open", "closing", "closed"}]
  /\ client \in [Sessions -> {"none", "open", "closing", "bare", "closed"}]
  /\ registry \in [Ids -> Sessions \cup {None}]
  /\ onClose \in [Sessions -> {"none", "running", "done"}]
  /\ own \in [Sessions -> Values \cup {"cold"}]
  /\ saved \in [Sessions -> Values] /\ last \in [Sessions -> Values]
  /\ writes \in 0..MaxWrites
  /\ \A s \in Sessions : step[s] \notin {"new", "foreign"} => id[s] \in Ids
  /\ \A s \in Sessions : Tracked(s) => id[s] \in tags[s]

\* A client holds its end, has not closed it, and neither have we.
Connected(s) == client[s] = "open" /\ ready[s] = "open"

(* A connection whose close or error event has been dispatched is yielded   *)
(* for no tag, so no later broadcast reaches it, whatever ids clients used, *)
(* and no getConnection() answers with it.  The hibernating getConnection() *)
(* is the exception: it has no readyState filter and may still answer with  *)
(* a connection that is closing, until it is closed.  A socket of other     *)
(* code is never found at all.                                              *)
ClosedIsForgotten ==
  \A s \in Sessions :
    ready[s] = "closed" \/ onClose[s] # "none" \/ step[s] = "foreign" =>
      /\ \A tag \in Ids \cup {None} : s \notin Yielded(tag)
      /\ \/ \A i \in Ids : s \notin Lookup(i)
         \/ Hibernate /\ ready[s] = "closing" /\ IsPartyServerWebSocket(s)

(* connection.state is what setState() was last given, through acceptance   *)
(* and hibernation; only a falsy state set before acceptance may be lost.   *)
StateIsKept ==
  \A s \in Sessions :
    step[s] = "tagging" \/ Tracked(s) =>
      State(s) = last[s] \/ (last[s] = "falsy" /\ State(s) = "null")

(* Every connected client is among the connections a broadcast goes to (its *)
(* doc: "all connected clients").  In memory that takes ids that nobody     *)
(* uses again early: the manager keys connections by id alone.              *)
ConnectedIsListed == \A s \in Sessions : Connected(s) => s \in Yielded(None)

\* Another connection, not closed yet, has the id of s.
Twin(s, t) ==
  t # s /\ id[t] = id[s] /\ Tracked(t) /\ ready[t] # "closed"

(* getConnection(id) answers a connected client's id with its connection    *)
(* alone, and never with one that merely carries the id as a tag.  With the *)
(* hibernating manager that takes a client that is not back under its id    *)
(* before its old socket is closed: with both around getConnection() throws *)
(* (`More than one connection found').                                      *)
LookupFindsConnected ==
  \A s \in Sessions :
    Connected(s) =>
      /\ \/ Lookup(id[s]) = {s}
         \/ Hibernate /\ \E t \in Sessions : Twin(s, t)
      /\ \A t \in Lookup(id[s]) : id[t] = id[s]

(* A client that sends a Close frame with a status code gets one back, even *)
(* when onClose() throws or rejects.  One without a status ("bare") is not  *)
(* answered: closeQuietly() ignores the reserved code it arrives as.        *)
HandshakeCompletes ==
  \A s \in Sessions : client[s] = "closing" ~> client[s] = "closed"
=============================================================================
