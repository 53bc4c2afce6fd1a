----------------------------- MODULE YProvider -----------------------------
(***************************************************************************)
(* y-partyserver: the connection of a YProvider (provider/index.ts) and    *)
(* the presence it carries.  Every provider and the server keep a replica  *)
(* of the awareness states: for each client the highest clock they heard   *)
(* of and the state it carried.  The protocol's own timeouts are switched  *)
(* off, so a client that leaves is forgotten only because the server's     *)
(* onClose() removes the ids it had noted for that connection.             *)
(*                                                                         *)
(* The k-th socket a client opens is the connection <<c, k>>; the server   *)
(* may hold it after the client has lost it.  The server side accepts a    *)
(* socket when the client's open event fires.  Connections are those of    *)
(* the hibernating manager, which keeps an older socket of the same id.    *)
(***************************************************************************)
EXTENDS Integers, Sequences, FiniteSets

CONSTANTS
  Clients,
  MaxConns,       \* bound: sockets a client opens
  MaxEvents       \* bound: what may happen to each client: calls, changes,
                  \* failures, its departure, a hibernation of the server

ASSUME BoundsAssumption ==
  /\ MaxConns \in Nat \ {0} /\ MaxEvents \in [Clients -> Nat]
ASSUME ClientsAssumption == "server" \notin Clients

VARIABLES
  alive,          \* the client's page is still there
  shouldConnect,  \* provider.shouldConnect
  pending,        \* connect() calls awaiting #resolveParams()
  retries,        \* close handlers' timers that have not reconnected yet
  ws,             \* provider.ws
  told,           \* history: the last call, connect() or disconnect(), which
                  \* is "overtaken" if a connect() was still pending then
  opened,         \* the number of sockets the client has opened
  view,           \* provider.awareness: clock and state of every client
  sview,          \* the server's document.awareness
  link,           \* connections: "none", "up", "ended" at the client only
  ids,            \* the awareness ids in a connection's state
  toServer, toClient,   \* messages on their way
  events,         \* bound: how much of that there was
  hibernated      \* history: the server has hibernated

sockets == <<shouldConnect, pending, retries, ws, told>>
links == <<link, toServer, toClient>>
bounds == <<events, hibernated>>
vars == <<alive, sockets, opened, view, sview, links, ids, bounds>>

Conns == Clients \X (1..MaxConns)
Current(c) == <<c, opened[c]>>
Null == -1
States == Nat

-----------------------------------------------------------------------------
(* y-protocols/awareness.  A replica maps every client to a clock, 0 when   *)
(* it has no meta of it, and a state.                                       *)

Unknown == [clock |-> 0, state |-> Null]
Replicas == [Clients -> [clock : Nat, state : States \cup {Null}]]
Entries == [client : Clients, clock : Nat, state : States \cup {Null}]

Present(v) == {c \in Clients : v[c].state # Null}

\* encodeAwarenessUpdate
Encode(v, cs) ==
  {[client |-> c, clock |-> v[c].clock, state |-> v[c].state] : c \in cs}

\* Which entries of an update applyAwarenessUpdate takes.
IsNews(v, e) ==
  \/ v[e.client].clock < e.clock
  \/ /\ v[e.client].clock = e.clock
     /\ e.state = Null /\ v[e.client].state # Null

News(v, m) == {e \in m : IsNews(v, e)}

\* Its `added' and `removed', and what it reports as changed.
Added(v, m) ==
  {e.client : e \in {x \in News(v, m) : v[x.client].clock = 0 /\ x.state # Null}}
Removed(v, m) ==
  {e.client : e \in {x \in News(v, m) : v[x.client].clock > 0 /\ x.state = Null}}
Changed(v, m) ==
  {e.client : e \in {x \in News(v, m) : x.state # v[x.client].state}}
    \cup Removed(v, m)

\* No replica lets others remove its own state: it raises the clock instead.
Resists(self, e) == e.client = self /\ e.state = Null

ApplyUpdate(v, self, m) ==
  [c \in Clients |->
     IF \E e \in News(v, m) : e.client = c
     THEN LET e == CHOOSE x \in News(v, m) : x.client = c
          IN  IF Resists(self, e) THEN [v[c] EXCEPT !.clock = e.clock + 1]
              ELSE [clock |-> e.clock, state |-> e.state]
     ELSE v[c]]

\* removeAwarenessStates of others' ids: the clock stays.
Forget(v, cs) == [c \in Clients |-> IF c \in cs THEN [v[c] EXCEPT !.state = Null]
                                    ELSE v[c]]

-----------------------------------------------------------------------------
(* Messages.                                                                *)

\* broadcastMessage: only over an open socket.
Broadcast(c, m) ==
  IF ws[c] = "open" /\ m # {}
  THEN [toServer EXCEPT ![Current(c)] = Append(@, m)] ELSE toServer

\* The server sends to every connection it can still write to.
ToAll(channels, m) ==
  [x \in Conns |-> IF link[x] = "up" THEN Append(channels[x], m) ELSE channels[x]]

\* What is in flight when a connection breaks arrives up to some point.
Truncated(channel) == {SubSeq(channel, 1, i) : i \in 0..Len(channel)}

-----------------------------------------------------------------------------
(* The provider's socket.                                                   *)

\* The first message on a new socket, and the server's to a new connection.
Hello(v, c) == <<Encode(v, {c})>>
Greeting(v) == IF Present(v) = {} THEN <<>> ELSE <<Encode(v, Present(v))>>

\* setupWS(): one socket at a time, and only while connecting is wanted.
MaySetup_Fault(should, w) == w = "none"
MaySetup(should, w) == should /\ w = "none"

\* super.connect(), once the parameters are there.
ConnectResolves(c) ==
  /\ alive[c] /\ pending[c] > 0
  /\ pending' = [pending EXCEPT ![c] = @ - 1]
  /\ shouldConnect' = [shouldConnect EXCEPT ![c] = TRUE]
  /\ IF MaySetup(TRUE, ws[c])
     THEN ws' = [ws EXCEPT ![c] = "connecting"]
     ELSE UNCHANGED ws
  /\ UNCHANGED <<alive, told, retries, opened, view, sview, links, ids, bounds>>

\* The params function rejects: connect() rejects and nothing tries again.
ConnectRejects(c) ==
  /\ alive[c] /\ pending[c] > 0 /\ events[c] < MaxEvents[c]
  /\ events' = [events EXCEPT ![c] = @ + 1]
  /\ pending' = [pending EXCEPT ![c] = @ - 1]
  /\ UNCHANGED <<alive, told, shouldConnect, retries, ws, opened, view,
                 sview, links, ids, hibernated>>

Connect(c) ==
  /\ alive[c] /\ events[c] < MaxEvents[c]
  /\ events' = [events EXCEPT ![c] = @ + 1]
  /\ pending' = [pending EXCEPT ![c] = @ + 1]
  /\ told' = [told EXCEPT ![c] = "connect"]
  /\ UNCHANGED <<alive, shouldConnect, retries, ws, opened, view,
                 sview, links, ids, hibernated>>

\* disconnect() and destroy(): say goodbye, then close the socket.
Farewell(c) == {[client |-> c, clock |-> view[c][c].clock, state |-> Null]}

Disconnect(c) ==
  /\ alive[c] /\ events[c] < MaxEvents[c]
  /\ events' = [events EXCEPT ![c] = @ + 1]
  /\ shouldConnect' = [shouldConnect EXCEPT ![c] = FALSE]
  /\ told' = [told EXCEPT ![c] = IF pending[c] > 0 THEN "overtaken"
                                 ELSE "disconnect"]
  /\ toServer' = Broadcast(c, Farewell(c))
  /\ IF ws[c] = "open"
     THEN /\ link' = [link EXCEPT ![Current(c)] = "ended"]
          /\ toClient' = [toClient EXCEPT ![Current(c)] = <<>>]
     ELSE UNCHANGED <<link, toClient>>
  /\ ws' = [ws EXCEPT ![c] = IF @ = "none" THEN @ ELSE "closing"]
  /\ UNCHANGED <<alive, pending, retries, opened, view, sview, ids,
                 hibernated>>

\* The open event: the local state goes out under a higher clock, so that
\* replicas which still hold the old one take it.  The server's onConnect()
\* sends the states it has.
Bumped_Fault(v, c) == v
Bumped(v, c) == [v EXCEPT ![c].clock = @ + 1]

Opens(c) ==
  /\ alive[c] /\ ws[c] = "connecting" /\ opened[c] < MaxConns
  /\ ws' = [ws EXCEPT ![c] = "open"]
  /\ opened' = [opened EXCEPT ![c] = @ + 1]
  /\ view' = [view EXCEPT ![c] = Bumped(@, c)]
  /\ LET x == <<c, opened[c] + 1>>
     IN  /\ link' = [link EXCEPT ![x] = "up"]
         /\ toServer' = [toServer EXCEPT ![x] = Hello(view'[c], c)]
         /\ toClient' = [toClient EXCEPT ![x] = Greeting(sview)]
  /\ UNCHANGED <<alive, told, shouldConnect, pending, retries, sview,
                 ids, bounds>>

\* The close event: forget everyone else who is present, their clocks too,
\* and reconnect after a delay.
ForgetOthers(v, c) ==
  [d \in Clients |-> IF d \in Present(v) \ {c} THEN Unknown ELSE v[d]]

CloseEvent(c) ==
  /\ ws' = [ws EXCEPT ![c] = "none"]
  /\ view' = [view EXCEPT ![c] = ForgetOthers(@, c)]
  /\ retries' = [retries EXCEPT ![c] = @ + 1]

Closes(c) ==
  /\ alive[c] /\ ws[c] = "closing"
  /\ CloseEvent(c)
  /\ UNCHANGED <<alive, told, shouldConnect, pending, opened, sview,
                 links, ids, bounds>>

ConnectFails(c) ==
  /\ alive[c] /\ ws[c] = "connecting" /\ events[c] < MaxEvents[c]
  /\ events' = [events EXCEPT ![c] = @ + 1]
  /\ CloseEvent(c)
  /\ UNCHANGED <<alive, told, shouldConnect, pending, opened, sview,
                 links, ids, hibernated>>

\* The connection breaks under the client, who learns of it first.
Breaks(c) ==
  /\ link' = [link EXCEPT ![Current(c)] = "ended"]
  /\ \E sent \in Truncated(toServer[Current(c)]) :
       toServer' = [toServer EXCEPT ![Current(c)] = sent]
  /\ toClient' = [toClient EXCEPT ![Current(c)] = <<>>]

Drops(c) ==
  /\ alive[c] /\ ws[c] = "open" /\ events[c] < MaxEvents[c]
  /\ events' = [events EXCEPT ![c] = @ + 1]
  /\ Breaks(c)
  /\ CloseEvent(c)
  /\ UNCHANGED <<alive, told, shouldConnect, pending, opened, sview, ids, hibernated>>

\* The timer, and _reconnectWS() when its params are refreshed or failed to.
RetryFires(c) ==
  /\ alive[c] /\ retries[c] > 0
  /\ retries' = [retries EXCEPT ![c] = @ - 1]
  /\ ws' = [ws EXCEPT ![c] = IF MaySetup(shouldConnect[c], @) THEN "connecting"
                             ELSE @]
  /\ UNCHANGED <<alive, told, shouldConnect, pending, opened, view, sview,
                 links, ids, bounds>>

\* The page goes away: unloaded, with a last message, or gone at once.
Leaves(c) ==
  /\ alive[c] /\ events[c] < MaxEvents[c]
  /\ events' = [events EXCEPT ![c] = @ + 1]
  /\ alive' = [alive EXCEPT ![c] = FALSE]
  /\ IF ws[c] = "open" THEN Breaks(c) ELSE UNCHANGED links
  /\ ws' = [ws EXCEPT ![c] = "none"]
  /\ UNCHANGED <<told, shouldConnect, pending, retries, opened, view,
                 sview, ids, hibernated>>

Unloads(c) ==
  /\ alive[c] /\ events[c] < MaxEvents[c]
  /\ events' = [events EXCEPT ![c] = @ + 1]
  /\ alive' = [alive EXCEPT ![c] = FALSE]
  /\ IF ws[c] = "open"
     THEN /\ link' = [link EXCEPT ![Current(c)] = "ended"]
          /\ toServer' = Broadcast(c, Encode(Bumped(Forget(view[c], {c}), c), {c}))
          /\ toClient' = [toClient EXCEPT ![Current(c)] = <<>>]
     ELSE UNCHANGED links
  /\ ws' = [ws EXCEPT ![c] = "none"]
  /\ UNCHANGED <<told, shouldConnect, pending, retries, opened, view,
                 sview, ids, hibernated>>

-----------------------------------------------------------------------------
(* Presence at the client: every change, from here or from the server, goes *)
(* to the server.                                                           *)

Moves(c) ==
  /\ alive[c] /\ events[c] < MaxEvents[c]
  /\ events' = [events EXCEPT ![c] = @ + 1]
  /\ view' = [view EXCEPT ![c][c] = [clock |-> @.clock + 1, state |-> events'[c]]]
  /\ toServer' = Broadcast(c, Encode(view'[c], {c}))
  /\ UNCHANGED <<alive, sockets, opened, sview, link, toClient, ids,
                 hibernated>>

Applies(c, m) ==
  /\ view' = [view EXCEPT ![c] = ApplyUpdate(@, c, m)]
  /\ toServer' = Broadcast(c, Encode(view'[c], Changed(view[c], m)))

ClientReceives(c) ==
  /\ alive[c] /\ ws[c] = "open" /\ toClient[Current(c)] # <<>>
  /\ Applies(c, Head(toClient[Current(c)]))
  /\ toClient' = [toClient EXCEPT ![Current(c)] = Tail(@)]
  /\ UNCHANGED <<alive, sockets, opened, sview, link, ids, bounds>>

(* The server.                                                              *)

\* The awareness `update' listener, for a connection's message.
TrackIds_Fault(x, m) == ids[x] \ Removed(sview, m)
TrackIds(x, m) == (ids[x] \cup Added(sview, m)) \ Removed(sview, m)

\* handleMessage() applies it and forwards the bytes to every connection.
ServerReceives(x) ==
  /\ link[x] # "none" /\ toServer[x] # <<>>
  /\ LET m == Head(toServer[x])
     IN  /\ sview' = ApplyUpdate(sview, "server", m)
         /\ ids' = [ids EXCEPT ![x] = TrackIds(x, m)]
         /\ toClient' = ToAll(toClient, m)
  /\ toServer' = [toServer EXCEPT ![x] = Tail(@)]
  /\ UNCHANGED <<alive, sockets, opened, view, link, bounds>>

\* onClose(): the ids of the connection are removed, and if that changes
\* anything the listener tells the connections that are left.
Leavers(x) == ids[x] \cap Present(sview)

Announce(channels, v, cs) ==
  IF cs = {} THEN channels ELSE ToAll(channels, Encode(v, cs))

ServerCloses(x) ==
  /\ link[x] = "ended" /\ toServer[x] = <<>>
  /\ link' = [link EXCEPT ![x] = "none"]
  /\ sview' = Forget(sview, Leavers(x))
  /\ toClient' = Announce(toClient, sview', Leavers(x))
  /\ UNCHANGED <<alive, sockets, opened, view, ids, toServer, bounds>>

\* Hibernation keeps the connections with their state, not the document.
Hibernates ==
  /\ hibernated' = TRUE
  /\ \E c \in Clients : events[c] < MaxEvents[c] /\ events' = [events EXCEPT ![c] = @ + 1]
  /\ sview' = [c \in Clients |-> Unknown]
  /\ UNCHANGED <<alive, sockets, opened, view, links, ids>>

-----------------------------------------------------------------------------

\* Every provider is constructed with `connect' and awaits its parameters.
Init ==
  /\ alive = [c \in Clients |-> TRUE]
  /\ shouldConnect = [c \in Clients |-> FALSE]
  /\ pending = [c \in Clients |-> 1]
  /\ retries = [c \in Clients |-> 0]
  /\ ws = [c \in Clients |-> "none"]
  /\ told = [c \in Clients |-> "connect"]
  /\ opened = [c \in Clients |-> 0]
  /\ view = [c \in Clients |-> [d \in Clients |->
               IF c = d THEN [clock |-> 0, state |-> 0] ELSE Unknown]]
  /\ sview = [c \in Clients |-> Unknown]
  /\ link = [x \in Conns |-> "none"]
  /\ ids = [x \in Conns |-> {}]
  /\ toServer = [x \in Conns |-> <<>>]
  /\ toClient = [x \in Conns |-> <<>>]
  /\ events = [c \in Clients |-> 0] /\ hibernated = FALSE

User(c) == Connect(c) \/ Disconnect(c) \/ Moves(c)
Failure(c) == ConnectRejects(c) \/ ConnectFails(c) \/ Drops(c)
Departure(c) == Leaves(c) \/ Unloads(c)
Work(c) == ConnectResolves(c) \/ RetryFires(c) \/ Opens(c) \/ Closes(c)

Next ==
  \/ \E c \in Clients : User(c) \/ Failure(c) \/ Departure(c)
  \/ \E c \in Clients : Work(c) \/ ClientReceives(c)
  \/ \E x \in Conns : ServerReceives(x) \/ ServerCloses(x)
  \/ Hibernates

Spec == Init /\ [][Next]_vars

(* Timers fire, parameters arrive, sockets open and close, and messages are *)
(* delivered; nobody has to lose a connection or to call anything.          *)
Fairness ==
  /\ \A c \in Clients : WF_vars(Work(c)) /\ WF_vars(ClientReceives(c))
  /\ \A x \in Conns : WF_vars(ServerReceives(x) \/ ServerCloses(x))

FairSpec == Spec /\ Fairness

-----------------------------------------------------------------------------

SocketsOK ==
  /\ alive \in [Clients -> BOOLEAN]
  /\ shouldConnect \in [Clients -> BOOLEAN]
  /\ pending \in [Clients -> Nat] /\ retries \in [Clients -> Nat]
  /\ ws \in [Clients -> {"none", "connecting", "open", "closing"}]
  /\ told \in [Clients -> {"connect", "disconnect", "overtaken"}]
  /\ opened \in [Clients -> 0..MaxConns]

PresenceOK ==
  /\ view \in [Clients -> Replicas]
  /\ sview \in Replicas
  /\ ids \in [Conns -> SUBSET Clients]

LinksOK ==
  /\ link \in [Conns -> {"none", "up", "ended"}]
  /\ toServer \in [Conns -> Seq(SUBSET Entries)]
  /\ toClient \in [Conns -> Seq(SUBSET Entries)]

BoundsOK ==
  /\ events \in [Clients -> Nat] /\ hibernated \in BOOLEAN

TypeOK == SocketsOK /\ PresenceOK /\ LinksOK /\ BoundsOK

(* A provider whose last call was disconnect() brings up no socket, neither *)
(* from a retry nor otherwise, and one that wants to be connected is never  *)
(* without a socket or a retry that will make one.  A connect() that still  *)
(* awaits its params when disconnect() is called ("overtaken") is not       *)
(* undone by it: it connects all the same, once it has them.                *)
SocketAsWanted ==
  \A c \in Clients : alive[c] =>
    /\ told[c] = "disconnect" => ws[c] \in {"none", "closing"}
    /\ ws[c] \in {"connecting", "open"} => shouldConnect[c]
    /\ shouldConnect[c] => ws[c] # "none" \/ retries[c] > 0

(* The server forgets a client that has left after its first connection,    *)
(* whatever echoes of its state were still on their way, unless it has      *)
(* hibernated: nobody who joins later is told of it.                        *)
Delivered == \A x \in Conns : link[x] # "ended" /\ toServer[x] = <<>>
Linked(c) == \E k \in 1..MaxConns : link[<<c, k>>] = "up"
ServerForgets ==
  Delivered /\ ~hibernated =>
    \A c \in Present(sview) : Linked(c) \/ opened[c] > 1

(* Clients that stay connected end up seeing each other's latest state,     *)
(* through reconnections and late onClose() calls of earlier connections,   *)
(* as long as the server does not hibernate.                                *)
Together(c, d) == ws[c] = "open" /\ ws[d] = "open"
PresenceConverges ==
  [](~hibernated) =>
    \A c, d \in Clients : <>[]Together(c, d) => <>[](view[d][c] = view[c][c])
=============================================================================
