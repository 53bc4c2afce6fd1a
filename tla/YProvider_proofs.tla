-------------------------- MODULE YProvider_proofs --------------------------
(***************************************************************************)
(* Theorems of YProvider, for any clients and bounds.                      *)
(***************************************************************************)
EXTENDS YProvider, SequenceTheorems, TLAPS

(* SocketAsWanted is inductive beside the types of the socket's own fields *)
(* and what a last call of disconnect() means.                             *)
SocketFacts ==
  \A c \in Clients :
    /\ ws[c] = "open" => opened[c] > 0
    /\ told[c] = "disconnect" => pending[c] = 0 /\ ~shouldConnect[c]
SocketInv == SocketsOK /\ SocketAsWanted /\ SocketFacts

LEMMA CloseEventKeeps ==
  ASSUME SocketInv, NEW c \in Clients, CloseEvent(c),
         UNCHANGED <<alive, told, shouldConnect, pending, opened>>
  PROVE  SocketInv'
<1>1. retries[c] \in Nat /\ retries[c] + 1 \in Nat /\ retries[c] + 1 > 0
  BY DEF SocketInv, SocketsOK
<1>2. SocketsOK'
  BY <1>1 DEF SocketInv, SocketsOK, CloseEvent
<1>3. SocketAsWanted'
  BY <1>1 DEF SocketInv, SocketsOK, SocketAsWanted, CloseEvent
<1>4. SocketFacts'
  BY DEF SocketInv, SocketsOK, SocketFacts, CloseEvent
<1> QED
  BY <1>2, <1>3, <1>4 DEF SocketInv

LEMMA SocketInvKept == SocketInv /\ [Next]_vars => SocketInv'
<1> SUFFICES ASSUME SocketInv, [Next]_vars PROVE SocketInv'
  OBVIOUS
<1>1. CASE UNCHANGED <<alive, sockets, opened>>
  BY <1>1 DEF sockets, SocketInv, SocketsOK, SocketAsWanted, SocketFacts
<1>2. ASSUME NEW c \in Clients, Connect(c) PROVE SocketInv'
  BY <1>2 DEF Connect, SocketInv, SocketsOK, SocketAsWanted, SocketFacts
<1>3. ASSUME NEW c \in Clients, Disconnect(c) PROVE SocketInv'
  <2>1. SocketsOK'
    BY <1>3 DEF Disconnect, SocketInv, SocketsOK
  <2>2. SocketAsWanted'
    BY <1>3 DEF Disconnect, SocketInv, SocketsOK, SocketAsWanted
  <2>9. SocketFacts'
    BY <1>3 DEF Disconnect, SocketInv, SocketsOK, SocketFacts
  <2> QED
    BY <2>9, <2>1, <2>2 DEF SocketInv
<1>4. ASSUME NEW c \in Clients, ConnectRejects(c) PROVE SocketInv'
  BY <1>4 DEF ConnectRejects, SocketInv, SocketsOK, SocketAsWanted,
                        SocketFacts
<1>5. ASSUME NEW c \in Clients, ConnectFails(c) PROVE SocketInv'
  BY <1>5, CloseEventKeeps DEF ConnectFails
<1>6. ASSUME NEW c \in Clients, Drops(c) PROVE SocketInv'
  BY <1>6, CloseEventKeeps DEF Drops
<1>7. ASSUME NEW c \in Clients, Leaves(c) \/ Unloads(c) PROVE SocketInv'
  <2>1. /\ alive' = [alive EXCEPT ![c] = FALSE] /\ ws' = [ws EXCEPT ![c] = "none"]
        /\ UNCHANGED <<told, shouldConnect, pending, retries, opened>>
    BY <1>7 DEF Leaves, Unloads
  <2>2. SocketsOK'
    BY <2>1 DEF SocketInv, SocketsOK
  <2>3. SocketAsWanted'
    BY <2>1 DEF SocketInv, SocketsOK, SocketAsWanted
  <2>9. SocketFacts'
    BY <2>1 DEF SocketInv, SocketsOK, SocketFacts
  <2> QED
    BY <2>9, <2>2, <2>3 DEF SocketInv
<1>8. ASSUME NEW c \in Clients, ConnectResolves(c) PROVE SocketInv'
  <2>1. pending' \in [Clients -> Nat] /\ shouldConnect' \in [Clients -> BOOLEAN]
    BY <1>8 DEF ConnectResolves, SocketInv, SocketsOK
  <2>3. ws' \in [Clients -> {"none", "connecting", "open", "closing"}]
    BY <1>8 DEF ConnectResolves, SocketInv, SocketsOK
  <2>4. SocketsOK'
    BY <1>8, <2>1, <2>3 DEF ConnectResolves, SocketInv, SocketsOK
  <2>5. /\ pending[c] \in Nat /\ pending[c] > 0 /\ told[c] # "disconnect"
        /\ UNCHANGED <<alive, told, retries, opened>>
    BY <1>8 DEF ConnectResolves, SocketInv, SocketsOK, SocketFacts
  <2>6. \A d \in Clients \ {c} :
          ws'[d] = ws[d] /\ pending'[d] = pending[d]
            /\ shouldConnect'[d] = shouldConnect[d]
    BY <1>8 DEF ConnectResolves, SocketInv, SocketsOK
  <2>7. /\ shouldConnect'[c] = TRUE
        /\ ws'[c] = IF ws[c] = "none" THEN "connecting" ELSE ws[c]
    BY <1>8 DEF ConnectResolves, MaySetup, SocketInv, SocketsOK
  <2>2. SocketAsWanted'
    BY <2>5, <2>6, <2>7 DEF SocketInv, SocketAsWanted
  <2>9. SocketFacts'
    BY <2>5, <2>6, <2>7 DEF SocketInv, SocketFacts
  <2> QED
    BY <2>9, <2>2, <2>4 DEF SocketInv
<1>9. ASSUME NEW c \in Clients, RetryFires(c) PROVE SocketInv'
  <2>1. SocketsOK'
    BY <1>9 DEF RetryFires, SocketInv, SocketsOK
  <2>5. UNCHANGED <<alive, told, shouldConnect, pending, opened>>
    BY <1>9 DEF RetryFires
  <2>6. \A d \in Clients \ {c} : ws'[d] = ws[d] /\ retries'[d] = retries[d]
    BY <1>9 DEF RetryFires, SocketInv, SocketsOK
  <2>7. ws'[c] = IF shouldConnect[c] /\ ws[c] = "none" THEN "connecting" ELSE ws[c]
    BY <1>9 DEF RetryFires, MaySetup, SocketInv, SocketsOK
  <2>8. told[c] = "disconnect" => ~shouldConnect[c]
    BY DEF SocketInv, SocketFacts
  <2>2. SocketAsWanted'
    BY <2>5, <2>6, <2>7, <2>8 DEF SocketInv, SocketAsWanted
  <2>9. SocketFacts'
    BY <1>9 DEF RetryFires, SocketInv, SocketsOK, SocketFacts
  <2> QED
    BY <2>9, <2>1, <2>2 DEF SocketInv
<1>10. ASSUME NEW c \in Clients, Opens(c) PROVE SocketInv'
  <2>1. SocketsOK'
    BY <1>10, BoundsAssumption DEF Opens, SocketInv, SocketsOK
  <2>2. SocketAsWanted'
    BY <1>10 DEF Opens, SocketInv, SocketsOK, SocketAsWanted
  <2>9. SocketFacts'
    BY <1>10 DEF Opens, SocketInv, SocketsOK, SocketFacts
  <2> QED
    BY <2>9, <2>1, <2>2 DEF SocketInv
<1>11. ASSUME NEW c \in Clients, Closes(c) PROVE SocketInv'
  BY <1>11, CloseEventKeeps DEF Closes
<1>12. ASSUME NEW c \in Clients, Moves(c) \/ ClientReceives(c)
       PROVE  UNCHANGED <<alive, sockets, opened>>
  BY <1>12 DEF Moves, ClientReceives, sockets
<1>13. ASSUME NEW x \in Conns, ServerReceives(x) \/ ServerCloses(x)
       PROVE  UNCHANGED <<alive, sockets, opened>>
  BY <1>13 DEF ServerReceives, ServerCloses, sockets
<1>14. Hibernates => UNCHANGED <<alive, sockets, opened>>
  BY DEF Hibernates, sockets
<1>15. UNCHANGED vars => UNCHANGED <<alive, sockets, opened>>
  BY DEF vars, sockets
<1> QED
  BY <1>1, <1>2, <1>3, <1>4, <1>5, <1>6, <1>7, <1>8, <1>9, <1>10, <1>11, <1>12, <1>13,
     <1>14, <1>15 DEF Next, User, Failure, Departure, Work

(* connect(), disconnect() and the retries beside both: a provider whose    *)
(* last call was disconnect(), with no connect() still awaiting its params, *)
(* brings up no socket, and one that wants to be connected has a socket or  *)
(* a retry to come.                                                         *)
THEOREM ProviderFollowsItsUser == Spec => []SocketAsWanted
<1>1. Init => SocketInv
  BY BoundsAssumption DEF Init, SocketInv, SocketsOK, SocketAsWanted, SocketFacts
<1>2. SocketInv => SocketAsWanted
  BY DEF SocketInv
<1> QED
  BY <1>1, <1>2, SocketInvKept, PTL DEF Spec
-----------------------------------------------------------------------------
(* The operators on replicas and messages.                                  *)

Metas == [clock : Nat, state : States \cup {Null}]
Messages == SUBSET Entries

LEMMA UnknownIsMeta == Unknown \in Metas
BY DEF Unknown, Metas

LEMMA EncodeTyped ==
  ASSUME NEW v \in Replicas, NEW cs \in SUBSET Clients
  PROVE  Encode(v, cs) \in Messages
<1>1. ASSUME NEW c \in cs
      PROVE  [client |-> c, clock |-> v[c].clock, state |-> v[c].state] \in Entries
  <2>1. v[c] \in Metas
    BY DEF Replicas, Metas
  <2> QED
    BY <2>1 DEF Metas, Entries
<1> QED
  BY <1>1 DEF Encode, Messages

LEMMA ForgetTyped ==
  ASSUME NEW v \in Replicas, NEW cs
  PROVE  Forget(v, cs) \in Replicas
<1>1. \A c \in Clients : v[c] \in Metas
  BY DEF Replicas, Metas
<1>2. \A r \in Metas : [r EXCEPT !.state = Null] \in Metas
  BY DEF Metas
<1>3. \A c \in Clients :
        (IF c \in cs THEN [v[c] EXCEPT !.state = Null] ELSE v[c]) \in Metas
  BY <1>1, <1>2
<1> QED
  BY <1>3 DEF Forget, Replicas, Metas

LEMMA BumpedTyped ==
  ASSUME NEW v \in Replicas, NEW c \in Clients
  PROVE  Bumped(v, c) \in Replicas
<1>1. v \in [Clients -> Metas]
  BY DEF Replicas, Metas
<1>2. \A r \in Metas : [r EXCEPT !.clock = r.clock + 1] \in Metas
  BY DEF Metas
<1>3. [v[c] EXCEPT !.clock = v[c].clock + 1] \in Metas
  BY <1>1, <1>2
<1>4. Bumped(v, c) = [v EXCEPT ![c] = [v[c] EXCEPT !.clock = v[c].clock + 1]]
  BY <1>1 DEF Bumped, Metas
<1>5. Bumped(v, c) \in [Clients -> Metas]
  BY <1>1, <1>3, <1>4
<1> QED
  BY <1>5 DEF Replicas, Metas

LEMMA ApplyTyped ==
  ASSUME NEW v \in Replicas, NEW self, NEW m \in Messages
  PROVE  ApplyUpdate(v, self, m) \in Replicas
<1>1. ASSUME NEW c \in Clients
      PROVE  ApplyUpdate(v, self, m)[c] \in Metas
  <2>1. v[c] \in Metas
    BY DEF Replicas, Metas
  <2>2. CASE \E e \in News(v, m) : e.client = c
    <3> DEFINE e == CHOOSE x \in News(v, m) : x.client = c
    <3>1. e \in News(v, m)
      BY <2>2
    <3>2. e \in Entries
      BY <3>1 DEF News, Messages
    <3>3. ApplyUpdate(v, self, m)[c] =
            IF Resists(self, e) THEN [v[c] EXCEPT !.clock = e.clock + 1]
            ELSE [clock |-> e.clock, state |-> e.state]
      BY <2>2 DEF ApplyUpdate
    <3> HIDE DEF e
    <3>4. [v[c] EXCEPT !.clock = e.clock + 1] \in Metas
      BY <2>1, <3>2 DEF Metas, Entries
    <3>5. [clock |-> e.clock, state |-> e.state] \in Metas
      BY <3>2 DEF Metas, Entries
    <3> QED
      BY <3>3, <3>4, <3>5
  <2>3. CASE ~\E e \in News(v, m) : e.client = c
    <3>1. ApplyUpdate(v, self, m)[c] = v[c]
      BY <2>3 DEF ApplyUpdate
    <3> QED
      BY <2>1, <3>1
  <2> QED
    BY <2>2, <2>3
<1>2. ApplyUpdate(v, self, m) = [c \in Clients |-> ApplyUpdate(v, self, m)[c]]
  BY DEF ApplyUpdate
<1> QED
  BY <1>1, <1>2 DEF Replicas, Metas

LEMMA ForgetOthersTyped ==
  ASSUME NEW v \in Replicas, NEW c
  PROVE  ForgetOthers(v, c) \in Replicas
<1>1. \A d \in Clients : v[d] \in Metas
  BY DEF Replicas, Metas
<1> QED
  BY <1>1, UnknownIsMeta DEF ForgetOthers, Replicas, Metas

LEMMA SubsetsTyped ==
  ASSUME NEW v \in Replicas, NEW m \in Messages
  PROVE  Present(v) \subseteq Clients /\ Added(v, m) \subseteq Clients
           /\ Removed(v, m) \subseteq Clients /\ Changed(v, m) \subseteq Clients
<1>1. \A e \in News(v, m) : e.client \in Clients
  BY DEF News, Messages, Entries
<1> QED
  BY <1>1 DEF Present, Added, Removed, Changed

Channels == [Conns -> Seq(Messages)]

LEMMA SentTyped ==
  ASSUME NEW f \in Channels, NEW x, NEW m \in Messages
  PROVE  [f EXCEPT ![x] = Append(@, m)] \in Channels
<1>1. \A q \in Seq(Messages) : Append(q, m) \in Seq(Messages)
  OBVIOUS
<1> HIDE DEF Messages
<1> QED
  BY <1>1 DEF Channels

LEMMA BroadcastTyped ==
  ASSUME toServer \in Channels, NEW c, NEW m \in Messages
  PROVE  Broadcast(c, m) \in Channels
BY SentTyped DEF Broadcast

LEMMA ToAllTyped ==
  ASSUME NEW f \in Channels, NEW m \in Messages
  PROVE  ToAll(f, m) \in Channels
<1>1. \A q \in Seq(Messages) : Append(q, m) \in Seq(Messages)
  OBVIOUS
<1> HIDE DEF Messages
<1> QED
  BY <1>1 DEF ToAll, Channels

LEMMA TruncatedTyped ==
  ASSUME NEW q \in Seq(Messages), NEW p \in Truncated(q)
  PROVE  p \in Seq(Messages)
<1>1. \A i \in 0..Len(q) : SubSeq(q, 1, i) \in Seq(Messages)
  BY DEF Messages
<1> QED
  BY <1>1 DEF Truncated

LEMMA TailTyped ==
  ASSUME NEW f \in Channels, NEW x \in Conns, f[x] # <<>>
  PROVE  Head(f[x]) \in Messages /\ [f EXCEPT ![x] = Tail(@)] \in Channels
<1>1. \A q \in Seq(Messages) :
        q # <<>> => Head(q) \in Messages /\ Tail(q) \in Seq(Messages)
  OBVIOUS
<1> HIDE DEF Messages
<1> QED
  BY <1>1 DEF Channels

(* The rest of the types, in these terms.                                   *)
Typed ==
  /\ view \in [Clients -> Replicas] /\ sview \in Replicas
  /\ ids \in [Conns -> SUBSET Clients]
  /\ link \in [Conns -> {"none", "up", "ended"}]
  /\ toServer \in Channels /\ toClient \in Channels
  /\ events \in [Clients -> Nat] /\ hibernated \in BOOLEAN

LEMMA TypedIsTypeOK == SocketsOK => (Typed <=> TypeOK)
BY DEF Typed, TypeOK, PresenceOK, LinksOK, BoundsOK, Channels, Messages

LEMMA BreaksTyped ==
  ASSUME Typed, NEW c \in Clients, Breaks(c)
  PROVE  /\ link' \in [Conns -> {"none", "up", "ended"}]
         /\ toServer' \in Channels /\ toClient' \in Channels
<1>1. PICK sent \in Truncated(toServer[Current(c)]) :
        toServer' = [toServer EXCEPT ![Current(c)] = sent]
  BY DEF Breaks
<1>2. Current(c) \in Conns => sent \in Seq(Messages)
  BY TruncatedTyped DEF Typed, Channels
<1>3. toServer' \in Channels
  BY <1>1, <1>2 DEF Typed, Channels
<1>4. toClient' \in Channels
  <2>1. <<>> \in Seq(Messages)
    OBVIOUS
  <2> HIDE DEF Messages
  <2> QED
    BY <2>1 DEF Breaks, Typed, Channels
<1> QED
  BY <1>3, <1>4 DEF Breaks, Typed

LEMMA EventCounted ==
  ASSUME Typed, NEW c \in Clients
  PROVE  [events EXCEPT ![c] = @ + 1] \in [Clients -> Nat]
BY DEF Typed

LEMMA TypedKept == SocketInv /\ Typed /\ [Next]_vars => Typed'
<1> SUFFICES ASSUME SocketInv, Typed, [Next]_vars PROVE Typed'
  OBVIOUS
<1>1. \A c \in Clients : view[c] \in Replicas
  BY DEF Typed
<1>2. <<>> \in Seq(Messages)
  OBVIOUS
<1>3. ASSUME NEW c \in Clients, CloseEvent(c)
      PROVE  view' \in [Clients -> Replicas]
  BY <1>1, <1>3, ForgetOthersTyped DEF CloseEvent, Typed
<1>4. ASSUME NEW c \in Clients, Connect(c) \/ ConnectRejects(c) PROVE Typed'
  BY <1>4, EventCounted DEF Connect, ConnectRejects, Typed, links
<1>5. ASSUME NEW c \in Clients, Disconnect(c) PROVE Typed'
  <2>1. Farewell(c) \in Messages
    <3>1. view[c][c] \in Metas
      BY <1>1 DEF Replicas, Metas
    <3> QED
      BY <3>1 DEF Farewell, Messages, Entries, Metas
  <2>2. toServer' \in Channels
    BY <1>5, <2>1, BroadcastTyped DEF Disconnect, Typed
  <2>3. /\ link' \in [Conns -> {"none", "up", "ended"}]
        /\ toClient' \in Channels
    <3> HIDE DEF Messages
    <3> QED
      BY <1>2, <1>5 DEF Disconnect, Typed, Channels
  <2> QED
    BY <1>5, <2>2, <2>3, EventCounted DEF Disconnect, Typed
<1>6. ASSUME NEW c \in Clients, Moves(c) PROVE Typed'
  <2>1. events' \in [Clients -> Nat] /\ events'[c] \in Nat
    BY <1>6, EventCounted DEF Moves
  <2>2. view' \in [Clients -> Replicas]
    <3>1. view[c][c] \in Metas /\ view[c] \in [Clients -> Metas]
      BY <1>1 DEF Replicas, Metas
    <3> DEFINE r == [clock |-> view[c][c].clock + 1, state |-> events'[c]]
    <3>2. r \in Metas
      BY <2>1, <3>1 DEF Metas, States
    <3> HIDE DEF r
    <3>3. [view[c] EXCEPT ![c] = r] \in Replicas
      BY <3>1, <3>2 DEF Replicas, Metas
    <3>4. view' = [view EXCEPT ![c] = [view[c] EXCEPT ![c] = r]]
      BY <1>6 DEF Moves, Typed, r
    <3> QED
      BY <3>3, <3>4 DEF Typed
  <2>3. toServer' \in Channels
    BY <1>6, <2>2, EncodeTyped, BroadcastTyped DEF Moves, Typed
  <2> QED
    BY <1>6, <2>1, <2>2, <2>3 DEF Moves, Typed
<1>7. ASSUME NEW c \in Clients, ConnectFails(c) PROVE Typed'
  BY <1>3, <1>7, EventCounted DEF ConnectFails, Typed, links
<1>8. ASSUME NEW c \in Clients, Drops(c) PROVE Typed'
  BY <1>3, <1>8, BreaksTyped, EventCounted DEF Drops, Typed
<1>9. ASSUME NEW c \in Clients, Leaves(c) PROVE Typed'
  BY <1>9, BreaksTyped, EventCounted DEF Leaves, Typed, links
<1>10. ASSUME NEW c \in Clients, Unloads(c) PROVE Typed'
  <2>1. /\ link' \in [Conns -> {"none", "up", "ended"}]
        /\ toServer' \in Channels /\ toClient' \in Channels
    <3>1. CASE ws[c] = "open"
      <4>1. Encode(Bumped(Forget(view[c], {c}), c), {c}) \in Messages
        BY <1>1, ForgetTyped, BumpedTyped, EncodeTyped
      <4>2. toServer' \in Channels
        BY <1>10, <3>1, <4>1, BroadcastTyped DEF Unloads, Typed
      <4> HIDE DEF Messages
      <4> QED
        BY <1>2, <1>10, <3>1, <4>2 DEF Unloads, Typed, Channels
    <3>2. CASE ws[c] # "open"
      BY <1>10, <3>2 DEF Unloads, Typed, links
    <3> QED
      BY <3>1, <3>2
  <2> QED
    BY <1>10, <2>1, EventCounted DEF Unloads, Typed
<1>11. ASSUME NEW c \in Clients, ConnectResolves(c) \/ RetryFires(c) PROVE Typed'
  BY <1>11 DEF ConnectResolves, RetryFires, Typed, links, bounds
<1>12. ASSUME NEW c \in Clients, Opens(c) PROVE Typed'
  <2>1. view' \in [Clients -> Replicas] /\ view'[c] \in Replicas
    BY <1>1, <1>12, BumpedTyped DEF Opens, Typed
  <2>2. Hello(view'[c], c) \in Seq(Messages)
    <3>1. Encode(view'[c], {c}) \in Messages
      BY <2>1, EncodeTyped
    <3> HIDE DEF Messages
    <3> QED
      BY <3>1 DEF Hello
  <2>3. Greeting(sview) \in Seq(Messages)
    <3>1. Encode(sview, Present(sview)) \in Messages
      BY EncodeTyped DEF Typed, Present
    <3> HIDE DEF Messages
    <3> QED
      BY <1>2, <3>1 DEF Greeting
  <2>4. toServer' \in Channels /\ toClient' \in Channels
          /\ link' \in [Conns -> {"none", "up", "ended"}]
    <3> HIDE DEF Messages
    <3> QED
      BY <1>12, <2>2, <2>3 DEF Opens, Typed, Channels
  <2> QED
    BY <1>12, <2>1, <2>4 DEF Opens, Typed, bounds
<1>13. ASSUME NEW c \in Clients, Closes(c) PROVE Typed'
  BY <1>3, <1>13 DEF Closes, Typed, links, bounds
<1>14. ASSUME NEW c \in Clients, ClientReceives(c) PROVE Typed'
  <2> DEFINE x == Current(c)
             m == Head(toClient[x])
  <2>1. x \in Conns
    BY <1>14, BoundsAssumption
    DEF ClientReceives, SocketInv, SocketsOK, SocketFacts, Current, Conns
  <2>2. m \in Messages /\ toClient' \in Channels
    BY <1>14, <2>1, TailTyped DEF ClientReceives, Typed
  <2>3. view' \in [Clients -> Replicas] /\ view'[c] \in Replicas
    <3>1. ApplyUpdate(view[c], c, m) \in Replicas
      BY <1>1, <2>2, ApplyTyped
    <3> QED
      BY <1>14, <3>1 DEF ClientReceives, Applies, Typed
  <2>4. toServer' \in Channels
    <3>1. Encode(view'[c], Changed(view[c], m)) \in Messages
      BY <1>1, <2>2, <2>3, SubsetsTyped, EncodeTyped
    <3> QED
      BY <1>14, <3>1, BroadcastTyped DEF ClientReceives, Applies, Typed
  <2> QED
    BY <1>14, <2>2, <2>3, <2>4 DEF ClientReceives, Typed, bounds
<1>15. ASSUME NEW x \in Conns, ServerReceives(x) PROVE Typed'
  <2> DEFINE m == Head(toServer[x])
  <2>1. m \in Messages /\ toServer' \in Channels
    BY <1>15, TailTyped DEF ServerReceives, Typed
  <2>2. sview' \in Replicas
    BY <1>15, <2>1, ApplyTyped DEF ServerReceives, Typed
  <2>3. ids' \in [Conns -> SUBSET Clients]
    BY <1>15, <2>1, SubsetsTyped DEF ServerReceives, TrackIds, Typed
  <2>4. toClient' \in Channels
    BY <1>15, <2>1, ToAllTyped DEF ServerReceives, Typed
  <2> QED
    BY <1>15, <2>1, <2>2, <2>3, <2>4 DEF ServerReceives, Typed, bounds
<1>16. ASSUME NEW x \in Conns, ServerCloses(x) PROVE Typed'
  <2>1. sview' \in Replicas
    BY <1>16, ForgetTyped DEF ServerCloses, Typed
  <2>2. Leavers(x) \subseteq Clients
    BY DEF Leavers, Present
  <2>3. toClient' \in Channels
    BY <1>16, <2>1, <2>2, EncodeTyped, ToAllTyped DEF ServerCloses, Announce, Typed
  <2>4. link' \in [Conns -> {"none", "up", "ended"}]
    BY <1>16 DEF ServerCloses, Typed
  <2> QED
    BY <1>16, <2>1, <2>3, <2>4 DEF ServerCloses, Typed, bounds
<1>17. ASSUME Hibernates PROVE Typed'
  <2>1. events' \in [Clients -> Nat]
    BY <1>17, EventCounted DEF Hibernates
  <2>2. sview' \in Replicas
    BY <1>17, UnknownIsMeta DEF Hibernates, Replicas, Metas
  <2> QED
    BY <1>17, <2>1, <2>2 DEF Hibernates, Typed, links
<1>18. CASE UNCHANGED vars
  BY <1>18 DEF vars, links, bounds, Typed
<1> QED
  BY <1>4, <1>5, <1>6, <1>7, <1>8, <1>9, <1>10, <1>11, <1>12, <1>13, <1>14, <1>15,
     <1>16, <1>17, <1>18 DEF Next, User, Failure, Departure, Work

LEMMA InitTyped == Init => Typed
<1> SUFFICES ASSUME Init PROVE Typed
  OBVIOUS
<1>1. view \in [Clients -> Replicas]
  <2>1. [clock |-> 0, state |-> 0] \in Metas
    BY DEF Metas, States
  <2> QED
    BY <2>1, UnknownIsMeta DEF Init, Replicas, Metas
<1>2. sview \in Replicas
  BY UnknownIsMeta DEF Init, Replicas, Metas
<1>3. toServer \in Channels /\ toClient \in Channels
  <2>1. <<>> \in Seq(Messages)
    OBVIOUS
  <2> HIDE DEF Messages
  <2> QED
    BY <2>1 DEF Init, Channels
<1> QED
  BY <1>1, <1>2, <1>3 DEF Init, Typed

(* Every replica, message and channel keeps its type; a socket that is open *)
(* was counted.                                                             *)
THEOREM TypeCorrect == Spec => []TypeOK
<1>1. Init => SocketInv
  BY BoundsAssumption DEF Init, SocketInv, SocketsOK, SocketAsWanted, SocketFacts
<1>2. SocketInv /\ Typed => TypeOK
  BY TypedIsTypeOK DEF SocketInv
<1> QED
  BY <1>1, <1>2, InitTyped, SocketInvKept, TypedKept, PTL DEF Spec
-----------------------------------------------------------------------------
(* Why the server forgets.  A client is young while it has only its first   *)
(* connection.  All that others hold or send of its presence has been past  *)
(* the server, so its clock is not above the server's, and is a removal     *)
(* only when the connection has ended and its last message was handled.     *)

Young(c) == ~hibernated /\ opened[c] <= 1
First(c) == <<c, 1>>
Gone(c) == opened[c] = 1 /\ link[First(c)] # "up" /\ toServer[First(c)] = <<>>

Past(e) ==
  /\ e.clock <= sview[e.client].clock
  /\ e.state = Null => Gone(e.client)
Echo(m) == \A e \in m : Young(e.client) => Past(e)

(* A message speaks once of each client.                                    *)
Unique(m) == \A e, f \in m : e.client = f.client => e = f

LinkInv ==
  /\ \A c \in Clients : ws[c] = "open" => link[Current(c)] = "up"
  /\ \A x \in Conns : link[x] # "none" => x[2] <= opened[x[1]]

(* What reaches clients is an echo; so is what reaches the server but on    *)
(* the client's own connection, where a removal comes last.                 *)
DownInv ==
  \A x \in Conns : \A i \in DOMAIN toClient[x] :
    Unique(toClient[x][i]) /\ Echo(toClient[x][i])
UpInv ==
  \A x \in Conns : \A i \in DOMAIN toServer[x] :
    /\ Unique(toServer[x][i])
    /\ \A e \in toServer[x][i] : Young(e.client) =>
         \/ x # First(e.client) /\ Past(e)
         \/ x = First(e.client) /\
              (e.state = Null => i = Len(toServer[x]) /\ link[x] # "up")

ViewInv ==
  \A c, d \in Clients :
    IF c = d THEN view[c][c].state # Null
    ELSE Young(d) =>
           /\ view[c][d].clock <= sview[d].clock
           /\ view[c][d].state = Null => view[c][d].clock = 0 \/ Gone(d)

(* Whom the server sees is noted for the right connection.                  *)
ServerInv ==
  \A c \in Clients : Young(c) =>
    /\ sview[c].state # Null => c \in ids[First(c)] /\ link[First(c)] # "none"
    /\ sview[c].state = Null => sview[c].clock = 0 \/ Gone(c)
    /\ \A x \in Conns : c \in ids[x] => x = First(c)

ForgetInv == LinkInv /\ DownInv /\ UpInv /\ ViewInv /\ ServerInv

AllInv == SocketInv /\ Typed /\ ForgetInv

(* What the client may put into its own connection.                         *)
Sendable(c, m) ==
  /\ Unique(m)
  /\ \A e \in m : IF e.client = c THEN e.state = Null => link'[Current(c)] # "up"
                  ELSE Young(e.client) => Past(e)

(* Whatever a client does with its connection, short of opening another.    *)
ClientStep(c) ==
  /\ UNCHANGED <<sview, ids, opened, hibernated>>
  /\ \A x \in Conns \ {Current(c)} :
       /\ link'[x] = link[x] /\ toServer'[x] = toServer[x]
       /\ toClient'[x] = toClient[x]
  /\ ws[c] # "open" => UNCHANGED <<link, toServer, toClient>>
  /\ \A d \in Clients \ {c} : ws'[d] = ws[d] /\ view'[d] = view[d]
  /\ ws'[c] = "open" => ws[c] = "open" /\ link'[Current(c)] = "up"
  /\ ws[c] = "open" => link'[Current(c)] \in {"up", "ended"}
  /\ \A i \in DOMAIN toClient'[Current(c)] : \E j \in DOMAIN toClient[Current(c)] :
       toClient'[Current(c)][i] = toClient[Current(c)][j]
  /\ ws[c] = "open" => \A i \in DOMAIN toServer'[Current(c)] :
       \/ \E j \in DOMAIN toServer[Current(c)] :
            toServer'[Current(c)][i] = toServer[Current(c)][j]
       \/ /\ i = Len(toServer'[Current(c)])
          /\ Sendable(c, toServer'[Current(c)][i])
  /\ view'[c][c].state # Null
  /\ \A d \in Clients \ {c} :
       \/ view'[c][d] = view[c][d]
       \/ view'[c][d] = Unknown
       \/ Young(d) => /\ view'[c][d].clock <= sview[d].clock
                      /\ view'[c][d].state = Null => view'[c][d].clock = 0 \/ Gone(d)

LEMMA ConnFacts ==
  ASSUME SocketInv, NEW c \in Clients
  PROVE  /\ First(c) \in Conns /\ opened[c] \in Nat
         /\ \A x \in Conns : x = <<x[1], x[2]>> /\ x[1] \in Clients /\ x[2] \in 1..MaxConns
         /\ ws[c] = "open" => Current(c) \in Conns /\ opened[c] >= 1
         /\ \A d \in Clients : d # c => First(d) # Current(c) /\ First(d) # First(c)
         /\ opened[c] = 1 => Current(c) = First(c)
         /\ Current(c) = First(c) => opened[c] = 1
BY BoundsAssumption DEF SocketInv, SocketsOK, SocketFacts, Conns, First, Current

LEMMA ClientStepKeeps ==
  ASSUME AllInv, Typed', NEW c \in Clients, ClientStep(c)
  PROVE  ForgetInv'
<1> DEFINE x == Current(c)
<1>1. SocketInv /\ Typed /\ LinkInv /\ DownInv /\ UpInv /\ ViewInv /\ ServerInv
  BY DEF AllInv, ForgetInv
<1>2. UNCHANGED <<sview, ids, opened, hibernated>>
  BY DEF ClientStep
<1>3. \A d \in Clients : (Young(d)' <=> Young(d)) /\ First(d)' = First(d)
                           /\ Current(d)' = Current(d)
  BY <1>2 DEF Young, First, Current
<1>4. ASSUME NEW d \in Clients, Gone(d) PROVE Gone(d)'
  <2>1. CASE First(d) # x
    BY <1>1, <1>2, <1>3, <1>4, <2>1, ConnFacts DEF ClientStep, Gone
  <2>2. CASE First(d) = x
    <3>1. d = c /\ opened[c] = 1
      BY <1>1, <2>2, ConnFacts
    <3>2. ws[c] # "open"
      BY <1>1, <1>4, <2>2, <3>1 DEF LinkInv, Gone
    <3> QED
      BY <1>2, <1>3, <1>4, <3>2 DEF ClientStep, Gone
  <2> QED
    BY <2>1, <2>2
<1>5. ASSUME NEW e, e.client \in Clients, Past(e) PROVE Past(e)'
  BY <1>2, <1>4, <1>5 DEF Past
<1>6. \A y \in Conns : \A i \in DOMAIN toClient[y] : \A e \in toClient[y][i] :
        e.client \in Clients
  BY <1>1 DEF Typed, Channels, Messages, Entries
<1>7. \A y \in Conns : \A i \in DOMAIN toServer[y] : \A e \in toServer[y][i] :
        e.client \in Clients
  BY <1>1 DEF Typed, Channels, Messages, Entries
<1>8. LinkInv'
  <2>1. ASSUME NEW d \in Clients, ws'[d] = "open" PROVE link'[Current(d)] = "up"
    <3>1. CASE d = c
      BY <2>1, <3>1 DEF ClientStep
    <3>2. CASE d # c
      <4>1. ws[d] = "open" /\ link[Current(d)] = "up"
        BY <1>1, <2>1, <3>2 DEF ClientStep, LinkInv
      <4>2. Current(d) \in Conns /\ Current(d) # x
        BY <1>1, <3>2, <4>1, ConnFacts DEF Current
      <4> QED
        BY <4>1, <4>2 DEF ClientStep
    <3> QED
      BY <3>1, <3>2
  <2>2. ASSUME NEW y \in Conns, link'[y] # "none" PROVE y[2] <= opened[y[1]]
    <3>1. CASE link[y] # "none"
      BY <1>1, <3>1 DEF LinkInv
    <3>2. CASE link[y] = "none"
      BY <1>1, <2>2, <3>2 DEF ClientStep, LinkInv
    <3> QED
      BY <3>1, <3>2
  <2> QED
    BY <1>2, <1>3, <2>1, <2>2 DEF LinkInv
<1>9. DownInv'
  <2>1. ASSUME NEW y \in Conns, NEW i \in DOMAIN toClient'[y]
        PROVE  \E j \in DOMAIN toClient[y] : toClient'[y][i] = toClient[y][j]
    BY DEF ClientStep
  <2>2. ASSUME NEW y \in Conns, NEW i \in DOMAIN toClient'[y]
        PROVE  /\ Unique(toClient'[y][i])
               /\ \A e \in toClient'[y][i] : Young(e.client)' => Past(e)'
    <3>1. PICK j \in DOMAIN toClient[y] : toClient'[y][i] = toClient[y][j]
      BY <2>1, <2>2
    <3>2. Unique(toClient[y][j]) /\ Echo(toClient[y][j])
      BY <1>1 DEF DownInv
    <3>3. ASSUME NEW e \in toClient[y][j], Young(e.client)' PROVE Past(e)'
      BY <1>3, <1>5, <1>6, <3>2, <3>3 DEF Echo
    <3> QED
      BY <3>1, <3>2, <3>3
  <2> QED
    BY <2>2 DEF DownInv, Unique, Echo
<1>10. UpInv'
  <2> SUFFICES ASSUME NEW y \in Conns, NEW i \in DOMAIN toServer'[y]
      PROVE  /\ Unique(toServer'[y][i])
             /\ \A e \in toServer'[y][i] : Young(e.client)' =>
                  \/ y # First(e.client) /\ Past(e)'
                  \/ y = First(e.client) /\
                       (e.state = Null => i = Len(toServer'[y]) /\ link'[y] # "up")
    BY <1>3 DEF UpInv, Unique, First
  <2>1. CASE toServer'[y] = toServer[y] /\ link'[y] = link[y]
    <3>1. Unique(toServer[y][i]) /\ \A e \in toServer[y][i] : Young(e.client) =>
            \/ y # First(e.client) /\ Past(e)
            \/ y = First(e.client) /\
                 (e.state = Null => i = Len(toServer[y]) /\ link[y] # "up")
      BY <1>1, <2>1 DEF UpInv
    <3> QED
      BY <1>3, <1>5, <1>7, <2>1, <3>1
  <2>2. CASE y = x /\ ws[c] = "open"
    <3>1. link[y] = "up" /\ opened[c] >= 1
      BY <1>1, <2>2, ConnFacts DEF LinkInv
    <3>2. ASSUME NEW j \in DOMAIN toServer[y], toServer'[y][i] = toServer[y][j]
          PROVE  /\ Unique(toServer'[y][i])
                 /\ \A e \in toServer'[y][i] : Young(e.client)' =>
                      \/ y # First(e.client) /\ Past(e)'
                      \/ y = First(e.client) /\
                           (e.state = Null => i = Len(toServer'[y]) /\ link'[y] # "up")
      <4>1. Unique(toServer[y][j]) /\ \A e \in toServer[y][j] : Young(e.client) =>
              \/ y # First(e.client) /\ Past(e)
              \/ y = First(e.client) /\ e.state # Null
        BY <1>1, <3>1 DEF UpInv
      <4> QED
        BY <1>3, <1>5, <1>7, <3>2, <4>1
    <3>3. ASSUME i = Len(toServer'[y]), Sendable(c, toServer'[y][i])
          PROVE  /\ Unique(toServer'[y][i])
                 /\ \A e \in toServer'[y][i] : Young(e.client)' =>
                      \/ y # First(e.client) /\ Past(e)'
                      \/ y = First(e.client) /\
                           (e.state = Null => i = Len(toServer'[y]) /\ link'[y] # "up")
      <4>1. \A e \in toServer'[y][i] : e.client \in Clients
        BY DEF Typed, Channels, Messages, Entries
      <4>2. ASSUME NEW e \in toServer'[y][i], Young(e.client)', e.client # c
            PROVE  y # First(e.client) /\ Past(e)'
        BY <1>1, <1>3, <1>5, <2>2, <3>3, <4>1, <4>2, ConnFacts DEF Sendable
      <4>3. ASSUME NEW e \in toServer'[y][i], Young(e.client)', e.client = c
            PROVE  /\ y = First(c)
                   /\ e.state = Null => link'[y] # "up"
        <5>1. opened[c] = 1
          BY <1>1, <1>3, <3>1, <4>3, ConnFacts DEF Young
        <5> QED
          BY <1>1, <2>2, <3>3, <4>3, <5>1, ConnFacts DEF Sendable
      <4> QED
        BY <3>3, <4>2, <4>3 DEF Sendable
    <3> QED
      BY <2>2, <3>2, <3>3 DEF ClientStep
  <2> QED
    BY <2>1, <2>2 DEF ClientStep
<1>11. ViewInv'
  <2>1. ASSUME NEW b \in Clients, view'[b][b].state = Null PROVE FALSE
    BY <1>1, <2>1 DEF ClientStep, ViewInv
  <2>2. ASSUME NEW b \in Clients, NEW d \in Clients, b # d, Young(d)'
        PROVE  /\ view'[b][d].clock <= sview[d].clock
               /\ view'[b][d].state = Null => view'[b][d].clock = 0 \/ Gone(d)'
    <3>1. view'[b][d] = view[b][d] =>
             /\ view'[b][d].clock <= sview[d].clock
             /\ view'[b][d].state = Null => view'[b][d].clock = 0 \/ Gone(d)
      BY <1>1, <1>3, <2>2 DEF ViewInv
    <3>2. view'[b][d] = Unknown =>
             /\ view'[b][d].clock <= sview[d].clock
             /\ view'[b][d].state = Null => view'[b][d].clock = 0 \/ Gone(d)
      BY <1>1 DEF Unknown, Typed, Replicas
    <3> QED
      BY <1>3, <1>4, <2>2, <3>1, <3>2 DEF ClientStep
  <2> QED
    BY <1>2, <2>1, <2>2 DEF ViewInv
<1>12. ServerInv'
  <2> SUFFICES ASSUME NEW d \in Clients, Young(d)
      PROVE  /\ sview[d].state # Null => d \in ids[First(d)] /\ link'[First(d)] # "none"
             /\ sview[d].state = Null => sview[d].clock = 0 \/ Gone(d)'
             /\ \A y \in Conns : d \in ids[y] => y = First(d)
    BY <1>2, <1>3 DEF ServerInv
  <2>1. link[First(d)] # "none" => link'[First(d)] # "none"
    BY <1>1, ConnFacts DEF ClientStep
  <2> QED
    BY <1>1, <1>4, <2>1 DEF ServerInv
<1> QED
  BY <1>8, <1>9, <1>10, <1>11, <1>12 DEF ForgetInv

LEMMA AppendFacts ==
  ASSUME NEW q \in Seq(Messages), NEW m \in Messages,
         NEW i \in DOMAIN Append(q, m)
  PROVE  \/ \E j \in DOMAIN q : Append(q, m)[i] = q[j]
         \/ i = Len(Append(q, m)) /\ Append(q, m)[i] = m
<1> HIDE DEF Messages
<1>1. Len(q) \in Nat /\ DOMAIN q = 1..Len(q) /\ Len(Append(q, m)) = Len(q) + 1
        /\ i \in 1..(Len(q) + 1)
  OBVIOUS
<1>2. CASE i \in 1..Len(q)
  BY <1>1, <1>2
<1>3. CASE i = Len(q) + 1
  BY <1>1, <1>3
<1> QED
  BY <1>1, <1>2, <1>3

LEMMA TruncatedFacts ==
  ASSUME NEW q \in Seq(Messages), NEW p \in Truncated(q), NEW i \in DOMAIN p
  PROVE  \E j \in DOMAIN q : p[i] = q[j]
<1> HIDE DEF Messages
<1>1. PICK n \in 0..Len(q) : p = SubSeq(q, 1, n)
  BY DEF Truncated
<1>2. i \in 1..n /\ p[i] = q[i] /\ i \in DOMAIN q
  BY <1>1
<1> QED
  BY <1>2

LEMMA BroadcastFacts ==
  ASSUME SocketInv, Typed, NEW c \in Clients, NEW m \in Messages
  PROVE  /\ ws[c] # "open" => Broadcast(c, m) = toServer
         /\ \A x \in Conns \ {Current(c)} : Broadcast(c, m)[x] = toServer[x]
         /\ ws[c] = "open" => \A i \in DOMAIN Broadcast(c, m)[Current(c)] :
              \/ \E j \in DOMAIN toServer[Current(c)] :
                   Broadcast(c, m)[Current(c)][i] = toServer[Current(c)][j]
              \/ /\ i = Len(Broadcast(c, m)[Current(c)])
                 /\ Broadcast(c, m)[Current(c)][i] = m /\ m # {}
<1> DEFINE x == Current(c)
           q == toServer[x]
<1>1. CASE ws[c] = "open" /\ m # {}
  <2>1. x \in Conns /\ q \in Seq(Messages)
    BY <1>1, ConnFacts DEF Typed, Channels
  <2>2. Broadcast(c, m) = [toServer EXCEPT ![x] = Append(q, m)]
    BY <1>1 DEF Broadcast
  <2>3. Broadcast(c, m)[x] = Append(q, m)
          /\ \A y \in Conns \ {x} : Broadcast(c, m)[y] = toServer[y]
    BY <2>1, <2>2 DEF Typed, Channels
  <2>4. \A i \in DOMAIN Append(q, m) :
          \/ \E j \in DOMAIN q : Append(q, m)[i] = q[j]
          \/ i = Len(Append(q, m)) /\ Append(q, m)[i] = m
    BY <2>1, AppendFacts
  <2> HIDE DEF x, q
  <2>5. \A i \in DOMAIN Broadcast(c, m)[x] :
          \/ \E j \in DOMAIN q : Broadcast(c, m)[x][i] = q[j]
          \/ i = Len(Broadcast(c, m)[x]) /\ Broadcast(c, m)[x][i] = m
    BY <2>3, <2>4
  <2> QED
    BY <1>1, <2>3, <2>5 DEF x, q
<1>2. CASE ~(ws[c] = "open" /\ m # {})
  <2>1. Broadcast(c, m) = toServer
    BY <1>2 DEF Broadcast
  <2> QED
    BY <2>1
<1> QED
  BY <1>1, <1>2

LEMMA EncodeFacts ==
  ASSUME NEW v, NEW cs
  PROVE  /\ Unique(Encode(v, cs))
         /\ \A e \in Encode(v, cs) : /\ e.client \in cs
                                     /\ e.clock = v[e.client].clock
                                     /\ e.state = v[e.client].state
BY DEF Encode, Unique

LEMMA ForgetOthersFacts ==
  ASSUME NEW v \in Replicas, NEW c \in Clients
  PROVE  /\ ForgetOthers(v, c)[c] = v[c]
         /\ \A d \in Clients : ForgetOthers(v, c)[d] = v[d]
                                 \/ ForgetOthers(v, c)[d] = Unknown
BY DEF ForgetOthers, Replicas

(* The actions that leave the channels alone.                               *)
LEMMA QuietStep ==
  ASSUME AllInv, NEW c \in Clients,
         UNCHANGED <<link, toServer, toClient, sview, ids, opened, hibernated>>,
         \A d \in Clients \ {c} : ws'[d] = ws[d],
         ws'[c] = "open" => ws[c] = "open",
         view' = view \/ view' = [view EXCEPT ![c] = ForgetOthers(@, c)]
  PROVE  ClientStep(c)
<1>1. view \in [Clients -> Replicas] /\ view[c] \in Replicas
  BY DEF AllInv, Typed
<1>2. /\ view'[c][c] = view[c][c]
      /\ \A d \in Clients \ {c} : view'[c][d] = view[c][d] \/ view'[c][d] = Unknown
      /\ \A d \in Clients \ {c} : view'[d] = view[d]
  BY <1>1, ForgetOthersFacts
<1>3. view'[c][c].state # Null
  BY <1>2 DEF AllInv, ForgetInv, ViewInv
<1>4. ws[c] = "open" => link[Current(c)] = "up"
  BY DEF AllInv, ForgetInv, LinkInv
<1>5. ws'[c] = "open" => ws[c] = "open" /\ link'[Current(c)] = "up"
  BY <1>4
<1> QED
  BY <1>2, <1>3, <1>4, <1>5 DEF ClientStep

(* Those that end the connection, perhaps with a last message.              *)
LEMMA EndingStep ==
  ASSUME AllInv, NEW c \in Clients, ws[c] = "open", ws'[c] # "open",
         UNCHANGED <<sview, ids, opened, hibernated>>,
         \A d \in Clients \ {c} : ws'[d] = ws[d],
         view' = view \/ view' = [view EXCEPT ![c] = ForgetOthers(@, c)],
         link' = [link EXCEPT ![Current(c)] = "ended"],
         toClient' = [toClient EXCEPT ![Current(c)] = <<>>],
         \A x \in Conns \ {Current(c)} : toServer'[x] = toServer[x],
         \A i \in DOMAIN toServer'[Current(c)] :
           \/ \E j \in DOMAIN toServer[Current(c)] :
                toServer'[Current(c)][i] = toServer[Current(c)][j]
           \/ /\ i = Len(toServer'[Current(c)])
              /\ Unique(toServer'[Current(c)][i])
              /\ \A e \in toServer'[Current(c)][i] : e.client = c
  PROVE  ClientStep(c)
<1>1. view \in [Clients -> Replicas] /\ view[c] \in Replicas
  BY DEF AllInv, Typed
<1>2. /\ view'[c][c] = view[c][c]
      /\ \A d \in Clients \ {c} : view'[c][d] = view[c][d] \/ view'[c][d] = Unknown
      /\ \A d \in Clients \ {c} : view'[d] = view[d]
  BY <1>1, ForgetOthersFacts
<1>3. view'[c][c].state # Null
  BY <1>2 DEF AllInv, ForgetInv, ViewInv
<1>4. Current(c) \in Conns
  BY ConnFacts DEF AllInv
<1>5. link'[Current(c)] = "ended" /\ toClient'[Current(c)] = <<>>
        /\ \A x \in Conns \ {Current(c)} :
             link'[x] = link[x] /\ toClient'[x] = toClient[x]
  BY <1>4 DEF AllInv, Typed, Channels
<1>6. \A i \in DOMAIN toServer'[Current(c)] :
        \/ \E j \in DOMAIN toServer[Current(c)] :
             toServer'[Current(c)][i] = toServer[Current(c)][j]
        \/ /\ i = Len(toServer'[Current(c)])
           /\ Sendable(c, toServer'[Current(c)][i])
  BY <1>5 DEF Sendable
<1>7. DOMAIN toClient'[Current(c)] = {}
  BY <1>5
<1> QED
  BY <1>2, <1>3, <1>5, <1>6, <1>7 DEF ClientStep

LEMMA BreaksFacts ==
  ASSUME SocketInv, Typed, NEW c \in Clients, ws[c] = "open", Breaks(c)
  PROVE  /\ link' = [link EXCEPT ![Current(c)] = "ended"]
         /\ toClient' = [toClient EXCEPT ![Current(c)] = <<>>]
         /\ \A x \in Conns \ {Current(c)} : toServer'[x] = toServer[x]
         /\ \A i \in DOMAIN toServer'[Current(c)] :
              \E j \in DOMAIN toServer[Current(c)] :
                toServer'[Current(c)][i] = toServer[Current(c)][j]
<1>1. Current(c) \in Conns
  BY ConnFacts
<1>2. PICK sent \in Truncated(toServer[Current(c)]) :
        toServer' = [toServer EXCEPT ![Current(c)] = sent]
  BY DEF Breaks
<1>3. toServer'[Current(c)] = sent
        /\ \A x \in Conns \ {Current(c)} : toServer'[x] = toServer[x]
  BY <1>1, <1>2 DEF Typed, Channels
<1>4. \A i \in DOMAIN sent : \E j \in DOMAIN toServer[Current(c)] :
        sent[i] = toServer[Current(c)][j]
  BY <1>1, TruncatedFacts DEF Typed, Channels
<1> QED
  BY <1>3, <1>4 DEF Breaks

LEMMA SocketActionsAreSteps ==
  ASSUME AllInv, NEW c \in Clients,
         \/ Connect(c) \/ ConnectRejects(c) \/ ConnectResolves(c) \/ RetryFires(c)
         \/ Closes(c) \/ ConnectFails(c) \/ Disconnect(c) \/ Drops(c) \/ Leaves(c)
         \/ Unloads(c)
  PROVE  ClientStep(c)
<1>1. SocketInv /\ Typed
  BY DEF AllInv
<1>2. ws \in [Clients -> {"none", "connecting", "open", "closing"}]
  BY <1>1 DEF SocketInv, SocketsOK
<1>3. CASE Connect(c) \/ ConnectRejects(c)
  BY <1>3, QuietStep DEF Connect, ConnectRejects, links
<1>4. CASE ConnectResolves(c) \/ RetryFires(c)
  <2>1. \A d \in Clients : ws'[d] = "open" => ws[d] = "open"
    BY <1>2, <1>4 DEF ConnectResolves, RetryFires, MaySetup
  <2>2. \A d \in Clients \ {c} : ws'[d] = ws[d]
    BY <1>2, <1>4 DEF ConnectResolves, RetryFires
  <2> QED
    BY <1>4, <2>1, <2>2, QuietStep DEF ConnectResolves, RetryFires, links, bounds
<1>5. CASE Closes(c) \/ ConnectFails(c)
  <2>1. ws'[c] # "open" /\ \A d \in Clients \ {c} : ws'[d] = ws[d]
    BY <1>2, <1>5 DEF Closes, ConnectFails, CloseEvent
  <2> QED
    BY <1>5, <2>1, QuietStep DEF Closes, ConnectFails, CloseEvent, links, bounds
<1>6. CASE Disconnect(c)
  <2>1. ws'[c] # "open" /\ \A d \in Clients \ {c} : ws'[d] = ws[d]
    BY <1>2, <1>6 DEF Disconnect
  <2>2. Farewell(c) \in Messages
    <3>1. view[c][c] \in Metas
      BY <1>1 DEF Typed, Replicas, Metas
    <3> QED
      BY <3>1 DEF Farewell, Messages, Entries, Metas
  <2>3. Unique(Farewell(c)) /\ \A e \in Farewell(c) : e.client = c
    BY DEF Farewell, Unique
  <2>4. toServer' = Broadcast(c, Farewell(c))
    BY <1>6 DEF Disconnect
  <2>5. CASE ws[c] = "open"
    <3> HIDE DEF Messages
    <3>1. /\ \A x \in Conns \ {Current(c)} : toServer'[x] = toServer[x]
          /\ \A i \in DOMAIN toServer'[Current(c)] :
              \/ \E j \in DOMAIN toServer[Current(c)] :
                   toServer'[Current(c)][i] = toServer[Current(c)][j]
              \/ /\ i = Len(toServer'[Current(c)])
                 /\ toServer'[Current(c)][i] = Farewell(c)
      BY <1>1, <2>2, <2>4, <2>5, BroadcastFacts
    <3>2. \A i \in DOMAIN toServer'[Current(c)] :
              \/ \E j \in DOMAIN toServer[Current(c)] :
                   toServer'[Current(c)][i] = toServer[Current(c)][j]
              \/ /\ i = Len(toServer'[Current(c)])
                 /\ Unique(toServer'[Current(c)][i])
                 /\ \A e \in toServer'[Current(c)][i] : e.client = c
      BY <2>3, <3>1
    <3>3. /\ link' = [link EXCEPT ![Current(c)] = "ended"]
          /\ toClient' = [toClient EXCEPT ![Current(c)] = <<>>]
          /\ UNCHANGED <<view, sview, ids, opened, hibernated>>
      BY <1>6, <2>5 DEF Disconnect
    <3> QED
      BY <2>1, <2>5, <3>1, <3>2, <3>3, EndingStep
  <2>6. CASE ws[c] # "open"
    <3>1. toServer' = toServer
      BY <2>4, <2>6 DEF Broadcast
    <3> QED
      BY <1>6, <2>1, <2>6, <3>1, QuietStep DEF Disconnect
  <2> QED
    BY <2>5, <2>6
<1>7. CASE Drops(c)
  <2>1. ws[c] = "open" /\ Breaks(c) /\ CloseEvent(c)
          /\ UNCHANGED <<sview, ids, opened, hibernated>>
    BY <1>7 DEF Drops
  <2>2. ws'[c] # "open" /\ \A d \in Clients \ {c} : ws'[d] = ws[d]
    BY <1>2, <2>1 DEF CloseEvent
  <2>3. view' = [view EXCEPT ![c] = ForgetOthers(@, c)]
    BY <2>1 DEF CloseEvent
  <2> QED
    BY <1>1, <2>1, <2>2, <2>3, BreaksFacts, EndingStep
<1>8. CASE Leaves(c) \/ Unloads(c)
  <2>1. ws'[c] # "open" /\ \A d \in Clients \ {c} : ws'[d] = ws[d]
    BY <1>2, <1>8 DEF Leaves, Unloads
  <2>2. UNCHANGED <<view, sview, ids, opened, hibernated>>
    BY <1>8 DEF Leaves, Unloads
  <2>3. CASE ws[c] # "open"
    BY <1>8, <2>1, <2>2, <2>3, QuietStep DEF Leaves, Unloads, links
  <2>4. CASE ws[c] = "open" /\ Leaves(c)
    <3>1. Breaks(c)
      BY <2>4 DEF Leaves
    <3> QED
      BY <1>1, <2>1, <2>2, <2>4, <3>1, BreaksFacts, EndingStep
  <2>5. CASE ws[c] = "open" /\ Unloads(c)
    <3> DEFINE v == Bumped(Forget(view[c], {c}), c)
               m == Encode(v, {c})
    <3>1. m \in Messages
      BY <1>1, ForgetTyped, BumpedTyped, EncodeTyped DEF Typed
    <3>2. Unique(m) /\ \A e \in m : e.client = c
      BY EncodeFacts
    <3>3. /\ link' = [link EXCEPT ![Current(c)] = "ended"]
          /\ toClient' = [toClient EXCEPT ![Current(c)] = <<>>]
          /\ toServer' = Broadcast(c, m)
      BY <2>5 DEF Unloads
    <3> HIDE DEF m, Messages
    <3>4. /\ \A x \in Conns \ {Current(c)} : toServer'[x] = toServer[x]
          /\ \A i \in DOMAIN toServer'[Current(c)] :
              \/ \E j \in DOMAIN toServer[Current(c)] :
                   toServer'[Current(c)][i] = toServer[Current(c)][j]
              \/ /\ i = Len(toServer'[Current(c)])
                 /\ toServer'[Current(c)][i] = m
      BY <1>1, <2>5, <3>1, <3>3, BroadcastFacts
    <3>5. \A i \in DOMAIN toServer'[Current(c)] :
              \/ \E j \in DOMAIN toServer[Current(c)] :
                   toServer'[Current(c)][i] = toServer[Current(c)][j]
              \/ /\ i = Len(toServer'[Current(c)])
                 /\ Unique(toServer'[Current(c)][i])
                 /\ \A e \in toServer'[Current(c)][i] : e.client = c
      BY <3>2, <3>4
    <3> QED
      BY <2>1, <2>2, <2>5, <3>3, <3>4, <3>5, EndingStep
  <2> QED
    BY <1>8, <2>3, <2>4, <2>5
<1> QED
  BY <1>3, <1>4, <1>5, <1>6, <1>7, <1>8

(* The actions that change the replica and tell the server.                 *)
LEMMA TellingStep ==
  ASSUME AllInv, NEW c \in Clients, NEW m \in Messages,
         toServer' = Broadcast(c, m),
         ws[c] = "open" => Sendable(c, m),
         UNCHANGED <<ws, link, sview, ids, opened, hibernated>>,
         \A d \in Clients \ {c} : view'[d] = view[d],
         view'[c][c].state # Null,
         \A d \in Clients \ {c} :
           \/ view'[c][d] = view[c][d]
           \/ Young(d) =>
                /\ view'[c][d].clock <= sview[d].clock
                /\ view'[c][d].state = Null => view'[c][d].clock = 0 \/ Gone(d),
         \A x \in Conns \ {Current(c)} : toClient'[x] = toClient[x],
         ws[c] # "open" => toClient' = toClient,
         \A i \in DOMAIN toClient'[Current(c)] : \E j \in DOMAIN toClient[Current(c)] :
           toClient'[Current(c)][i] = toClient[Current(c)][j]
  PROVE  ClientStep(c)
<1> HIDE DEF Messages
<1>1. /\ ws[c] # "open" => toServer' = toServer
      /\ \A x \in Conns \ {Current(c)} : toServer'[x] = toServer[x]
      /\ ws[c] = "open" => \A i \in DOMAIN toServer'[Current(c)] :
              \/ \E j \in DOMAIN toServer[Current(c)] :
                   toServer'[Current(c)][i] = toServer[Current(c)][j]
              \/ /\ i = Len(toServer'[Current(c)])
                 /\ toServer'[Current(c)][i] = m
  BY BroadcastFacts DEF AllInv
<1>2. ws[c] = "open" => link[Current(c)] = "up"
  BY DEF AllInv, ForgetInv, LinkInv
<1>3. ws[c] = "open" => \A i \in DOMAIN toServer'[Current(c)] :
        \/ \E j \in DOMAIN toServer[Current(c)] :
             toServer'[Current(c)][i] = toServer[Current(c)][j]
        \/ /\ i = Len(toServer'[Current(c)])
           /\ Sendable(c, toServer'[Current(c)][i])
  BY <1>1
<1> QED
  BY <1>1, <1>2, <1>3 DEF ClientStep

LEMMA MovesIsStep ==
  ASSUME AllInv, Typed', NEW c \in Clients, Moves(c)
  PROVE  ClientStep(c)
<1> DEFINE m == Encode(view'[c], {c})
<1>1. Typed /\ SocketInv
  BY DEF AllInv
<1>2. m \in Messages
  BY EncodeTyped DEF Typed
<1>3. /\ view'[c][c].state \in Nat
      /\ \A d \in Clients \ {c} : view'[c][d] = view[c][d] /\ view'[d] = view[d]
  <2>1. events'[c] \in Nat
    BY DEF Typed
  <2>2. view[c] \in [Clients -> Metas] /\ view \in [Clients -> Replicas]
    BY <1>1 DEF Typed, Replicas, Metas
  <2> DEFINE r == [clock |-> view[c][c].clock + 1, state |-> events'[c]]
  <2>3. view' = [view EXCEPT ![c] = [view[c] EXCEPT ![c] = r]]
    BY <2>2 DEF Moves
  <2>4. r.state \in Nat
    BY <2>1
  <2> HIDE DEF r
  <2>5. view'[c] = [view[c] EXCEPT ![c] = r]
    BY <2>2, <2>3
  <2> QED
    BY <2>2, <2>3, <2>4, <2>5
<1>4. view'[c][c].state # Null
  BY <1>3 DEF Null
<1>5. Sendable(c, m)
  <2>1. Unique(m) /\ \A e \in m : e.client = c /\ e.state = view'[c][c].state
    BY EncodeFacts
  <2> HIDE DEF m
  <2> QED
    BY <1>4, <2>1 DEF Sendable
<1> HIDE DEF m, Messages
<1>6. /\ toServer' = Broadcast(c, m)
      /\ UNCHANGED <<ws, link, sview, ids, opened, hibernated, toClient>>
  BY DEF Moves, sockets, m
<1> QED
  BY <1>2, <1>3, <1>4, <1>5, <1>6, TellingStep

(* What an entry that is taken leaves, of what was known before.            *)
After(r, self, e) ==
  IF Resists(self, e) THEN [r EXCEPT !.clock = e.clock + 1]
  ELSE [clock |-> e.clock, state |-> e.state]

(* What a message does to what a replica knows of one client.               *)
LEMMA ApplyFacts ==
  ASSUME NEW v \in Replicas, NEW self, NEW m \in Messages, Unique(m), NEW d \in Clients
  PROVE  \/ /\ ApplyUpdate(v, self, m)[d] = v[d]
            /\ d \notin Added(v, m) /\ d \notin Removed(v, m) /\ d \notin Changed(v, m)
            /\ \A e \in m : e.client = d => ~IsNews(v, e)
         \/ \E e \in m :
              /\ e.client = d /\ IsNews(v, e)
              /\ ApplyUpdate(v, self, m)[d] = After(v[d], self, e)
              /\ d \in Added(v, m) <=> v[d].clock = 0 /\ e.state # Null
              /\ d \in Removed(v, m) <=> v[d].clock > 0 /\ e.state = Null
              /\ \A f \in m : f.client = d => f = e
<1>1. CASE \E e \in News(v, m) : e.client = d
  <2> DEFINE e == CHOOSE x \in News(v, m) : x.client = d
  <2>1. e \in News(v, m) /\ e.client = d
    BY <1>1
  <2>2. ApplyUpdate(v, self, m)[d] = After(v[d], self, e)
    BY <1>1 DEF ApplyUpdate, After
  <2> HIDE DEF e
  <2>3. e \in m /\ IsNews(v, e)
    BY <2>1 DEF News
  <2>4. \A f \in m : f.client = d => f = e
    BY <2>1, <2>3 DEF Unique
  <2>5. /\ d \in Added(v, m) <=> v[d].clock = 0 /\ e.state # Null
        /\ d \in Removed(v, m) <=> v[d].clock > 0 /\ e.state = Null
    BY <2>1, <2>4 DEF Added, Removed, News
  <2> QED
    BY <2>1, <2>2, <2>3, <2>4, <2>5
<1>2. CASE ~\E e \in News(v, m) : e.client = d
  <2>1. ApplyUpdate(v, self, m)[d] = v[d]
    BY <1>2 DEF ApplyUpdate
  <2>2. d \notin Added(v, m) /\ d \notin Removed(v, m) /\ d \notin Changed(v, m)
    BY <1>2 DEF Added, Removed, Changed
  <2>3. \A e \in m : e.client = d => ~IsNews(v, e)
    BY <1>2 DEF News
  <2> QED
    BY <2>1, <2>2, <2>3
<1> QED
  BY <1>1, <1>2

LEMMA ClientReceivesIsStep ==
  ASSUME AllInv, Typed', NEW c \in Clients, ClientReceives(c)
  PROVE  ClientStep(c)
<1> DEFINE x == Current(c)
           m == Head(toClient[x])
           sent == Encode(view'[c], Changed(view[c], m))
<1>1. Typed /\ SocketInv /\ DownInv /\ ViewInv /\ LinkInv
  BY DEF AllInv, ForgetInv
<1>2. x \in Conns /\ ws[c] = "open" /\ toClient[x] # <<>>
  BY <1>1, ConnFacts DEF ClientReceives
<1>3. m \in Messages /\ Unique(m) /\ Echo(m)
  <2>1. toClient[x] \in Seq(Messages)
    BY <1>1, <1>2 DEF Typed, Channels
  <2>2. 1 \in DOMAIN toClient[x] /\ m = toClient[x][1] /\ m \in Messages
    <3> HIDE DEF Messages
    <3> QED
      BY <1>2, <2>1
  <2> QED
    BY <1>1, <1>2, <2>2 DEF DownInv
<1>4. view[c] \in Replicas /\ view \in [Clients -> Replicas]
  BY <1>1 DEF Typed
<1>5. view' = [view EXCEPT ![c] = ApplyUpdate(view[c], c, m)]
        /\ toServer' = Broadcast(c, sent)
  BY <1>4 DEF ClientReceives, Applies
<1>6. view'[c] = ApplyUpdate(view[c], c, m)
        /\ \A d \in Clients \ {c} : view'[d] = view[d]
  BY <1>4, <1>5
<1>7. sent \in Messages
  BY <1>3, <1>4, SubsetsTyped, EncodeTyped DEF Typed
<1>8. \A e \in m : e.client \in Clients /\ e.clock \in Nat
  BY <1>3 DEF Messages, Entries
<1> HIDE DEF m, sent, x, Messages
<1>0. ASSUME NEW d \in Clients
      PROVE  \/ view'[c][d] = view[c][d] /\ d \notin Changed(view[c], m)
             \/ \E e \in m : e.client = d /\ view'[c][d] = After(view[c][d], c, e)
  BY <1>3, <1>4, <1>6, ApplyFacts
<1>9. view'[c][c].state # Null
  <2>1. view[c][c].state # Null /\ view[c][c] \in Metas
    BY <1>1, <1>4 DEF ViewInv, Replicas, Metas
  <2>2. CASE view'[c][c] = view[c][c]
    BY <2>1, <2>2
  <2>3. ASSUME NEW e \in m, e.client = c,
               view'[c][c] = After(view[c][c], c, e)
        PROVE  view'[c][c].state # Null
    BY <2>1, <2>3 DEF After, Resists, Metas
  <2> QED
    BY <1>0, <2>2, <2>3
<1>10. ASSUME NEW d \in Clients \ {c}
       PROVE  \/ view'[c][d] = view[c][d] /\ d \notin Changed(view[c], m)
              \/ Young(d) =>
                   /\ view'[c][d].clock <= sview[d].clock
                   /\ view'[c][d].state = Null => Gone(d)
  <2>1. CASE view'[c][d] = view[c][d] /\ d \notin Changed(view[c], m)
    BY <2>1
  <2>2. ASSUME NEW e \in m, e.client = d,
               view'[c][d] = After(view[c][d], c, e),
               Young(d)
        PROVE  /\ view'[c][d].clock <= sview[d].clock
               /\ view'[c][d].state = Null => Gone(d)
    <3>1. view'[c][d] = [clock |-> e.clock, state |-> e.state]
      BY <2>2 DEF After, Resists
    <3>2. Past(e)
      BY <1>3, <2>2 DEF Echo
    <3> QED
      BY <2>2, <3>1, <3>2 DEF Past
  <2> QED
    BY <1>0, <2>1, <2>2
<1>11. Sendable(c, sent)
  <2>1. Unique(sent) /\ \A e \in sent : /\ e.client \in Changed(view[c], m)
                                        /\ e.clock = view'[c][e.client].clock
                                        /\ e.state = view'[c][e.client].state
    BY EncodeFacts DEF sent
  <2>2. Changed(view[c], m) \subseteq Clients
    BY <1>3, <1>4, SubsetsTyped
  <2>3. ASSUME NEW e \in sent, e.client # c, Young(e.client) PROVE Past(e)
    <3>1. PICK d \in Clients \ {c} : d = e.client
      BY <2>1, <2>2, <2>3
    <3>2. /\ view'[c][d].clock <= sview[d].clock
          /\ view'[c][d].state = Null => Gone(d)
      BY <1>10, <2>1, <2>3, <3>1
    <3>3. e.clock = view'[c][d].clock /\ e.state = view'[c][d].state
      BY <2>1, <3>1
    <3> QED
      BY <3>1, <3>2, <3>3 DEF Past
  <2>4. ASSUME NEW e \in sent, e.client = c PROVE e.state # Null
    BY <1>9, <2>1, <2>4
  <2> QED
    BY <2>1, <2>3, <2>4 DEF Sendable
<1>12. /\ \A y \in Conns \ {x} : toClient'[y] = toClient[y]
       /\ \A i \in DOMAIN toClient'[x] : \E j \in DOMAIN toClient[x] :
            toClient'[x][i] = toClient[x][j]
  <2>1. toClient' = [toClient EXCEPT ![x] = Tail(toClient[x])]
    BY <1>1 DEF ClientReceives, Typed, Channels, x
  <2>2. toClient'[x] = Tail(toClient[x]) /\ toClient[x] \in Seq(Messages)
          /\ \A y \in Conns \ {x} : toClient'[y] = toClient[y]
    BY <1>1, <1>2, <2>1 DEF Typed, Channels
  <2>3. \A i \in DOMAIN Tail(toClient[x]) :
          i + 1 \in DOMAIN toClient[x] /\ Tail(toClient[x])[i] = toClient[x][i + 1]
    <3> DEFINE q == toClient[x]
    <3>1. q \in Seq(Messages) /\ q # <<>>
      BY <1>2, <2>2
    <3> HIDE DEF q
    <3>2. Len(q) \in Nat /\ DOMAIN q = 1..Len(q) /\ Len(q) >= 1
      BY <3>1
    <3>3. Len(Tail(q)) = Len(q) - 1 /\ Tail(q) \in Seq(Messages)
      BY <3>1
    <3>4. \A i \in 1..(Len(q) - 1) : i + 1 \in DOMAIN q /\ Tail(q)[i] = q[i + 1]
      BY <3>1, <3>2
    <3> QED
      BY <3>2, <3>3, <3>4 DEF q
  <2> QED
    BY <2>2, <2>3
<1>13. UNCHANGED <<ws, link, sview, ids, opened, hibernated>>
  BY DEF ClientReceives, sockets, bounds
<1> QED
  BY <1>2, <1>5, <1>6, <1>7, <1>9, <1>10, <1>11, <1>12, <1>13, TellingStep DEF x

LEMMA OpensKeeps ==
  ASSUME AllInv, Typed', NEW c \in Clients, Opens(c)
  PROVE  ForgetInv'
<1> DEFINE x == <<c, opened[c] + 1>>
<1>1. SocketInv /\ Typed /\ LinkInv /\ DownInv /\ UpInv /\ ViewInv /\ ServerInv
  BY DEF AllInv, ForgetInv
<1>2. x \in Conns /\ opened[c] \in Nat /\ opened' = [opened EXCEPT ![c] = opened[c] + 1]
        /\ opened \in [Clients -> 0..MaxConns]
  BY <1>1, BoundsAssumption DEF Opens, SocketInv, SocketsOK, Conns
<1>3. UNCHANGED <<sview, ids, hibernated>>
  BY DEF Opens, bounds
<1>4. /\ \A y \in Conns \ {x} : /\ link'[y] = link[y] /\ toServer'[y] = toServer[y]
                                /\ toClient'[y] = toClient[y]
      /\ link'[x] = "up" /\ toServer'[x] = Hello(view'[c], c)
      /\ toClient'[x] = Greeting(sview)
  BY <1>1, <1>2 DEF Opens, Typed, Channels
<1>5. \A d \in Clients \ {c} : opened'[d] = opened[d] /\ Current(d)' = Current(d)
                                 /\ (Young(d)' <=> Young(d)) /\ ws'[d] = ws[d]
  BY <1>1, <1>2, <1>3 DEF Opens, Current, Young, SocketInv, SocketsOK
<1>6. opened'[c] = opened[c] + 1 /\ Current(c)' = x /\ ws'[c] = "open"
  BY <1>1, <1>2 DEF Opens, Current, SocketInv, SocketsOK
<1>7. Young(c)' => Young(c) /\ ~Gone(c) /\ x = First(c) /\ opened[c] = 0
  BY <1>2, <1>3, <1>6 DEF Young, Gone, First
<1>8. \A d \in Clients \ {c} : Gone(d)' <=> Gone(d)
  <2>1. \A d \in Clients \ {c} : First(d) \in Conns \ {x}
    BY <1>1, ConnFacts DEF First
  <2> QED
    BY <1>4, <1>5, <2>1 DEF Gone, First
<1>9. \A d \in Clients : Young(d)' => Young(d)
  BY <1>5, <1>7
<1>10. ASSUME NEW e, e.client \in Clients, Young(e.client)', Past(e) PROVE Past(e)'
  BY <1>3, <1>7, <1>8, <1>10 DEF Past
<1> HIDE DEF x
<1>11. /\ view' \in [Clients -> Replicas]
       /\ \A d \in Clients \ {c} : view'[d] = view[d] /\ view'[c][d] = view[c][d]
       /\ view'[c][c].state # Null
  <2>1. view[c] \in [Clients -> Metas] /\ view \in [Clients -> Replicas]
    BY <1>1 DEF Typed, Replicas, Metas
  <2>2. view' = [view EXCEPT ![c] = Bumped(view[c], c)]
    BY <2>1 DEF Opens
  <2>3. view'[c] = [view[c] EXCEPT ![c] = [view[c][c] EXCEPT !.clock = view[c][c].clock + 1]]
    BY <2>1, <2>2 DEF Bumped, Metas
  <2>4. view'[c][c] = [view[c][c] EXCEPT !.clock = view[c][c].clock + 1]
          /\ \A d \in Clients \ {c} : view'[c][d] = view[c][d]
    BY <2>1, <2>3
  <2>5. view'[c][c].state = view[c][c].state
    BY <2>1, <2>4 DEF Metas
  <2> QED
    BY <1>1, <2>1, <2>2, <2>4, <2>5 DEF ViewInv, Typed
<1>12. LinkInv'
  <2>1. ASSUME NEW d \in Clients \ {c}, ws'[d] = "open" PROVE link'[Current(d)] = "up"
    <3>1. link[Current(d)] = "up" /\ Current(d) \in Conns /\ Current(d) # x
      BY <1>1, <1>5, <2>1, ConnFacts DEF LinkInv, Current, x
    <3> QED
      BY <1>4, <3>1
  <2>2. ASSUME NEW y \in Conns, link'[y] # "none" PROVE y[2] <= opened'[y[1]]
    <3>1. CASE y = x
      BY <1>6, <1>2, <3>1 DEF x
    <3>2. CASE y # x
      <4>1. y[2] <= opened[y[1]] /\ y[1] \in Clients /\ y[2] \in Nat
        BY <1>1, <1>4, <2>2, <3>2, ConnFacts DEF LinkInv
      <4> QED
        BY <1>2, <1>5, <1>6, <4>1
    <3> QED
      BY <3>1, <3>2
  <2> QED
    BY <1>4, <1>5, <1>6, <2>1, <2>2 DEF LinkInv
<1>13. DownInv'
  <2> SUFFICES ASSUME NEW y \in Conns, NEW i \in DOMAIN toClient'[y]
      PROVE  /\ Unique(toClient'[y][i])
             /\ \A e \in toClient'[y][i] : Young(e.client)' => Past(e)'
    BY DEF DownInv, Unique, Echo
  <2>1. CASE y # x
    <3>1. Unique(toClient[y][i]) /\ Echo(toClient[y][i]) /\ toClient'[y] = toClient[y]
      BY <1>1, <1>4, <2>1 DEF DownInv
    <3>2. \A e \in toClient[y][i] : e.client \in Clients
      BY <1>1, <1>4, <2>1 DEF Typed, Channels, Messages, Entries
    <3> QED
      BY <1>9, <1>10, <3>1, <3>2 DEF Echo
  <2>2. CASE y = x
    <3>1. toClient'[y][i] = Encode(sview, Present(sview))
      BY <1>4, <2>2 DEF Greeting
    <3>2. Unique(toClient'[y][i])
      BY <3>1, EncodeFacts
    <3>3. ASSUME NEW e \in toClient'[y][i]
          PROVE  e.clock <= sview[e.client].clock /\ e.state # Null
      <4>1. e.client \in Present(sview) /\ e.clock = sview[e.client].clock
              /\ e.state = sview[e.client].state
        BY <3>1, EncodeFacts
      <4>2. sview[e.client].clock \in Nat
        BY <1>1, <4>1 DEF Present, Typed, Replicas
      <4> QED
        BY <4>1, <4>2 DEF Present
    <3> QED
      BY <1>3, <3>2, <3>3 DEF Past
  <2> QED
    BY <2>1, <2>2
<1>14. UpInv'
  <2> SUFFICES ASSUME NEW y \in Conns, NEW i \in DOMAIN toServer'[y]
      PROVE  /\ Unique(toServer'[y][i])
             /\ \A e \in toServer'[y][i] : Young(e.client)' =>
                  \/ y # First(e.client) /\ Past(e)'
                  \/ y = First(e.client) /\
                       (e.state = Null => i = Len(toServer'[y]) /\ link'[y] # "up")
    BY DEF UpInv, Unique, First
  <2>1. CASE y # x
    <3>1. /\ Unique(toServer[y][i])
          /\ \A e \in toServer[y][i] : Young(e.client) =>
                  \/ y # First(e.client) /\ Past(e)
                  \/ y = First(e.client) /\
                       (e.state = Null => i = Len(toServer[y]) /\ link[y] # "up")
      BY <1>1, <1>4, <2>1 DEF UpInv
    <3>2. \A e \in toServer[y][i] : e.client \in Clients
      BY <1>1, <1>4, <2>1 DEF Typed, Channels, Messages, Entries
    <3> QED
      BY <1>4, <1>9, <1>10, <2>1, <3>1, <3>2
  <2>2. CASE y = x
    <3>1. toServer'[y][i] = Encode(view'[c], {c})
      BY <1>4, <2>2 DEF Hello
    <3>2. Unique(toServer'[y][i])
            /\ \A e \in toServer'[y][i] : e.client = c /\ e.state # Null
      BY <1>11, <3>1, EncodeFacts
    <3> QED
      BY <1>7, <2>2, <3>2
  <2> QED
    BY <2>1, <2>2
<1>15. ViewInv'
  <2>1. \A b \in Clients : view'[b][b].state # Null
    BY <1>1, <1>11 DEF ViewInv
  <2>2. \A b, d \in Clients : b # d => view'[b][d] = view[b][d]
    BY <1>11
  <2>3. ASSUME NEW b \in Clients, NEW d \in Clients, b # d, Young(d)'
        PROVE  /\ view'[b][d].clock <= sview[d].clock
               /\ view'[b][d].state = Null => view'[b][d].clock = 0 \/ Gone(d)'
    <3>1. /\ view[b][d].clock <= sview[d].clock
          /\ view[b][d].state = Null => view[b][d].clock = 0 \/ Gone(d)
      BY <1>1, <1>9, <2>3 DEF ViewInv
    <3> QED
      BY <1>7, <1>8, <2>2, <2>3, <3>1
  <2> QED
    BY <1>3, <2>1, <2>3 DEF ViewInv
<1>16. ServerInv'
  <2> SUFFICES ASSUME NEW d \in Clients, Young(d)'
      PROVE  /\ sview[d].state # Null => d \in ids[First(d)] /\ link'[First(d)] # "none"
             /\ sview[d].state = Null => sview[d].clock = 0 \/ Gone(d)'
             /\ \A y \in Conns : d \in ids[y] => y = First(d)
    BY <1>3 DEF ServerInv, First
  <2>1. /\ sview[d].state # Null => d \in ids[First(d)] /\ link[First(d)] # "none"
        /\ sview[d].state = Null => sview[d].clock = 0 \/ Gone(d)
        /\ \A y \in Conns : d \in ids[y] => y = First(d)
    BY <1>1, <1>9 DEF ServerInv
  <2>2. link[First(d)] # "none" => link'[First(d)] # "none"
    BY <1>1, <1>4, ConnFacts
  <2>3. Gone(d) => Gone(d)'
    BY <1>7, <1>8
  <2> QED
    BY <2>1, <2>2, <2>3
<1> QED
  BY <1>12, <1>13, <1>14, <1>15, <1>16 DEF ForgetInv

(* A message is taken from the channel to the server.                       *)
LEMMA TailFacts ==
  ASSUME NEW q \in Seq(Messages), q # <<>>
  PROVE  /\ 1 \in DOMAIN q /\ Head(q) = q[1] /\ Head(q) \in Messages
         /\ 1 = Len(q) => Tail(q) = <<>>
         /\ \A i \in DOMAIN Tail(q) : /\ i + 1 \in DOMAIN q /\ Tail(q)[i] = q[i + 1]
                                      /\ i + 1 = Len(q) => i = Len(Tail(q))
<1> HIDE DEF Messages
<1>1. Len(q) \in Nat /\ DOMAIN q = 1..Len(q) /\ Len(q) >= 1
  OBVIOUS
<1>2. Len(Tail(q)) = Len(q) - 1 /\ Tail(q) \in Seq(Messages)
        /\ DOMAIN Tail(q) = 1..(Len(q) - 1)
  OBVIOUS
<1>3. \A i \in 1..(Len(q) - 1) : i + 1 \in DOMAIN q /\ Tail(q)[i] = q[i + 1]
  BY <1>1
<1>4. ASSUME 1 = Len(q) PROVE Tail(q) = <<>>
  <2>1. Tail(q) \in Seq(Messages)
    BY <1>2
  <2>2. Len(Tail(q)) = 0
    <3>1. Len(q) - 1 = 0
      BY <1>4
    <3> QED
      BY <1>2, <3>1
  <2> QED
    BY <2>1, <2>2, EmptySeq
<1> QED
  BY <1>1, <1>2, <1>3, <1>4

(* What every connection is told, beside what was on its way.               *)
LEMMA ToAllFacts ==
  ASSUME NEW f \in Channels, NEW m \in Messages, NEW x \in Conns,
         NEW i \in DOMAIN ToAll(f, m)[x]
  PROVE  \/ \E j \in DOMAIN f[x] : ToAll(f, m)[x][i] = f[x][j]
         \/ ToAll(f, m)[x][i] = m
<1> HIDE DEF Messages
<1>1. f[x] \in Seq(Messages)
  BY DEF Channels
<1>2. CASE link[x] = "up"
  <2>1. ToAll(f, m)[x] = Append(f[x], m)
    BY <1>2 DEF ToAll
  <2> QED
    BY <1>1, <2>1, AppendFacts
<1>3. CASE link[x] # "up"
  <2>1. ToAll(f, m)[x] = f[x]
    BY <1>3 DEF ToAll
  <2> QED
    BY <2>1
<1> QED
  BY <1>2, <1>3

LEMMA ServerReceivesKeeps ==
  ASSUME AllInv, Typed', NEW x \in Conns, ServerReceives(x)
  PROVE  ForgetInv'
<1> DEFINE m == Head(toServer[x])
<1>1. SocketInv /\ Typed /\ LinkInv /\ DownInv /\ UpInv /\ ViewInv /\ ServerInv
  BY DEF AllInv, ForgetInv
<1>2. UNCHANGED <<ws, opened, view, link, hibernated>> /\ link[x] # "none"
  BY DEF ServerReceives, sockets, bounds
<1>3. toServer[x] \in Seq(Messages) /\ toServer[x] # <<>>
  BY <1>1 DEF ServerReceives, Typed, Channels
<1>4. /\ 1 \in DOMAIN toServer[x] /\ m = toServer[x][1] /\ m \in Messages
      /\ 1 = Len(toServer[x]) => Tail(toServer[x]) = <<>>
      /\ \A i \in DOMAIN Tail(toServer[x]) :
           /\ i + 1 \in DOMAIN toServer[x] /\ Tail(toServer[x])[i] = toServer[x][i + 1]
           /\ i + 1 = Len(toServer[x]) => i = Len(Tail(toServer[x]))
  BY <1>3, TailFacts
<1>5. /\ toServer'[x] = Tail(toServer[x])
      /\ \A y \in Conns \ {x} : toServer'[y] = toServer[y]
  BY <1>1 DEF ServerReceives, Typed, Channels
<1>6. sview' = ApplyUpdate(sview, "server", m) /\ ids' = [ids EXCEPT ![x] = TrackIds(x, m)]
        /\ toClient' = ToAll(toClient, m)
  BY DEF ServerReceives
<1>7. Unique(m) /\ \A e \in m : Young(e.client) =>
        \/ x # First(e.client) /\ Past(e)
        \/ x = First(e.client) /\
             (e.state = Null => 1 = Len(toServer[x]) /\ link[x] # "up")
  <2> HIDE DEF m
  <2>1. /\ Unique(toServer[x][1])
        /\ \A e \in toServer[x][1] : Young(e.client) =>
             \/ x # First(e.client) /\ Past(e)
             \/ x = First(e.client) /\
                  (e.state = Null => 1 = Len(toServer[x]) /\ link[x] # "up")
    BY <1>1, <1>4 DEF UpInv
  <2> QED
    BY <1>4, <2>1
<1>8. \A e \in m : e.client \in Clients /\ e.clock \in Nat /\ e.client # "server"
  BY <1>4, ClientsAssumption DEF Messages, Entries
<1>9. \A d \in Clients : sview[d] \in Metas /\ First(d)' = First(d)
                           /\ (Young(d)' <=> Young(d))
  BY <1>1, <1>2 DEF Typed, Replicas, Metas, First, Young
<1> HIDE DEF m, Messages
<1>10. ASSUME NEW d \in Clients, Gone(d) PROVE Gone(d)'
  <2>1. First(d) \in Conns /\ First(d) # x
    BY <1>1, <1>3, <1>10, ConnFacts DEF Gone
  <2> QED
    BY <1>2, <1>5, <1>9, <1>10, <2>1 DEF Gone
<1>11. ASSUME NEW d \in Clients
       PROVE  \/ /\ sview'[d] = sview[d]
                 /\ d \notin Added(sview, m) /\ d \notin Removed(sview, m)
                 /\ \A e \in m : e.client = d => ~IsNews(sview, e)
              \/ \E e \in m :
                   /\ e.client = d /\ IsNews(sview, e)
                   /\ sview'[d] = After(sview[d], "server", e)
                   /\ d \in Added(sview, m) <=> sview[d].clock = 0 /\ e.state # Null
                   /\ d \in Removed(sview, m) <=> sview[d].clock > 0 /\ e.state = Null
                   /\ \A f \in m : f.client = d => f = e
  <2>1. sview \in Replicas
    BY <1>1 DEF Typed
  <2> QED
    BY <1>4, <1>6, <1>7, <2>1, ApplyFacts
<1>12. \A e \in m : \A r : After(r, "server", e) = [clock |-> e.clock, state |-> e.state]
  BY <1>8 DEF After, Resists
<1>13. ASSUME NEW e \in m, IsNews(sview, e)
       PROVE  sview[e.client].clock <= e.clock
  BY <1>8, <1>9, <1>13 DEF IsNews, Metas
<1>14. ASSUME NEW d \in Clients
       PROVE  sview'[d].clock \in Nat /\ sview[d].clock <= sview'[d].clock
  <2>1. CASE sview'[d] = sview[d]
    BY <1>9, <2>1 DEF Metas
  <2>2. ASSUME NEW e \in m, e.client = d, IsNews(sview, e),
               sview'[d] = After(sview[d], "server", e)
        PROVE  sview'[d].clock \in Nat /\ sview[d].clock <= sview'[d].clock
    BY <1>8, <1>12, <1>13, <2>2
  <2> QED
    BY <1>11, <2>1, <2>2
<1>15. ASSUME NEW e, e.client \in Clients, e.clock \in Nat, Past(e) PROVE Past(e)'
  BY <1>9, <1>10, <1>14, <1>15 DEF Past, Metas
<1>16. ASSUME NEW e \in m, Young(e.client), e.state = Null PROVE Gone(e.client)'
  <2>1. CASE x # First(e.client)
    BY <1>7, <1>8, <1>10, <1>16, <2>1 DEF Past
  <2>2. CASE x = First(e.client)
    <3>1. 1 = Len(toServer[x]) /\ link[x] # "up"
      BY <1>7, <1>16, <2>2
    <3>2. opened[e.client] = 1
      <4>1. opened[e.client] \in Nat /\ opened[e.client] <= 1
        BY <1>1, <1>8, <1>16, ConnFacts DEF Young
      <4>2. x[2] <= opened[x[1]] /\ x[1] = e.client /\ x[2] = 1
        BY <1>1, <1>2, <2>2 DEF LinkInv, First
      <4> QED
        BY <4>1, <4>2
    <3> QED
      BY <1>2, <1>4, <1>5, <2>2, <3>1, <3>2 DEF Gone, First
  <2> QED
    BY <2>1, <2>2
<1>17. ASSUME NEW e \in m, Young(e.client) PROVE Past(e)'
  <2>1. e.clock <= sview'[e.client].clock
    <3>1. CASE IsNews(sview, e)
      <4>1. sview'[e.client] = After(sview[e.client], "server", e)
        BY <1>8, <1>11, <3>1
      <4> QED
        BY <1>8, <1>12, <4>1
    <3>2. CASE ~IsNews(sview, e)
      <4>1. e.clock <= sview[e.client].clock
        BY <1>8, <1>9, <3>2 DEF IsNews, Metas
      <4> QED
        BY <1>8, <1>9, <1>14, <4>1 DEF Metas
    <3> QED
      BY <3>1, <3>2
  <2> QED
    BY <1>16, <1>17, <2>1 DEF Past
<1>18. LinkInv'
  BY <1>1, <1>2 DEF LinkInv, Current
<1>19. DownInv'
  <2>1. \A y \in Conns : \A i \in DOMAIN toClient'[y] :
          \/ \E j \in DOMAIN toClient[y] : toClient'[y][i] = toClient[y][j]
          \/ toClient'[y][i] = m
    <3>1. toClient \in Channels /\ m \in Messages
      BY <1>1, <1>4 DEF Typed
    <3>2. \A y \in Conns : \A i \in DOMAIN ToAll(toClient, m)[y] :
            \/ \E j \in DOMAIN toClient[y] : ToAll(toClient, m)[y][i] = toClient[y][j]
            \/ ToAll(toClient, m)[y][i] = m
      BY <3>1, ToAllFacts
    <3> QED
      BY <1>6, <3>2
  <2>2. \A y \in Conns : \A i \in DOMAIN toClient[y] : \A e \in toClient[y][i] :
          e.client \in Clients /\ e.clock \in Nat
    BY <1>1 DEF Typed, Channels, Messages, Entries
  <2> SUFFICES ASSUME NEW y \in Conns, NEW i \in DOMAIN toClient'[y]
      PROVE  /\ Unique(toClient'[y][i])
             /\ \A e \in toClient'[y][i] : Young(e.client) => Past(e)'
    BY <1>2 DEF DownInv, Unique, Echo, Young
  <2>3. ASSUME NEW j \in DOMAIN toClient[y], toClient'[y][i] = toClient[y][j]
        PROVE  /\ Unique(toClient'[y][i])
               /\ \A e \in toClient'[y][i] : Young(e.client) => Past(e)'
    <3>1. Unique(toClient[y][j]) /\ Echo(toClient[y][j])
      BY <1>1 DEF DownInv
    <3> QED
      BY <1>15, <2>2, <2>3, <3>1 DEF Echo
  <2> QED
    BY <1>7, <1>17, <2>1, <2>3
<1>20. UpInv'
  <2>1. \A y \in Conns : \A i \in DOMAIN toServer[y] : \A e \in toServer[y][i] :
          e.client \in Clients /\ e.clock \in Nat
    BY <1>1 DEF Typed, Channels, Messages, Entries
  <2> SUFFICES ASSUME NEW y \in Conns, NEW i \in DOMAIN toServer'[y]
      PROVE  /\ Unique(toServer'[y][i])
             /\ \A e \in toServer'[y][i] : Young(e.client) =>
                  \/ y # First(e.client) /\ Past(e)'
                  \/ y = First(e.client) /\
                       (e.state = Null => i = Len(toServer'[y]) /\ link'[y] # "up")
    BY <1>2 DEF UpInv, Unique, First, Young
  <2>2. CASE y # x
    <3>1. /\ Unique(toServer[y][i])
          /\ \A e \in toServer[y][i] : Young(e.client) =>
                  \/ y # First(e.client) /\ Past(e)
                  \/ y = First(e.client) /\
                       (e.state = Null => i = Len(toServer[y]) /\ link[y] # "up")
      BY <1>1, <1>5, <2>2 DEF UpInv
    <3>2. toServer'[y] = toServer[y] /\ link'[y] = link[y]
      BY <1>2, <1>5, <2>2
    <3>3. \A e \in toServer[y][i] : Past(e) => Past(e)'
      BY <1>15, <2>1, <3>2
    <3> QED
      BY <3>1, <3>2, <3>3
  <2>3. CASE y = x
    <3> DEFINE j == i + 1
    <3>1. j \in DOMAIN toServer[y] /\ toServer'[y][i] = toServer[y][j]
            /\ (j = Len(toServer[y]) => i = Len(toServer'[y]))
      BY <1>4, <1>5, <2>3
    <3> HIDE DEF j
    <3>2. /\ Unique(toServer[y][j])
          /\ \A e \in toServer[y][j] : Young(e.client) =>
                  \/ y # First(e.client) /\ Past(e)
                  \/ y = First(e.client) /\
                       (e.state = Null => j = Len(toServer[y]) /\ link[y] # "up")
      BY <1>1, <3>1 DEF UpInv
    <3> QED
      BY <1>2, <1>15, <2>1, <3>1, <3>2
  <2> QED
    BY <2>2, <2>3
<1>21. ViewInv'
  <2>1. ASSUME NEW b \in Clients, NEW d \in Clients, b # d, Young(d)
        PROVE  /\ view[b][d].clock <= sview'[d].clock
               /\ view[b][d].state = Null => view[b][d].clock = 0 \/ Gone(d)'
    <3>1. /\ view[b][d].clock <= sview[d].clock
          /\ view[b][d].state = Null => view[b][d].clock = 0 \/ Gone(d)
      BY <1>1, <2>1 DEF ViewInv
    <3>2. view[b][d].clock \in Nat
      BY <1>1 DEF Typed, Replicas
    <3> QED
      BY <1>9, <1>10, <1>14, <3>1, <3>2 DEF Metas
  <2> QED
    BY <1>1, <1>2, <1>9, <2>1 DEF ViewInv
<1>22. ServerInv'
  <2> SUFFICES ASSUME NEW d \in Clients, Young(d)
      PROVE  /\ sview'[d].state # Null => d \in ids'[First(d)] /\ link[First(d)] # "none"
             /\ sview'[d].state = Null => sview'[d].clock = 0 \/ Gone(d)'
             /\ \A y \in Conns : d \in ids'[y] => y = First(d)
    BY <1>2, <1>9 DEF ServerInv
  <2>1. /\ sview[d].state # Null => d \in ids[First(d)] /\ link[First(d)] # "none"
        /\ sview[d].state = Null => sview[d].clock = 0 \/ Gone(d)
        /\ \A y \in Conns : d \in ids[y] => y = First(d)
    BY <1>1 DEF ServerInv
  <2>2. First(d) \in Conns
    BY <1>1, ConnFacts
  <2>3. /\ \A y \in Conns \ {x} : ids'[y] = ids[y]
        /\ ids'[x] = (ids[x] \cup Added(sview, m)) \ Removed(sview, m)
    BY <1>1, <1>6 DEF Typed, TrackIds
  <2>4. CASE /\ sview'[d] = sview[d]
             /\ d \notin Added(sview, m) /\ d \notin Removed(sview, m)
    <3>1. \A y \in Conns : d \in ids'[y] <=> d \in ids[y]
      BY <2>3, <2>4
    <3> QED
      BY <1>10, <2>1, <2>2, <2>4, <3>1
  <2>5. ASSUME NEW e \in m, e.client = d, IsNews(sview, e),
               sview'[d] = After(sview[d], "server", e),
               d \in Added(sview, m) <=> sview[d].clock = 0 /\ e.state # Null,
               d \in Removed(sview, m) <=> sview[d].clock > 0 /\ e.state = Null
        PROVE  /\ sview'[d].state # Null => d \in ids'[First(d)] /\ link[First(d)] # "none"
               /\ sview'[d].state = Null => sview'[d].clock = 0 \/ Gone(d)'
               /\ \A y \in Conns : d \in ids'[y] => y = First(d)
    <3>1. sview'[d].state = e.state
      BY <1>12, <2>5
    <3>2. CASE e.state = Null
      <4>1. Gone(d)'
        BY <1>16, <2>5, <3>2
      <4>2. \A y \in Conns : d \in ids'[y] => d \in ids[y]
        BY <2>3, <2>5, <3>2
      <4> QED
        BY <2>1, <3>1, <3>2, <4>1, <4>2
    <3>3. CASE e.state # Null
      <4>1. x = First(d)
        <5>1. sview[d].clock < e.clock /\ sview[d].clock \in Nat /\ e.clock \in Nat
          BY <1>8, <1>9, <2>5, <3>3 DEF IsNews, Metas
        <5>2. ~Past(e)
          BY <2>5, <5>1 DEF Past
        <5> QED
          BY <1>7, <2>5, <5>2
      <4>2. sview[d].clock = 0 \/ d \in ids[x]
        BY <1>3, <2>1, <4>1 DEF Gone
      <4>3. d \in ids'[x]
        BY <2>3, <2>5, <3>3, <4>2
      <4>4. \A y \in Conns : d \in ids'[y] => y = First(d)
        BY <2>1, <2>3, <4>1
      <4> QED
        BY <1>2, <3>1, <3>3, <4>1, <4>3, <4>4
    <3> QED
      BY <3>2, <3>3
  <2> QED
    BY <1>11, <2>4, <2>5
<1> QED
  BY <1>18, <1>19, <1>20, <1>21, <1>22 DEF ForgetInv

LEMMA ServerClosesKeeps ==
  ASSUME AllInv, Typed', NEW x \in Conns, ServerCloses(x)
  PROVE  ForgetInv'
<1> DEFINE L == Leavers(x)
           m == Encode(sview', L)
<1>1. SocketInv /\ Typed /\ LinkInv /\ DownInv /\ UpInv /\ ViewInv /\ ServerInv
  BY DEF AllInv, ForgetInv
<1>2. UNCHANGED <<ws, opened, view, ids, toServer, hibernated>>
        /\ link[x] = "ended" /\ toServer[x] = <<>>
  BY DEF ServerCloses, sockets, bounds
<1>3. link'[x] = "none" /\ \A y \in Conns \ {x} : link'[y] = link[y]
  BY <1>1 DEF ServerCloses, Typed
<1>4. \A d \in Clients : /\ sview[d] \in Metas /\ sview'[d].clock = sview[d].clock
                         /\ d \in L => sview'[d].state = Null
                         /\ d \notin L => sview'[d] = sview[d]
  BY <1>1 DEF ServerCloses, Forget, Typed, Replicas, Metas
<1>5. \A d \in Clients : First(d)' = First(d) /\ (Young(d)' <=> Young(d))
                           /\ Current(d)' = Current(d)
  BY <1>2 DEF First, Young, Current
<1>6. L \subseteq Clients /\ \A d \in Clients : d \in L <=> d \in ids[x] /\ sview[d].state # Null
  BY DEF Leavers, Present
<1>7. ASSUME NEW d \in Clients, Gone(d) PROVE Gone(d)'
  <2>1. First(d) \in Conns
    BY <1>1, ConnFacts
  <2> QED
    BY <1>2, <1>3, <1>5, <1>7, <2>1 DEF Gone
<1>8. ASSUME NEW d \in L, Young(d) PROVE x = First(d) /\ Gone(d)'
  <2>1. x = First(d) /\ d \in Clients
    BY <1>1, <1>6, <1>8 DEF ServerInv
  <2>2. x[2] <= opened[x[1]] /\ x[1] = d /\ x[2] = 1
    BY <1>1, <1>2, <2>1 DEF LinkInv, First
  <2>3. opened[d] \in Nat /\ opened[d] <= 1
    BY <1>1, <1>8, <2>1, ConnFacts DEF Young
  <2>4. opened[d] = 1
    BY <2>2, <2>3
  <2> QED
    BY <1>2, <1>3, <1>5, <2>1, <2>4 DEF Gone
<1> HIDE DEF L
<1>9. m \in Messages /\ Unique(m)
        /\ \A e \in m : e.client \in L /\ e.clock = sview'[e.client].clock
  <2>1. m \in Messages
    BY <1>6, EncodeTyped DEF Typed
  <2> QED
    BY <2>1, EncodeFacts
<1> HIDE DEF m
<1>10. ASSUME NEW e \in m, Young(e.client) PROVE Past(e)'
  <2>1. e.client \in Clients /\ e.clock \in Nat
    BY <1>9 DEF Messages, Entries
  <2> QED
    BY <1>8, <1>9, <1>10, <2>1 DEF Past
<1>11. ASSUME NEW e, e.client \in Clients, Past(e) PROVE Past(e)'
  BY <1>4, <1>7, <1>11 DEF Past
<1>12. LinkInv'
  <2>1. ASSUME NEW d \in Clients, ws[d] = "open" PROVE link'[Current(d)] = "up"
    <3>1. Current(d) \in Conns /\ link[Current(d)] = "up"
      BY <1>1, <2>1, ConnFacts DEF LinkInv
    <3> QED
      BY <1>2, <1>3, <3>1
  <2>2. \A y \in Conns : link'[y] # "none" => y[2] <= opened[y[1]]
    BY <1>1, <1>3 DEF LinkInv
  <2> QED
    BY <1>2, <1>5, <2>1, <2>2 DEF LinkInv
<1>13. DownInv'
  <2> SUFFICES ASSUME NEW y \in Conns, NEW i \in DOMAIN toClient'[y]
      PROVE  /\ Unique(toClient'[y][i])
             /\ \A e \in toClient'[y][i] : Young(e.client) => Past(e)'
    BY <1>2 DEF DownInv, Unique, Echo, Young
  <2>1. \/ \E j \in DOMAIN toClient[y] : toClient'[y][i] = toClient[y][j]
        \/ toClient'[y][i] = m
    <3>1. CASE L = {}
      <4>1. toClient' = toClient
        BY <3>1 DEF ServerCloses, Announce, L
      <4> QED
        BY <4>1
    <3>2. CASE L # {}
      <4>1. toClient' = ToAll(toClient, m)
        BY <3>2 DEF ServerCloses, Announce, L, m
      <4>2. toClient \in Channels /\ i \in DOMAIN ToAll(toClient, m)[y]
        BY <1>1, <4>1 DEF Typed
      <4>3. \/ \E j \in DOMAIN toClient[y] : ToAll(toClient, m)[y][i] = toClient[y][j]
            \/ ToAll(toClient, m)[y][i] = m
        BY <1>9, <4>2, ToAllFacts
      <4> QED
        BY <4>1, <4>3
    <3> QED
      BY <3>1, <3>2
  <2>2. \A j \in DOMAIN toClient[y] : \A e \in toClient[y][j] : e.client \in Clients
    BY <1>1 DEF Typed, Channels, Messages, Entries
  <2>3. ASSUME NEW j \in DOMAIN toClient[y], toClient'[y][i] = toClient[y][j]
        PROVE  /\ Unique(toClient'[y][i])
               /\ \A e \in toClient'[y][i] : Young(e.client) => Past(e)'
    <3>1. Unique(toClient[y][j]) /\ Echo(toClient[y][j])
      BY <1>1 DEF DownInv
    <3> QED
      BY <1>11, <2>2, <2>3, <3>1 DEF Echo
  <2> QED
    BY <1>9, <1>10, <2>1, <2>3
<1>14. UpInv'
  <2> SUFFICES ASSUME NEW y \in Conns, NEW i \in DOMAIN toServer[y]
      PROVE  /\ Unique(toServer[y][i])
             /\ \A e \in toServer[y][i] : Young(e.client) =>
                  \/ y # First(e.client) /\ Past(e)'
                  \/ y = First(e.client) /\
                       (e.state = Null => i = Len(toServer[y]) /\ link'[y] # "up")
    BY <1>2 DEF UpInv, Unique, First, Young
  <2>1. /\ Unique(toServer[y][i])
        /\ \A e \in toServer[y][i] : Young(e.client) =>
             \/ y # First(e.client) /\ Past(e)
             \/ y = First(e.client) /\
                  (e.state = Null => i = Len(toServer[y]) /\ link[y] # "up")
    BY <1>1 DEF UpInv
  <2>2. \A e \in toServer[y][i] : Past(e) => Past(e)'
    <3>1. \A e \in toServer[y][i] : e.client \in Clients
      BY <1>1 DEF Typed, Channels, Messages, Entries
    <3> QED
      BY <1>11, <3>1
  <2>3. link[y] # "up" => link'[y] # "up"
    BY <1>3
  <2> QED
    BY <2>1, <2>2, <2>3
<1>15. ViewInv'
  <2>1. ASSUME NEW b \in Clients, NEW d \in Clients, b # d, Young(d)
        PROVE  /\ view[b][d].clock <= sview'[d].clock
               /\ view[b][d].state = Null => view[b][d].clock = 0 \/ Gone(d)'
    BY <1>1, <1>4, <1>7, <2>1 DEF ViewInv
  <2> QED
    BY <1>1, <1>2, <1>5, <2>1 DEF ViewInv
<1>16. ServerInv'
  <2> SUFFICES ASSUME NEW d \in Clients, Young(d)
      PROVE  /\ sview'[d].state # Null => d \in ids[First(d)] /\ link'[First(d)] # "none"
             /\ sview'[d].state = Null => sview'[d].clock = 0 \/ Gone(d)'
             /\ \A y \in Conns : d \in ids[y] => y = First(d)
    BY <1>2, <1>5 DEF ServerInv
  <2>1. /\ sview[d].state # Null => d \in ids[First(d)] /\ link[First(d)] # "none"
        /\ sview[d].state = Null => sview[d].clock = 0 \/ Gone(d)
        /\ \A y \in Conns : d \in ids[y] => y = First(d)
    BY <1>1 DEF ServerInv
  <2>2. First(d) \in Conns
    BY <1>1, ConnFacts
  <2>3. CASE d \in L
    BY <1>4, <1>8, <2>1, <2>3
  <2>4. CASE d \notin L
    <3>1. sview[d].state # Null => First(d) # x
      BY <1>6, <2>1, <2>4
    <3> QED
      BY <1>3, <1>4, <1>7, <2>1, <2>2, <2>4, <3>1
  <2> QED
    BY <2>3, <2>4
<1> QED
  BY <1>12, <1>13, <1>14, <1>15, <1>16 DEF ForgetInv

(* After a hibernation nobody is young.                                     *)
LEMMA HibernatesKeeps == AllInv /\ Hibernates => ForgetInv'
<1> SUFFICES ASSUME AllInv, Hibernates PROVE ForgetInv'
  OBVIOUS
<1>1. LinkInv /\ DownInv /\ UpInv /\ ViewInv
  BY DEF AllInv, ForgetInv
<1>2. UNCHANGED <<ws, opened, view, ids, link, toServer, toClient>> /\ hibernated'
  BY DEF Hibernates, sockets, links
<1>3. \A c : ~Young(c)'
  BY <1>2 DEF Young
<1>4. LinkInv'
  BY <1>1, <1>2 DEF LinkInv, Current
<1>5. DownInv'
  BY <1>1, <1>2, <1>3 DEF DownInv, Unique, Echo
<1>6. UpInv'
  BY <1>1, <1>2, <1>3 DEF UpInv, Unique
<1>7. ViewInv'
  BY <1>1, <1>2, <1>3 DEF ViewInv
<1>8. ServerInv'
  BY <1>3 DEF ServerInv
<1> QED
  BY <1>4, <1>5, <1>6, <1>7, <1>8 DEF ForgetInv

LEMMA InitForgets == Init => ForgetInv
<1> SUFFICES ASSUME Init PROVE ForgetInv
  OBVIOUS
<1>1. LinkInv
  BY DEF Init, LinkInv
<1>2. \A x \in Conns : toServer[x] = <<>> /\ toClient[x] = <<>>
  BY DEF Init
<1>3. DownInv /\ UpInv
  BY <1>2 DEF DownInv, UpInv
<1>4. ViewInv
  BY DEF Init, ViewInv, Unknown, Null
<1>5. ServerInv
  BY DEF Init, ServerInv, Unknown, Null
<1> QED
  BY <1>1, <1>3, <1>4, <1>5 DEF ForgetInv

LEMMA ForgetKept == AllInv /\ Typed' /\ [Next]_vars => ForgetInv'
<1> SUFFICES ASSUME AllInv, Typed', [Next]_vars PROVE ForgetInv'
  OBVIOUS
<1>1. ASSUME NEW c \in Clients, User(c) \/ Failure(c) \/ Departure(c) \/ Work(c)
      PROVE  ForgetInv'
  <2>1. CASE Moves(c)
    BY <2>1, MovesIsStep, ClientStepKeeps
  <2>2. CASE Opens(c)
    BY <2>2, OpensKeeps
  <2>3. ASSUME \/ Connect(c) \/ ConnectRejects(c) \/ ConnectResolves(c)
               \/ RetryFires(c) \/ Closes(c) \/ ConnectFails(c) \/ Disconnect(c)
               \/ Drops(c) \/ Leaves(c) \/ Unloads(c)
        PROVE  ForgetInv'
    BY <2>3, SocketActionsAreSteps, ClientStepKeeps
  <2> QED
    BY <1>1, <2>1, <2>2, <2>3 DEF User, Failure, Departure, Work
<1>2. ASSUME NEW c \in Clients, ClientReceives(c) PROVE ForgetInv'
  BY <1>2, ClientReceivesIsStep, ClientStepKeeps
<1>3. ASSUME NEW x \in Conns, ServerReceives(x) \/ ServerCloses(x)
      PROVE  ForgetInv'
  BY <1>3, ServerReceivesKeeps, ServerClosesKeeps
<1>4. CASE Hibernates
  BY <1>4, HibernatesKeeps
<1>5. CASE UNCHANGED vars
  BY <1>5 DEF vars, sockets, links, bounds, AllInv, ForgetInv, LinkInv, DownInv, UpInv,
       ViewInv, ServerInv, Young, First, Gone, Past, Echo, Unique, Current
<1> QED
  BY <1>1, <1>2, <1>3, <1>4, <1>5 DEF Next

(* TrackIds notes who spoke on which connection, onClose() removes those:   *)
(* once all that was under way has arrived and every onClose() was handled, *)
(* the server sees nobody who left after a first connection, whatever       *)
(* echoes of the departed crossed the removal.                              *)
THEOREM ServerForgetsLeavers == Spec => []ServerForgets
<1>1. Init => AllInv
  <2>1. Init => SocketInv
    BY BoundsAssumption DEF Init, SocketInv, SocketsOK, SocketAsWanted, SocketFacts
  <2> QED
    BY <2>1, InitTyped, InitForgets DEF AllInv
<1>2. AllInv /\ [Next]_vars => AllInv'
  BY SocketInvKept, TypedKept, ForgetKept DEF AllInv
<1>3. AllInv => ServerForgets
  <2> SUFFICES ASSUME AllInv, Delivered, ~hibernated,
                      NEW c \in Present(sview), ~(opened[c] > 1)
               PROVE  Linked(c)
    BY DEF ServerForgets
  <2>1. c \in Clients /\ sview[c].state # Null
    BY DEF Present
  <2>2. First(c) \in Conns /\ opened[c] \in Nat
    BY <2>1, ConnFacts DEF AllInv
  <2>3. link[First(c)] # "none"
    BY <2>1, <2>2 DEF AllInv, ForgetInv, ServerInv, Young
  <2>4. link[First(c)] = "up"
    BY <2>2, <2>3 DEF AllInv, Typed, Delivered
  <2> QED
    BY <2>4, BoundsAssumption DEF Linked, First
<1> QED
  BY <1>1, <1>2, <1>3, PTL DEF Spec
=============================================================================
