------------------------- MODULE PartyServer_proofs -------------------------
(***************************************************************************)
(* The two halves of a partyserver Server: its connections, for any        *)
(* sessions and ids, and the life of the object, for any clients, names    *)
(* and bounds.                                                             *)
(*                                                                         *)
(* Connections.  Tidy says what the registry may point at; it holds        *)
(* whatever ids clients use, and gives ClosedIsForgotten.  When no id is   *)
(* reused while its old socket is around (Distinct), every live connection *)
(* is registered (Present), which gives ConnectedIsListed; the hibernating *)
(* manager needs neither.                                                  *)
(***************************************************************************)
EXTENDS Connections, ServerLifecycle, TLAPS

LEMMA InitTypeOK == Init => TypeOK
BY ConnectionsAssumption
   DEF Init, TypeOK, Steps, Tracked, Values, ConnectionsAssumption

(* Every action of a session is an EXCEPT at that session. *)
LEMMA StepTypeOK == TypeOK /\ [Next]_vars => TypeOK'
<1> SUFFICES ASSUME TypeOK, [Next]_vars PROVE TypeOK'
  OBVIOUS
<1>0. Hibernate' = Hibernate
  BY DEF Next, vars, connVars
<1> USE <1>0 DEF TypeOK, Steps, Tracked, Values, attachments
<1>1. ASSUME NEW s \in Sessions, NEW i \in Ids, Fetch(s, i) PROVE TypeOK'
  BY <1>1 DEF Fetch
<1>2. ASSUME NEW s \in Sessions,
             TagsRejected(s) \/ Serve(s) \/ OnConnectThrows(s)
      PROVE  TypeOK'
  BY <1>2 DEF TagsRejected, Serve, OnConnectThrows
<1>3. ASSUME NEW s \in Sessions, NEW userTags \in SUBSET Ids,
             Accept(s, userTags)
      PROVE  TypeOK'
  <2>1. id[s] \in Ids
    BY <1>3 DEF Accept
  <2>2. registry' \in [Ids -> Sessions \cup {None}]
    BY <1>3 DEF Accept, Register
  <2>3. /\ tags' \in [Sessions -> SUBSET Ids]
        /\ \A t \in Sessions : tags'[t] = IF t = s THEN {id[s]} \cup userTags
                                       ELSE tags[t]
    BY <1>3, <2>1 DEF Accept, PrepareTags
  <2>4. own' \in [Sessions -> Values \cup {"cold"}] /\ saved' \in [Sessions -> Values]
    BY <1>3 DEF Accept, CreateLazyConnection
  <2>5. QED
    BY <1>3, <2>2, <2>3, <2>4 DEF Accept
<1>5. ASSUME NEW s \in Sessions, ServerCloses(s) \/ ClientCloses(s)
      PROVE  TypeOK'
  BY <1>5 DEF ServerCloses, ClientCloses
<1>6. ASSUME NEW s \in Sessions, Remove(s)
      PROVE  registry' \in [Ids -> Sessions \cup {None}]
  BY <1>6 DEF Remove, Unregister
<1>7. ASSUME NEW s \in Sessions, CloseArrives(s) PROVE TypeOK'
  BY <1>7, <1>6 DEF CloseArrives
<1>8. ASSUME NEW s \in Sessions, OnCloseSettles(s) PROVE TypeOK'
  BY <1>8 DEF OnCloseSettles, Reciprocate
<1>9. ASSUME NEW s \in Sessions, Drop(s) PROVE TypeOK'
  BY <1>9, <1>6 DEF Drop
<1>10. ASSUME NEW without \in SUBSET Ids, Broadcast(without) PROVE TypeOK'
  BY <1>10 DEF Broadcast
<1>13. ASSUME NEW s \in Sessions, NEW v \in {"falsy", "truthy"}, SetState(s, v)
       PROVE  TypeOK'
  BY <1>13, ConnectionsAssumption
     DEF SetState, SerializeAttachment, connVars, ConnectionsAssumption
<1>14. CASE Sleep
  BY <1>14 DEF Sleep, connVars
<1>15. ASSUME NEW s \in Sessions, NEW itsTags \in SUBSET Ids,
              AcceptForeign(s, itsTags)
       PROVE  TypeOK'
  BY <1>15 DEF AcceptForeign
<1>16. ASSUME NEW s \in Sessions, ForeignEvent(s) PROVE TypeOK'
  BY <1>16 DEF ForeignEvent
<1>11. CASE UNCHANGED vars
  BY <1>11 DEF vars, connVars, attachments
<1>12. QED
  BY <1>1, <1>2, <1>3, <1>5, <1>7, <1>8, <1>9, <1>10, <1>11, <1>13, <1>14,
     <1>15, <1>16 DEF Next

-----------------------------------------------------------------------------

(* A session in no list is untouched; one whose onClose() has started is    *)
(* on its way down.                                                         *)
ReadyPhases ==
  \A s \in Sessions :
    /\ ~Tracked(s) => /\ client[s] = "none" /\ onClose[s] = "none"
                      /\ step[s] # "foreign" => ready[s] = "none"
    /\ step[s] = "connecting" => client[s] = "none" /\ onClose[s] = "none"
    /\ onClose[s] # "none" => ready[s] \in {"closing", "closed"}
    /\ onClose[s] = "done" => ready[s] = "closed" \/ client[s] = "bare"

(* The registry holds live connections under their own ids; the hibernating *)
(* manager leaves it empty.                                                 *)
Tidy ==
  \A i \in Ids :
    registry[i] # None =>
      /\ ~Hibernate
      /\ Tracked(registry[i]) /\ id[registry[i]] = i
      /\ ready[registry[i]] # "closed" /\ onClose[registry[i]] = "none"

LEMMA StepPhases == TypeOK /\ ReadyPhases /\ [Next]_vars => ReadyPhases'
<1> SUFFICES ASSUME TypeOK, ReadyPhases, [Next]_vars PROVE ReadyPhases'
  OBVIOUS
<1> USE DEF TypeOK, ReadyPhases, Steps, Tracked
<1>1. ASSUME NEW s \in Sessions, NEW i \in Ids, Fetch(s, i) PROVE ReadyPhases'
  BY <1>1 DEF Fetch
<1>2. ASSUME NEW s \in Sessions,
             TagsRejected(s) \/ Serve(s) \/ OnConnectThrows(s)
      PROVE  ReadyPhases'
  BY <1>2 DEF TagsRejected, Serve, OnConnectThrows
<1>3. ASSUME NEW s \in Sessions, NEW userTags \in SUBSET Ids,
             Accept(s, userTags)
      PROVE  ReadyPhases'
  BY <1>3 DEF Accept
<1>4. ASSUME NEW s \in Sessions, ServerCloses(s) \/ ClientCloses(s)
      PROVE  ReadyPhases'
  BY <1>4 DEF ServerCloses, ClientCloses
<1>5. ASSUME NEW s \in Sessions, CloseArrives(s) PROVE ReadyPhases'
  BY <1>5 DEF CloseArrives
<1>6. ASSUME NEW s \in Sessions, OnCloseSettles(s) PROVE ReadyPhases'
  BY <1>6 DEF OnCloseSettles, Reciprocate
<1>7. ASSUME NEW s \in Sessions, Drop(s) PROVE ReadyPhases'
  BY <1>7 DEF Drop
<1>8. ASSUME NEW without \in SUBSET Ids, Broadcast(without) PROVE ReadyPhases'
  BY <1>8 DEF Broadcast, Targets, Yielded, YieldedInMemory,
     YieldedHibernating, GetWebSockets, InMap
<1>11. ASSUME NEW s \in Sessions, NEW v \in {"falsy", "truthy"}, SetState(s, v)
       PROVE  ReadyPhases'
  BY <1>11 DEF SetState, connVars
<1>12. CASE Sleep
  BY <1>12 DEF Sleep, connVars
<1>13. ASSUME NEW s \in Sessions, NEW itsTags \in SUBSET Ids,
              AcceptForeign(s, itsTags)
       PROVE  ReadyPhases'
  BY <1>13 DEF AcceptForeign
<1>14. ASSUME NEW s \in Sessions, ForeignEvent(s) PROVE ReadyPhases'
  BY <1>14 DEF ForeignEvent, IsPartyServerWebSocket
<1>9. CASE UNCHANGED vars
  BY <1>9 DEF vars, connVars
<1>10. QED
  BY <1>1, <1>2, <1>3, <1>4, <1>5, <1>6, <1>7, <1>8, <1>9, <1>11, <1>12,
     <1>13, <1>14 DEF Next

(* removeConnection() of s leaves only entries that were there and are not s. *)
LEMMA RemoveTidies ==
  ASSUME TypeOK, Tidy, NEW s \in Sessions, Tracked(s), Remove(s)
  PROVE  \A i \in Ids : registry'[i] # None =>
           registry'[i] = registry[i] /\ registry[i] # s
BY ConnectionsAssumption
   DEF TypeOK, Tidy, Remove, Unregister, Tracked, ConnectionsAssumption

LEMMA StepTidy == TypeOK /\ ReadyPhases /\ Tidy /\ [Next]_vars => Tidy'
<1> SUFFICES ASSUME TypeOK, ReadyPhases, Tidy, [Next]_vars PROVE Tidy'
  OBVIOUS
<1>0. Hibernate' = Hibernate
  BY DEF Next, vars, connVars
<1> USE <1>0, ConnectionsAssumption DEF TypeOK, Tidy, Steps, Tracked,
                                  ConnectionsAssumption
<1>1. ASSUME NEW s \in Sessions, NEW i \in Ids, Fetch(s, i) PROVE Tidy'
  BY <1>1 DEF Fetch
<1>2. ASSUME NEW s \in Sessions,
             TagsRejected(s) \/ Serve(s) \/ OnConnectThrows(s)
      PROVE  Tidy'
  BY <1>2 DEF TagsRejected, Serve, OnConnectThrows
<1>3. ASSUME NEW s \in Sessions, NEW userTags \in SUBSET Ids,
             Accept(s, userTags)
      PROVE  Tidy'
  <2>1. onClose[s] = "none"
    BY <1>3 DEF Accept, ReadyPhases
  <2>2. QED
    BY <1>3, <2>1 DEF Accept, Register
<1>4. ASSUME NEW s \in Sessions, ServerCloses(s) \/ ClientCloses(s)
      PROVE  Tidy'
  BY <1>4 DEF ServerCloses, ClientCloses
<1>5. ASSUME NEW s \in Sessions, CloseArrives(s) PROVE Tidy'
  <2>1. Tracked(s)
    BY <1>5 DEF CloseArrives, ReadyPhases
  <2>2. \A i \in Ids : registry'[i] # None =>
          registry'[i] = registry[i] /\ registry[i] # s
    BY <1>5, <2>1, RemoveTidies DEF CloseArrives
  <2>3. QED
    BY <1>5, <2>2 DEF CloseArrives
<1>6. ASSUME NEW s \in Sessions, OnCloseSettles(s) PROVE Tidy'
  BY <1>6 DEF OnCloseSettles, Reciprocate
<1>7. ASSUME NEW s \in Sessions, Drop(s) PROVE Tidy'
  <2>1. \A i \in Ids : registry'[i] # None =>
          registry'[i] = registry[i] /\ registry[i] # s
    BY <1>7, RemoveTidies DEF Drop
  <2>2. \A t \in Sessions \ {s} : ready'[t] = ready[t] /\ onClose'[t] = onClose[t]
    BY <1>7 DEF Drop
  <2>3. UNCHANGED <<step, id>>
    BY <1>7 DEF Drop
  <2>4. QED
    BY <2>1, <2>2, <2>3
<1>8. ASSUME NEW without \in SUBSET Ids, Broadcast(without) PROVE Tidy'
  BY <1>8 DEF Broadcast, Targets, Yielded, YieldedInMemory, InMap,
     YieldedHibernating, GetWebSockets
<1>11. ASSUME NEW s \in Sessions, NEW v \in {"falsy", "truthy"}, SetState(s, v)
       PROVE  Tidy'
  BY <1>11 DEF SetState, connVars
<1>12. CASE Sleep
  BY <1>12 DEF Sleep, connVars
<1>13. ASSUME NEW s \in Sessions, NEW itsTags \in SUBSET Ids,
              AcceptForeign(s, itsTags)
       PROVE  Tidy'
  BY <1>13 DEF AcceptForeign
<1>14. ASSUME NEW s \in Sessions, ForeignEvent(s) PROVE Tidy'
  BY <1>14 DEF ForeignEvent, IsPartyServerWebSocket
<1>9. CASE UNCHANGED vars
  BY <1>9 DEF vars, connVars
<1>10. QED
  BY <1>1, <1>2, <1>3, <1>4, <1>5, <1>6, <1>7, <1>8, <1>9, <1>11, <1>12,
     <1>13, <1>14 DEF Next

(* The state of every session and of the registry is well-formed.           *)
THEOREM TypeCorrect == Spec => []TypeOK
<1>1. QED
  BY InitTypeOK, StepTypeOK, PTL DEF Spec

LEMMA InitTidy == Init => ReadyPhases /\ Tidy
BY DEF Init, ReadyPhases, Tidy, Tracked

LEMMA TidyForgets == ReadyPhases /\ Tidy /\ TypeOK => ClosedIsForgotten
<1> SUFFICES ASSUME ReadyPhases, Tidy, TypeOK, NEW s \in Sessions,
                    ready[s] = "closed" \/ onClose[s] # "none"
                      \/ step[s] = "foreign"
             PROVE  /\ \A tag \in Ids \cup {None} : s \notin Yielded(tag)
                    /\ \/ \A i \in Ids : s \notin Lookup(i)
                       \/ Hibernate /\ ready[s] = "closing"
                            /\ IsPartyServerWebSocket(s)
  BY DEF ClosedIsForgotten
<1>1. ASSUME NEW i \in Ids, registry[i] = s PROVE FALSE
  BY <1>1, ConnectionsAssumption
     DEF Tidy, Tracked, ConnectionsAssumption
<1>2. ASSUME NEW tag \in Ids \cup {None} PROVE s \notin Yielded(tag)
  <2>1. CASE Hibernate
    <3>1. ready[s] # "open" \/ step[s] = "foreign"
      BY DEF ReadyPhases
    <3>2. QED
      BY <2>1, <3>1 DEF Yielded, YieldedHibernating, IsPartyServerWebSocket
  <2>2. CASE ~Hibernate
    <3>1. ~InMap(s)
      BY <1>1 DEF InMap, TypeOK, Tracked
    <3>2. QED
      BY <2>2, <3>1 DEF Yielded, YieldedInMemory
  <2>3. QED
    BY <2>1, <2>2
<1>3. ASSUME ~Hibernate, NEW i \in Ids PROVE s \notin Lookup(i)
  BY <1>1, <1>3 DEF Lookup, LookupInMemory
<1>4. ASSUME Hibernate, ready[s] # "closing" \/ ~IsPartyServerWebSocket(s),
             NEW i \in Ids
      PROVE  s \notin Lookup(i)
  <2>1. ready[s] # "open" \/ ~IsPartyServerWebSocket(s)
    BY DEF ReadyPhases, IsPartyServerWebSocket
  <2>2. s \notin LookupHibernating(i)
    BY <1>4, <2>1 DEF LookupHibernating, GetWebSockets
  <2>3. QED
    BY <1>4, <2>2 DEF Lookup
<1>5. QED
  BY <1>2, <1>3, <1>4

(* A connection that has had its close or error event is yielded for no tag *)
(* again, with either manager and whatever ids clients use, and answered by *)
(* no getConnection() except the hibernating one while it is closing.       *)
THEOREM DeadAreForgotten == Spec => []ClosedIsForgotten
<1>1. QED
  BY InitTypeOK, StepTypeOK, InitTidy, StepPhases, StepTidy, TidyForgets, PTL
     DEF Spec

-----------------------------------------------------------------------------

(* The session's id is taken: Free() would refuse it.                       *)
Around(s) == step[s] = "tagging" \/ (Tracked(s) /\ ready[s] # "closed")

Distinct ==
  \A s, t \in Sessions : Around(s) /\ Around(t) /\ id[s] = id[t] => s = t

\* Every live connection is registered.
Present ==
  \A s \in Sessions :
    Tracked(s) /\ ready[s] # "closed" /\ onClose[s] = "none" =>
      registry[id[s]] = s

(* Only Fetch() makes a session one that holds an id.                       *)
LEMMA AroundShrinks ==
  ASSUME TypeOK, [Next]_vars,
         \A s \in Sessions, i \in Ids : ~Fetch(s, i)
  PROVE  /\ UNCHANGED id
         /\ \A s \in Sessions : Around(s)' => Around(s)
<1> USE DEF Around, TypeOK, Steps, Tracked
<1>1. ASSUME NEW s \in Sessions,
             TagsRejected(s) \/ Serve(s) \/ OnConnectThrows(s)
      PROVE  UNCHANGED id /\ \A t \in Sessions : Around(t)' => Around(t)
  BY <1>1 DEF TagsRejected, Serve, OnConnectThrows
<1>2. ASSUME NEW s \in Sessions, NEW userTags \in SUBSET Ids,
             Accept(s, userTags)
      PROVE  UNCHANGED id /\ \A t \in Sessions : Around(t)' => Around(t)
  BY <1>2 DEF Accept
<1>3. ASSUME NEW s \in Sessions, ServerCloses(s) \/ ClientCloses(s)
      PROVE  UNCHANGED id /\ \A t \in Sessions : Around(t)' => Around(t)
  BY <1>3 DEF ServerCloses, ClientCloses
<1>4. ASSUME NEW s \in Sessions, CloseArrives(s)
      PROVE  UNCHANGED id /\ \A t \in Sessions : Around(t)' => Around(t)
  BY <1>4 DEF CloseArrives
<1>5. ASSUME NEW s \in Sessions, OnCloseSettles(s)
      PROVE  UNCHANGED id /\ \A t \in Sessions : Around(t)' => Around(t)
  BY <1>5 DEF OnCloseSettles, Reciprocate
<1>6. ASSUME NEW s \in Sessions, Drop(s)
      PROVE  UNCHANGED id /\ \A t \in Sessions : Around(t)' => Around(t)
  BY <1>6 DEF Drop
<1>7. ASSUME NEW without \in SUBSET Ids, Broadcast(without)
      PROVE  UNCHANGED id /\ \A t \in Sessions : Around(t)' => Around(t)
  BY <1>7 DEF Broadcast, Targets, Yielded, YieldedInMemory,
     YieldedHibernating, GetWebSockets, InMap
<1>11. ASSUME NEW s \in Sessions, NEW v \in {"falsy", "truthy"}, SetState(s, v)
       PROVE  UNCHANGED id /\ \A t \in Sessions : Around(t)' => Around(t)
  BY <1>11 DEF SetState, connVars
<1>12. CASE Sleep
  BY <1>12 DEF Sleep, connVars
<1>13. ASSUME NEW s \in Sessions, NEW itsTags \in SUBSET Ids,
              AcceptForeign(s, itsTags)
       PROVE  UNCHANGED id /\ \A t \in Sessions : Around(t)' => Around(t)
  BY <1>13 DEF AcceptForeign
<1>14. ASSUME NEW s \in Sessions, ForeignEvent(s) PROVE UNCHANGED id /\ \A t \in Sessions : Around(t)' => Around(t)
  BY <1>14 DEF ForeignEvent, IsPartyServerWebSocket
<1>8. CASE UNCHANGED vars
  BY <1>8 DEF vars, connVars
<1>9. QED
  BY <1>1, <1>2, <1>3, <1>4, <1>5, <1>6, <1>7, <1>8, <1>11, <1>12, <1>13,
     <1>14 DEF Next

LEMMA StepDistinct ==
  ~Hibernate /\ ~ReuseIds /\ TypeOK /\ Distinct /\ [Next]_vars => Distinct'
<1> SUFFICES ASSUME ~Hibernate, ~ReuseIds, TypeOK, Distinct, [Next]_vars PROVE Distinct'
  OBVIOUS
<1>1. ASSUME NEW s \in Sessions, NEW i \in Ids, Fetch(s, i) PROVE Distinct'
  <2>1. \A t \in Sessions : id[t] = i => ~Around(t)
    BY <1>1 DEF Fetch, Free, Around, Tracked
  <2>2. \A t \in Sessions \ {s} : id'[t] = id[t] /\ (Around(t)' <=> Around(t))
    BY <1>1 DEF Fetch, Around, Tracked, TypeOK
  <2>3. id'[s] = i
    BY <1>1 DEF Fetch, TypeOK
  <2>4. QED
    BY <2>1, <2>2, <2>3 DEF Distinct
<1>2. CASE \A s \in Sessions, i \in Ids : ~Fetch(s, i)
  BY <1>2, AroundShrinks DEF Distinct
<1>3. QED
  BY <1>1, <1>2

(* removeConnection() of s keeps the entries of all other live connections. *)
LEMMA RemoveKeeps ==
  ASSUME TypeOK, Distinct, Present, ~Hibernate,
         NEW s \in Sessions, Around(s), Remove(s),
         NEW t \in Sessions, t # s,
         Tracked(t), ready[t] # "closed", onClose[t] = "none"
  PROVE  registry'[id[t]] = t
<1>1. id[t] # id[s]
  BY DEF Distinct, Around
<1>2. id[t] \in Ids
  BY DEF TypeOK, Tracked
<1>3. QED
  BY <1>1, <1>2 DEF Remove, Unregister, Present, TypeOK

LEMMA StepPresent ==
  TypeOK /\ ReadyPhases /\ Distinct /\ ~Hibernate /\ Present /\ [Next]_vars
    => Present'
<1> SUFFICES ASSUME TypeOK, ReadyPhases, Distinct, ~Hibernate, Present, [Next]_vars
             PROVE  Present'
  OBVIOUS
<1>1. ASSUME NEW s \in Sessions, NEW i \in Ids, Fetch(s, i) PROVE Present'
  BY <1>1 DEF Fetch, TypeOK, Present, Tracked
<1>2. ASSUME NEW s \in Sessions,
             TagsRejected(s) \/ Serve(s) \/ OnConnectThrows(s)
      PROVE  Present'
  BY <1>2 DEF TagsRejected, Serve, OnConnectThrows, TypeOK, Present, Tracked
<1>3. ASSUME NEW s \in Sessions, NEW userTags \in SUBSET Ids,
             Accept(s, userTags)
      PROVE  Present'
  <2>1. \A t \in Sessions \ {s} :
          Tracked(t) /\ ready[t] # "closed" => id[t] # id[s]
    BY <1>3 DEF Accept, Distinct, Around
  <2>2. id[s] \in Ids
    BY <1>3 DEF Accept, TypeOK
  <2>3. \A t \in Sessions \ {s} : ready'[t] = ready[t] /\ step'[t] = step[t]
    BY <1>3 DEF Accept, TypeOK
  <2>4. registry' = [registry EXCEPT ![id[s]] = s] /\ UNCHANGED <<id, onClose>>
    BY <1>3 DEF Accept, Register
  <2>5. QED
    BY <2>1, <2>2, <2>3, <2>4 DEF Present, Tracked, TypeOK
<1>4. ASSUME NEW s \in Sessions, ServerCloses(s) \/ ClientCloses(s)
      PROVE  Present'
  BY <1>4 DEF ServerCloses, ClientCloses, TypeOK, Present, Tracked
<1>5. ASSUME NEW s \in Sessions, CloseArrives(s) PROVE Present'
  <2>1. Tracked(s) /\ Around(s)
    BY <1>5 DEF CloseArrives, ReadyPhases, Around
  <2>2. \A t \in Sessions \ {s} : ready'[t] = ready[t] /\ onClose'[t] = onClose[t]
    BY <1>5 DEF CloseArrives, TypeOK
  <2>3. onClose'[s] # "none" /\ Remove(s) /\ UNCHANGED <<step, id>>
    BY <1>5 DEF CloseArrives, TypeOK
  <2>4. QED
    BY <2>1, <2>2, <2>3, RemoveKeeps DEF Present, Tracked
<1>6. ASSUME NEW s \in Sessions, OnCloseSettles(s) PROVE Present'
  BY <1>6 DEF OnCloseSettles, Reciprocate, TypeOK, Present, Tracked
<1>7. ASSUME NEW s \in Sessions, Drop(s) PROVE Present'
  <2>1. Around(s) /\ UNCHANGED <<step, id>>
    BY <1>7 DEF Drop, Around
  <2>2. \A t \in Sessions \ {s} : ready'[t] = ready[t] /\ onClose'[t] = onClose[t]
    BY <1>7 DEF Drop, TypeOK
  <2>3. ready'[s] = "closed"
    BY <1>7 DEF Drop, TypeOK
  <2>4. CASE Remove(s)
    BY <2>1, <2>2, <2>3, <2>4, RemoveKeeps DEF Present, Tracked
  <2>5. CASE UNCHANGED registry
    BY <2>1, <2>2, <2>3, <2>5 DEF Present, Tracked
  <2>6. QED
    BY <1>7, <2>4, <2>5 DEF Drop
<1>8. ASSUME NEW without \in SUBSET Ids, Broadcast(without) PROVE Present'
  BY <1>8 DEF Broadcast, Targets, Yielded, YieldedInMemory, InMap, Present, Tracked
<1>11. ASSUME NEW s \in Sessions, NEW v \in {"falsy", "truthy"}, SetState(s, v)
       PROVE  Present'
  BY <1>11 DEF SetState, connVars, TypeOK, Present, Tracked
<1>12. CASE Sleep
  BY <1>12 DEF Sleep, connVars, TypeOK, Present, Tracked
<1>13. ASSUME NEW s \in Sessions, NEW itsTags \in SUBSET Ids,
              AcceptForeign(s, itsTags)
       PROVE  Present'
  BY <1>13 DEF AcceptForeign, TypeOK, Present, Tracked
<1>14. ASSUME NEW s \in Sessions, ForeignEvent(s) PROVE Present'
  BY <1>14 DEF ForeignEvent, IsPartyServerWebSocket, TypeOK, Present, Tracked
<1>9. CASE UNCHANGED vars
  BY <1>9 DEF vars, connVars, Present, Tracked
<1>10. QED
  BY <1>1, <1>2, <1>3, <1>4, <1>5, <1>6, <1>7, <1>8, <1>9, <1>11, <1>12,
     <1>13, <1>14 DEF Next

(* With the in-memory manager and no early reuse, both hold; which manager  *)
(* it is never changes.                                                     *)
Kept == ~Hibernate => Distinct /\ Present

LEMMA InitKept == Init => Kept
BY DEF Init, Kept, Distinct, Present, Around, Tracked

LEMMA StepKept == ~ReuseIds /\ TypeOK /\ ReadyPhases /\ Kept /\ [Next]_vars => Kept'
<1>1. [Next]_vars => Hibernate' = Hibernate
  BY DEF Next, vars, connVars
<1>2. QED
  BY <1>1, StepDistinct, StepPresent DEF Kept

LEMMA ListedInMemory ==
  ~Hibernate /\ TypeOK /\ ReadyPhases /\ Present => ConnectedIsListed
BY DEF TypeOK, ReadyPhases, Present, ConnectedIsListed, Connected, Yielded,
       YieldedInMemory, YieldedHibernating, GetWebSockets, InMap, Tracked

LEMMA ListedByPlatform == Hibernate /\ TypeOK /\ ReadyPhases => ConnectedIsListed
BY DEF TypeOK, ReadyPhases, ConnectedIsListed, Connected, Yielded,
       YieldedHibernating, GetWebSockets, IsPartyServerWebSocket, Tracked

(* A broadcast goes to every connected client: always with the hibernating  *)
(* manager, and with the in-memory one when no client comes back under an   *)
(* id whose old socket is still around.                                     *)
THEOREM ConnectedAreListed == ~ReuseIds /\ Spec => []ConnectedIsListed
<1> SUFFICES ASSUME ~ReuseIds PROVE Spec => []ConnectedIsListed
  OBVIOUS
<1>1. TypeOK /\ ReadyPhases /\ Kept => ConnectedIsListed
  BY ListedInMemory, ListedByPlatform DEF Kept
<1>2. QED
  BY <1>1, InitTypeOK, StepTypeOK, InitTidy, StepPhases, InitKept, StepKept,
     PTL DEF Spec

LEMMA FoundInMemory ==
  ~Hibernate /\ TypeOK /\ ReadyPhases /\ Tidy /\ Present => LookupFindsConnected
<1> SUFFICES ASSUME ~Hibernate, TypeOK, ReadyPhases, Tidy, Present,
                    NEW s \in Sessions, Connected(s)
             PROVE  Lookup(id[s]) = {s}
  BY DEF LookupFindsConnected
<1>1. Tracked(s) /\ onClose[s] = "none" /\ id[s] \in Ids /\ s # None
  BY ConnectionsAssumption
     DEF ConnectionsAssumption, Connected, ReadyPhases, TypeOK, Tracked
<1>2. registry[id[s]] = s
  BY <1>1 DEF Present, Connected
<1>3. QED
  BY <1>1, <1>2 DEF Lookup, LookupInMemory

(* What the platform lists under an id it is asked for, and the connection  *)
(* filter lets through, is the connection itself or a twin of it.           *)
LEMMA FoundByPlatform ==
  Hibernate /\ TypeOK /\ ReadyPhases => LookupFindsConnected
<1> SUFFICES ASSUME Hibernate, TypeOK, ReadyPhases,
                    NEW s \in Sessions, Connected(s)
             PROVE  /\ \/ Lookup(id[s]) = {s}
                       \/ \E t \in Sessions : Twin(s, t)
                    /\ \A t \in Lookup(id[s]) : id[t] = id[s]
  BY DEF LookupFindsConnected
<1>1. Lookup(id[s]) = LookupHibernating(id[s])
  BY DEF Lookup
<1>2. Tracked(s) /\ id[s] \in tags[s]
  BY DEF Connected, ReadyPhases, TypeOK
<1>3. s \in LookupHibernating(id[s])
  BY <1>2 DEF LookupHibernating, GetWebSockets, Connected,
     IsPartyServerWebSocket, Tracked
<1>4. ASSUME NEW t \in LookupHibernating(id[s])
      PROVE  t \in Sessions /\ id[t] = id[s] /\ (t = s \/ Twin(s, t))
  BY DEF LookupHibernating, GetWebSockets, Twin, IsPartyServerWebSocket
<1>5. QED
  BY <1>1, <1>3, <1>4

(* Under the same condition getConnection() answers with that connection    *)
(* alone in memory; hibernating, no such condition is made and it does so   *)
(* unless a second connection with the id is not closed yet.                *)
THEOREM LookupIsExact == ~ReuseIds /\ Spec => []LookupFindsConnected
<1> SUFFICES ASSUME ~ReuseIds PROVE Spec => []LookupFindsConnected
  OBVIOUS
<1>1. TypeOK /\ ReadyPhases /\ Tidy /\ Kept => LookupFindsConnected
  BY FoundInMemory, FoundByPlatform DEF Kept
<1>2. QED
  BY <1>1, InitTypeOK, StepTypeOK, InitTidy, StepPhases, StepTidy, InitKept,
     StepKept, PTL DEF Spec
-----------------------------------------------------------------------------

(* The cache of a wrapped connection agrees with the attachment; an         *)
(* unaccepted or in-memory connection is its own and only copy.             *)
Cached ==
  \A s \in Sessions :
    /\ Hibernate /\ Tracked(s) => own[s] \in {"cold", saved[s]}
    /\ ~Hibernate \/ ~Tracked(s) => own[s] # "cold"
    /\ step[s] \in {"new", "foreign"} => own[s] = "null" /\ last[s] = "null"

LEMMA InitCached == Init => Cached /\ StateIsKept
BY DEF Init, Cached, StateIsKept, State, Tracked

LEMMA StepCached ==
  TypeOK /\ Cached /\ StateIsKept /\ [Next]_vars => Cached' /\ StateIsKept'
<1> SUFFICES ASSUME TypeOK, Cached, StateIsKept, [Next]_vars
             PROVE  Cached' /\ StateIsKept'
  OBVIOUS
<1>0. Hibernate' = Hibernate
  BY DEF Next, vars, connVars
<1> USE <1>0 DEF TypeOK, Cached, StateIsKept, State, Steps, Tracked, Values,
                 attachments
<1>1. ASSUME NEW s \in Sessions, NEW i \in Ids, Fetch(s, i)
      PROVE  Cached' /\ StateIsKept'
  BY <1>1 DEF Fetch
<1>2. ASSUME NEW s \in Sessions,
             TagsRejected(s) \/ Serve(s) \/ OnConnectThrows(s)
      PROVE  Cached' /\ StateIsKept'
  BY <1>2 DEF TagsRejected, Serve, OnConnectThrows
<1>3. ASSUME NEW s \in Sessions, NEW userTags \in SUBSET Ids,
             Accept(s, userTags)
      PROVE  Cached' /\ StateIsKept'
  BY <1>3 DEF Accept, CreateLazyConnection
<1>4. ASSUME NEW s \in Sessions, NEW v \in {"falsy", "truthy"}, SetState(s, v)
      PROVE  Cached' /\ StateIsKept'
  BY <1>4 DEF SetState, SerializeAttachment, connVars
<1>5. CASE Sleep
  BY <1>5 DEF Sleep, connVars
<1>6. ASSUME NEW s \in Sessions, NEW itsTags \in SUBSET Ids,
             AcceptForeign(s, itsTags) \/ ForeignEvent(s)
      PROVE  Cached' /\ StateIsKept'
  BY <1>6 DEF AcceptForeign, ForeignEvent
<1>7. ASSUME NEW s \in Sessions,
             \/ ServerCloses(s) \/ ClientCloses(s) \/ CloseArrives(s)
             \/ OnCloseSettles(s) \/ Drop(s)
      PROVE  Cached' /\ StateIsKept'
  <2>1. UNCHANGED <<step, attachments>>
    BY <1>7 DEF ServerCloses, ClientCloses, CloseArrives, OnCloseSettles, Drop
  <2>2. QED
    BY <2>1
<1>8. ASSUME NEW without \in SUBSET Ids, Broadcast(without)
      PROVE  Cached' /\ StateIsKept'
  BY <1>8 DEF Broadcast
<1>9. CASE UNCHANGED vars
  BY <1>9 DEF vars, connVars
<1> HIDE DEF TypeOK, Cached, StateIsKept, State, Steps, Tracked, Values,
             attachments
<1>10. QED
  BY <1>1, <1>2, <1>3, <1>4, <1>5, <1>6, <1>7, <1>8, <1>9 DEF Next

(* What setState() was given last is what connection.state returns, through *)
(* acceptance and any number of hibernations, with either manager.          *)
THEOREM StateSurvives == Spec => []StateIsKept
<1>1. QED
  BY InitTypeOK, StepTypeOK, InitCached, StepCached, PTL DEF Spec

-----------------------------------------------------------------------------
(* The life of the object: type correctness.                               *)

LEMMA AfterErrorType ==
  ASSUME NEW c \in Clients, NEW retryable
  PROVE  AfterError(c, retryable) \in {"delay", "error"}
  BY DEF AfterError

ObjectOK ==
  /\ status \in {"down", "zero", "starting", "started"}
  /\ ctxName \in {OwnName, Undefined} /\ {name, stored, known} \subseteq Names \cup {Undefined}
  /\ status = "down" => ctxName = Undefined /\ name = Undefined
  /\ starter \in Clients \cup {Undefined}

CallsOK ==
  /\ phase \in [Clients -> Phases] /\ request \in [Clients -> Requests]
  /\ attempt \in [Clients -> 0..MaxAttempts] /\ handled \in [Clients -> Nat]
  /\ evictions \in 0..MaxEvictions
  \* A call is only ever tried again with an attempt left.
  /\ \A c \in Clients : phase[c] = "delay" => attempt[c] + 1 <= MaxAttempts

LifeTyped == ObjectOK /\ CallsOK

LEMMA ObjectStep ==
  ASSUME LifeTyped, [LifeNext]_lifeVars
  PROVE  ObjectOK'
<1> USE LifecycleAssumption DEF LifeTyped, ObjectOK
<1>1. ASSUME NEW c \in Clients, Deliver(c)
      PROVE  ObjectOK'
  <2>1. request[c].name \in Names \cup {Undefined}
    BY DEF CallsOK, Requests
  <2>2. request[c].kind = "setName" => request[c].name \in Names
    BY DEF CallsOK, Requests
  <2>3. CASE status = "zero"
    BY <1>1, <2>1, <2>2, <2>3 DEF Deliver, Ensure, Open, object
  <2>4. CASE status = "started"
    BY <1>1, <2>1, <2>2, <2>4 DEF Deliver, Open, object
  <2> QED BY <1>1, <2>3, <2>4 DEF Deliver, Open
<1>2. ASSUME NEW c \in Clients,
             \/ \E r \in Requests : Call(c, r)
             \/ \E retryable \in BOOLEAN : Refused(c, retryable)
             \/ Retry(c) \/ Reply(c)
      PROVE  ObjectOK'
  BY <1>2 DEF Call, Refused, Retry, Reply, object
<1>3. ASSUME Construct PROVE ObjectOK'
  BY <1>3 DEF Construct
<1>4. ASSUME PlatformEvent PROVE ObjectOK'
  BY <1>4 DEF PlatformEvent, Ensure
<1>5. ASSUME OnStartEnds \/ OnStartThrows PROVE ObjectOK'
  BY <1>5 DEF OnStartEnds, OnStartThrows
<1>6. ASSUME Evict PROVE ObjectOK'
  BY <1>6 DEF Evict
<1>7. ASSUME UNCHANGED lifeVars PROVE ObjectOK'
  BY <1>7 DEF lifeVars, object
<1> QED BY <1>1, <1>2, <1>3, <1>4, <1>5, <1>6, <1>7 DEF LifeNext

LEMMA CallsStep ==
  ASSUME LifeTyped, [LifeNext]_lifeVars
  PROVE  CallsOK'
<1> USE LifecycleAssumption DEF LifeTyped, CallsOK, Phases
<1>1. ASSUME NEW c \in Clients, NEW r \in Requests, Call(c, r)
      PROVE  CallsOK'
  BY <1>1 DEF Call
<1>2. ASSUME NEW c \in Clients, NEW retryable \in BOOLEAN, Refused(c, retryable)
      PROVE  CallsOK'
  BY <1>2 DEF Refused, AfterError
<1>3. ASSUME NEW c \in Clients, Retry(c)
      PROVE  CallsOK'
  BY <1>3 DEF Retry
<1>4. ASSUME NEW c \in Clients, Reply(c)
      PROVE  CallsOK'
  BY <1>4 DEF Reply
<1>5. ASSUME NEW c \in Clients, Deliver(c)
      PROVE  CallsOK'
  <2>1. /\ phase' \in [Clients -> Phases] /\ handled' \in [Clients -> Nat]
        /\ \A d \in Clients : phase'[d] = "delay" => phase[d] = "delay"
    <3>1. CASE Rejects(request[c])
      BY <1>5, <3>1 DEF Deliver
    <3>2. CASE ~Rejects(request[c]) /\ status # "started"
      BY <1>5, <3>2 DEF Deliver
    <3>3. CASE ~Rejects(request[c]) /\ status = "started"
      <4>1. PICK p \in {"handled", "error"} : phase' = [phase EXCEPT ![c] = p]
        BY <1>5, <3>3 DEF Deliver, PhaseServed
      <4>2. \/ handled' = [handled EXCEPT ![c] = handled[c] + 1]
            \/ handled' = [handled EXCEPT ![c] = handled[c]]
        BY <1>5, <3>3 DEF Deliver
      <4> QED BY <4>1, <4>2
    <3> QED BY <3>1, <3>2, <3>3
  <2>2. UNCHANGED <<request, attempt, evictions>>
    BY <1>5 DEF Deliver
  <2> QED BY <2>1, <2>2
<1>6. ASSUME Construct \/ PlatformEvent \/ UNCHANGED lifeVars
      PROVE  CallsOK'
  BY <1>6 DEF Construct, PlatformEvent, lifeVars, calls
<1>7. ASSUME OnStartEnds PROVE CallsOK'
  <2>1. CASE starter = Undefined
    BY <1>7, <2>1 DEF OnStartEnds
  <2>2. CASE starter # Undefined
    BY <1>7, <2>2 DEF OnStartEnds, PhaseServed, ObjectOK
  <2> QED BY <2>1, <2>2
<1>8. ASSUME OnStartThrows PROVE CallsOK'
  BY <1>8 DEF OnStartThrows
<1>9. ASSUME Evict PROVE CallsOK'
  BY <1>9 DEF Evict, AfterError
<1> QED
  BY <1>1, <1>2, <1>3, <1>4, <1>5, <1>6, <1>7, <1>8, <1>9 DEF LifeNext

THEOREM LifeAlwaysTyped == LifeSpec => []LifeTyped
<1>1. LifeInit => LifeTyped
  BY LifecycleAssumption
     DEF LifeInit, LifeTyped, ObjectOK, CallsOK, Phases, Requests
<1>2. LifeTyped /\ [LifeNext]_lifeVars => LifeTyped'
  BY ObjectStep, CallsStep DEF LifeTyped
<1> QED BY <1>1, <1>2, PTL DEF LifeSpec

(* The type invariant: in particular no call is attempted more often than   *)
(* maxAttempts.                                                             *)
THEOREM LifecycleTyped == LifeSpec => []LifeTypeOK
<1>1. LifeTyped => LifeTypeOK
  BY DEF LifeTyped, ObjectOK, CallsOK, LifeTypeOK
<1> QED BY <1>1, LifeAlwaysTyped, PTL

-----------------------------------------------------------------------------
(* Starting.  A call waits for onStart() exactly when it runs it.           *)

LEMMA StarterStep ==
  ASSUME LifeTyped, LifeTyped', StarterWaits, [LifeNext]_lifeVars
  PROVE  StarterWaits'
<1> USE LifecycleAssumption DEF LifeTyped, ObjectOK
<1>a. phase \in [Clients -> Phases]
  BY DEF CallsOK
<1>1. ASSUME NEW c \in Clients, Deliver(c)
      PROVE  StarterWaits'
  <2>1. \A d \in Clients \ {c} : phase'[d] = phase[d] /\ phase[d] # "starting"
    BY <1>1, <1>a DEF Deliver, StarterWaits, Open
  <2>2. CASE Rejects(request[c]) \/ status = "started"
    <3>1. phase'[c] # "starting" /\ status' = status /\ status # "starting"
      BY <1>1, <1>a, <2>2 DEF Deliver, PhaseServed, Open, object
    <3> QED BY <2>1, <3>1 DEF StarterWaits
  <2>3. CASE ~Rejects(request[c]) /\ status # "started"
    <3>1. phase'[c] = "starting" /\ status' = "starting" /\ starter' = c
      BY <1>1, <1>a, <2>3 DEF Deliver, Ensure
    <3> QED BY <2>1, <3>1 DEF StarterWaits
  <2> QED BY <2>2, <2>3
<1>2. ASSUME NEW c \in Clients,
             \/ \E r \in Requests : Call(c, r)
             \/ \E retryable \in BOOLEAN : Refused(c, retryable)
             \/ Retry(c) \/ Reply(c)
      PROVE  StarterWaits'
  BY <1>2, <1>a DEF Call, Refused, Retry, Reply, object, StarterWaits, AfterError
<1>3. ASSUME Construct \/ PlatformEvent
      PROVE  StarterWaits'
  BY <1>3 DEF Construct, PlatformEvent, Ensure, calls, StarterWaits
<1>4. ASSUME OnStartEnds PROVE StarterWaits'
  BY <1>4, <1>a DEF OnStartEnds, PhaseServed, StarterWaits
<1>5. ASSUME OnStartThrows \/ Evict PROVE StarterWaits'
  BY <1>5, <1>a DEF OnStartThrows, Evict, AfterError, StarterWaits
<1>6. ASSUME UNCHANGED lifeVars PROVE StarterWaits'
  BY <1>6 DEF lifeVars, object, calls, StarterWaits
<1> QED BY <1>1, <1>2, <1>3, <1>4, <1>5, <1>6 DEF LifeNext

(* No event is lost in, or answered by, the start that another event runs.  *)
THEOREM StartIsExclusive == LifeSpec => []StarterWaits
<1>1. LifeInit => StarterWaits
  BY DEF LifeInit, StarterWaits
<1>2. LifeTyped /\ LifeTyped' /\ StarterWaits /\ [LifeNext]_lifeVars => StarterWaits'
  BY StarterStep
<1> QED BY <1>1, <1>2, LifeAlwaysTyped, PTL DEF LifeSpec

-----------------------------------------------------------------------------
(* Names.  Without the header, what is in memory is what is in storage.     *)

NameKept ==
  /\ known # Undefined => stored = known
  /\ name # Undefined => name = stored /\ (ctxName # Undefined => name = ctxName)
  /\ Settled => name = stored /\ (ctxName # Undefined => name = ctxName)

LEMMA NameKeptStep ==
  ASSUME LifeTyped, NameKept, Headers = {}, [LifeNext]_lifeVars
  PROVE  NameKept'
<1> USE LifecycleAssumption DEF LifeTyped, ObjectOK, Settled
<1>1. ASSUME NEW c \in Clients, Deliver(c)
      PROVE  NameKept'
  <2>1. /\ request[c].kind = "fetch" => request[c].name = Undefined
        /\ request[c].kind = "setName" => request[c].name \in Names
        /\ request[c].kind \in {"fetch", "setName"}
    BY DEF CallsOK, Requests
  <2>2. CASE Rejects(request[c])
    BY <1>1, <2>2 DEF Deliver, NameKept, object
  <2>3. CASE ~Rejects(request[c]) /\ request[c].kind = "fetch"
    BY <1>1, <2>1, <2>3 DEF Deliver, Ensure, NameKept, Open
  <2>4. CASE ~Rejects(request[c]) /\ request[c].kind = "setName"
    <3>1. /\ ctxName # Undefined => ctxName = request[c].name
          /\ name # Undefined => name = request[c].name
      BY <2>4 DEF Rejects
    <3> QED BY <1>1, <2>1, <2>4, <3>1 DEF Deliver, Ensure, NameKept, Open
  <2> QED BY <2>1, <2>2, <2>3, <2>4
<1>2. ASSUME NEW c \in Clients,
             \/ \E r \in Requests : Call(c, r)
             \/ \E retryable \in BOOLEAN : Refused(c, retryable)
             \/ Retry(c) \/ Reply(c)
      PROVE  NameKept'
  BY <1>2 DEF Call, Refused, Retry, Reply, object, NameKept
<1>3. ASSUME Construct PROVE NameKept'
  BY <1>3 DEF Construct, NameKept
<1>4. ASSUME PlatformEvent PROVE NameKept'
  BY <1>4 DEF PlatformEvent, Ensure, NameKept
<1>5. ASSUME OnStartEnds \/ OnStartThrows PROVE NameKept'
  BY <1>5 DEF OnStartEnds, OnStartThrows, NameKept
<1>6. ASSUME Evict PROVE NameKept'
  BY <1>6 DEF Evict, NameKept
<1>7. ASSUME UNCHANGED lifeVars PROVE NameKept'
  BY <1>7 DEF lifeVars, object, NameKept
<1> QED BY <1>1, <1>2, <1>3, <1>4, <1>5, <1>6, <1>7 DEF LifeNext

(* A name, once the object was started under it or given it by setName(),   *)
(* is seen by every later incarnation, when no framework sends the header.  *)
THEOREM NameSurvives == Headers = {} => (LifeSpec => []KnownNameSurvives)
<1> SUFFICES ASSUME Headers = {}
             PROVE  LifeSpec => []KnownNameSurvives
  OBVIOUS
<1>1. LifeInit => NameKept
  BY DEF LifeInit, NameKept, Settled
<1>2. LifeTyped /\ NameKept /\ [LifeNext]_lifeVars => NameKept'
  BY NameKeptStep
<1>3. NameKept => KnownNameSurvives
  BY DEF NameKept, KnownNameSurvives, Visible
<1> QED BY <1>1, <1>2, <1>3, LifeAlwaysTyped, PTL DEF LifeSpec

-----------------------------------------------------------------------------
(* Attempts.  While an attempt is on its way, it has not been handled.      *)

Accounted ==
  \A c \in Clients :
    /\ handled[c] <= attempt[c]
    /\ phase[c] \in {"sent", "starting"} => handled[c] < attempt[c]
    /\ phase[c] \in {"handled", "ok"} => handled[c] > 0
    /\ phase[c] = "idle" => handled[c] = 0

LEMMA AccountedStep ==
  ASSUME LifeTyped, StarterWaits, Accounted, [LifeNext]_lifeVars
  PROVE  Accounted'
<1> USE LifecycleAssumption DEF LifeTyped, CallsOK, Phases
<1>1. ASSUME NEW c \in Clients, NEW r \in Requests, Call(c, r)
      PROVE  Accounted'
  BY <1>1 DEF Call, Accounted
<1>2. ASSUME NEW c \in Clients, NEW retryable \in BOOLEAN, Refused(c, retryable)
      PROVE  Accounted'
  BY <1>2 DEF Refused, AfterError, Accounted
<1>3. ASSUME NEW c \in Clients, Retry(c)
      PROVE  Accounted'
  BY <1>3 DEF Retry, Accounted
<1>4. ASSUME NEW c \in Clients, Reply(c)
      PROVE  Accounted'
  BY <1>4 DEF Reply, Accounted
<1>5. ASSUME NEW c \in Clients, Deliver(c)
      PROVE  Accounted'
  <2>1. phase[c] = "sent" /\ UNCHANGED attempt
    BY <1>5 DEF Deliver
  <2>2. \A d \in Clients \ {c} : phase'[d] = phase[d] /\ handled'[d] = handled[d]
    BY <1>5 DEF Deliver
  <2>3. CASE Rejects(request[c])
    BY <1>5, <2>1, <2>2, <2>3 DEF Deliver, Accounted
  <2>4. CASE ~Rejects(request[c]) /\ status # "started"
    BY <1>5, <2>1, <2>2, <2>4 DEF Deliver, Accounted
  <2>5. CASE ~Rejects(request[c]) /\ status = "started"
    <3>1. \/ phase'[c] = "handled" /\ handled'[c] = handled[c] + 1
          \/ phase'[c] = "error" /\ handled'[c] = handled[c]
      BY <1>5, <2>5 DEF Deliver, PhaseServed
    <3> QED BY <2>1, <2>2, <3>1 DEF Accounted
  <2> QED BY <2>3, <2>4, <2>5
<1>6. ASSUME Construct \/ PlatformEvent \/ UNCHANGED lifeVars
      PROVE  Accounted'
  BY <1>6 DEF Construct, PlatformEvent, lifeVars, calls, Accounted
<1>7. ASSUME OnStartEnds
      PROVE  Accounted'
  <2>1. CASE starter = Undefined
    BY <1>7, <2>1 DEF OnStartEnds, Accounted
  <2>2. CASE starter # Undefined
    <3>1. starter \in Clients /\ phase[starter] = "starting"
      BY <1>7, <2>2 DEF OnStartEnds, ObjectOK, StarterWaits
    <3>2. /\ \A d \in Clients \ {starter} :
               phase'[d] = phase[d] /\ handled'[d] = handled[d]
          /\ \/ phase'[starter] = "handled" /\ handled'[starter] = handled[starter] + 1
             \/ phase'[starter] = "error" /\ handled'[starter] = handled[starter]
          /\ UNCHANGED attempt
      BY <1>7, <2>2, <3>1 DEF OnStartEnds, PhaseServed
    <3> QED BY <3>1, <3>2 DEF Accounted
  <2> QED BY <2>1, <2>2
<1>8. ASSUME OnStartThrows
      PROVE  Accounted'
  BY <1>8 DEF OnStartThrows, Accounted
<1>9. ASSUME Evict
      PROVE  Accounted'
  BY <1>9 DEF Evict, AfterError, Accounted
<1> QED
  BY <1>1, <1>2, <1>3, <1>4, <1>5, <1>6, <1>7, <1>8, <1>9 DEF LifeNext

(* A request is handled at most once per attempt, at most maxAttempts       *)
(* times, and at least once when its caller is told ok.                     *)
THEOREM RetriesAccount == LifeSpec => []AttemptsAccount
<1>1. LifeInit => Accounted
  <2> SUFFICES ASSUME LifeInit, NEW c \in Clients
               PROVE  /\ handled[c] <= attempt[c] /\ handled[c] = 0
                      /\ phase[c] \notin {"sent", "starting", "handled", "ok"}
    BY DEF Accounted
  <2>1. phase[c] = "idle" /\ handled[c] = 0 /\ attempt[c] = 0
    BY DEF LifeInit
  <2> QED BY <2>1
<1>2. LifeTyped /\ StarterWaits /\ Accounted /\ [LifeNext]_lifeVars => Accounted'
  BY AccountedStep
<1>3. LifeTyped /\ Accounted => AttemptsAccount
  <2> SUFFICES ASSUME LifeTyped, Accounted, NEW c \in Clients
               PROVE  /\ handled[c] <= attempt[c] /\ attempt[c] <= MaxAttempts
                      /\ phase[c] = "sent" => handled[c] < attempt[c]
                      /\ phase[c] \in {"handled", "ok"} => handled[c] > 0
    BY DEF AttemptsAccount
  <2>1. attempt[c] \in 0..MaxAttempts
    BY DEF LifeTyped, CallsOK
  <2> QED BY <2>1, LifecycleAssumption DEF Accounted
<1> QED BY <1>1, <1>2, <1>3, LifeAlwaysTyped, StartIsExclusive, PTL DEF LifeSpec
=============================================================================
