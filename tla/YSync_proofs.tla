---------------------------- MODULE YSync_proofs ----------------------------
(***************************************************************************)
(* Proofs about YSync, for any clients, limits and bounds.                 *)
(***************************************************************************)
EXTENDS YSync, SequenceTheorems, TLAPS

-----------------------------------------------------------------------------
(* Type correctness.                                                        *)

\* The messages that can be made of a document within `s', and what the
\* server sends of them, are well typed.
LEMMA MessageTypes ==
  ASSUME NEW doc, doc \subseteq Updates, NEW sv
  PROVE  /\ Step1(doc) \in Messages /\ Step2(doc, sv) \in Messages
         /\ Update(Integrated(doc) \ sv) \in Messages
  BY DEF Step1, Step2, Update, Messages, Integrated

LEMMA ToAllType ==
  ASSUME NEW M, NEW channels \in [Clients -> Seq(M)], NEW m \in M
  PROVE  ToAll(channels, m) \in [Clients -> Seq(M)]
<1> SUFFICES ASSUME NEW c \in Clients
             PROVE  ToAll(channels, m)[c] \in Seq(M)
  BY DEF ToAll
<1>1. Append(channels[c], m) \in Seq(M)
  BY AppendProperties
<1> QED BY <1>1 DEF ToAll

LEMMA StartedTypes ==
  ASSUME TypeOK
  PROVE  /\ StartedDoc \subseteq Updates
         /\ StartedChannels \in [Clients -> Seq(Messages)]
<1>1. StartedDoc \subseteq Updates
  BY DEF TypeOK, StartedDoc
<1>2. Step1(disk) \in Messages
  BY MessageTypes DEF TypeOK
<1>3. ToAll(toClient, Step1(disk)) \in [Clients -> Seq(Messages)]
  BY <1>2, ToAllType DEF TypeOK
<1> QED BY <1>1, <1>3 DEF TypeOK, StartedChannels

LEMMA ApplyUpdateTypes ==
  ASSUME NEW doc, doc \subseteq Updates, NEW s, s \subseteq Updates, dirty \in BOOLEAN,
         NEW channels \in [Clients -> Seq(Messages)], ApplyUpdate(doc, channels, s)
  PROVE  /\ sdoc' \subseteq Updates /\ dirty' \in BOOLEAN
         /\ toClient' \in [Clients -> Seq(Messages)]
<1> DEFINE new == Integrated(doc \cup s) \ Integrated(doc)
<1>1. /\ sdoc' = doc \cup s /\ dirty' = (dirty \/ new # {})
      /\ toClient' = IF new = {} THEN channels ELSE ToAll(channels, Update(new))
  BY DEF ApplyUpdate
<1>2. Update(new) \in Messages
  BY MessageTypes
<1> HIDE DEF new
<1>3. ToAll(channels, Update(new)) \in [Clients -> Seq(Messages)]
  BY <1>2, ToAllType
<1> QED BY <1>1, <1>3

LEMMA TypeStep ==
  ASSUME TypeOK, [Next]_vars
  PROVE  TypeOK'
<1> USE SyncAssumption
<1>1. ASSUME NEW c \in Clients, ServerReceives(c)
      PROVE  TypeOK'
  <2> DEFINE m == Head(toServer[c])
  <2>1. /\ toServer[c] \in Seq(Messages) /\ toServer[c] # <<>>
        /\ UNCHANGED <<readOnly, disk, conn, docs, synced, faults>>
        /\ toServer' = [toServer EXCEPT ![c] = Tail(@)] /\ awake' = TRUE
    BY <1>1 DEF ServerReceives, TypeOK
  <2>2. m \in Messages /\ Tail(toServer[c]) \in Seq(Messages)
    BY <2>1, HeadTailProperties
  <2>3. m.content \subseteq Updates
    BY <2>2 DEF Messages
  <2>4. /\ sdoc' \subseteq Updates /\ dirty' \in BOOLEAN
        /\ toClient' \in [Clients -> Seq(Messages)]
    <3>1. CASE /\ sdoc' = StartedDoc /\ UNCHANGED dirty
               /\ toClient' = [StartedChannels EXCEPT
                                 ![c] = Append(@, Step2(StartedDoc, m.content))]
      <4>1. Step2(StartedDoc, m.content) \in Messages
        BY StartedTypes, MessageTypes
      <4>2. Append(StartedChannels[c], Step2(StartedDoc, m.content)) \in Seq(Messages)
        BY <4>1, StartedTypes, AppendProperties
      <4> QED BY <3>1, <4>2, StartedTypes DEF TypeOK
    <3>2. CASE ApplyUpdate(StartedDoc, StartedChannels, m.content)
      BY <3>2, <2>3, StartedTypes, ApplyUpdateTypes DEF TypeOK
    <3>3. CASE sdoc' = StartedDoc /\ toClient' = StartedChannels /\ UNCHANGED dirty
      BY <3>3, StartedTypes DEF TypeOK
    <3> QED BY <1>1, <3>1, <3>2, <3>3 DEF ServerReceives
  <2> QED BY <2>1, <2>2, <2>4 DEF TypeOK
<1>2. ASSUME NEW c \in Clients, Accept(c)
      PROVE  TypeOK'
  <2>1. Step1(StartedDoc) \in Messages
    BY StartedTypes, MessageTypes
  <2> QED BY <1>2, <2>1, StartedTypes DEF Accept, TypeOK
<1>3. ASSUME NEW c \in Clients, Open(c)
      PROVE  TypeOK'
  <2>1. Append(toServer[c], Step1(docs[c])) \in Seq(Messages)
    BY MessageTypes, AppendProperties DEF TypeOK
  <2> QED BY <1>3, <2>1 DEF Open, TypeOK, server
<1>4. ASSUME NEW c \in Clients, Edit(c)
      PROVE  TypeOK'
  <2>1. PICK u \in Updates :
          /\ docs' = [docs EXCEPT ![c] = @ \cup {u}]
          /\ toServer' = IF conn[c] = "open"
                         THEN [toServer EXCEPT ![c] = Append(@, Update({u}))]
                         ELSE toServer
          /\ UNCHANGED <<readOnly, server, conn, toClient, synced, faults>>
    BY <1>4 DEF Edit
  <2>2. Update({u}) \in Messages
    BY DEF Update, Messages
  <2>3. Append(toServer[c], Update({u})) \in Seq(Messages)
    BY <2>2, AppendProperties DEF TypeOK
  <2> QED BY <2>1, <2>3 DEF TypeOK, server
<1>5. ASSUME NEW c \in Clients, ClientReceives(c)
      PROVE  TypeOK'
  <2> DEFINE m == Head(toClient[c])
  <2>1. /\ toClient[c] \in Seq(Messages) /\ toClient[c] # <<>>
        /\ UNCHANGED <<readOnly, server, conn, faults>>
        /\ toClient' = [toClient EXCEPT ![c] = Tail(@)]
    BY <1>5 DEF ClientReceives, TypeOK
  <2>2. m \in Messages /\ Tail(toClient[c]) \in Seq(Messages)
    BY <2>1, HeadTailProperties
  <2>3. m.content \subseteq Updates
    BY <2>2 DEF Messages
  <2>4. Append(toServer[c], Step2(docs[c], m.content)) \in Seq(Messages)
    BY MessageTypes, AppendProperties DEF TypeOK
  <2>5. CASE /\ toServer' = [toServer EXCEPT ![c] = Append(@, Step2(docs[c], m.content))]
             /\ UNCHANGED <<docs, synced>>
    BY <2>1, <2>2, <2>4, <2>5 DEF TypeOK, server
  <2>6. CASE /\ docs' = [docs EXCEPT ![c] = @ \cup m.content]
             /\ synced' = [synced EXCEPT ![c] = @ \/ m.type = "step2"]
             /\ UNCHANGED toServer
    <3>1. synced' \in [Clients -> BOOLEAN]
      BY <2>6 DEF TypeOK
    <3> QED BY <2>1, <2>2, <2>3, <2>6, <3>1 DEF TypeOK, server
  <2> QED BY <1>5, <2>5, <2>6 DEF ClientReceives
<1>6. ASSUME NEW c \in Clients, Drop(c)
      PROVE  TypeOK'
  BY <1>6, EmptySeq DEF Drop, TypeOK, server
<1>7. ASSUME Save PROVE TypeOK'
  BY <1>7 DEF Save, TypeOK, links
<1>8. ASSUME Hibernate PROVE TypeOK'
  <2>1. ~dirty' /\ ~awake' /\ sdoc' = {}
    BY <1>8 DEF Hibernate
  <2>2. faults' \in 0..MaxFaults
    BY <1>8 DEF Hibernate, TypeOK
  <2> QED BY <1>8, <2>1, <2>2 DEF Hibernate, TypeOK, links
<1>9. ASSUME Crash PROVE TypeOK'
  <2>1. ~dirty' /\ ~awake' /\ sdoc' = {}
    BY <1>9 DEF Crash
  <2>2. faults' \in 0..MaxFaults
    BY <1>9 DEF Crash, TypeOK
  <2>3. <<>> \in Seq(Messages)
    BY EmptySeq
  <2> QED BY <1>9, <2>1, <2>2, <2>3 DEF Crash, TypeOK
<1>10. ASSUME UNCHANGED vars PROVE TypeOK'
  BY <1>10 DEF vars, server, links, TypeOK
<1> QED BY <1>1, <1>2, <1>3, <1>4, <1>5, <1>6, <1>7, <1>8, <1>9, <1>10 DEF Next

LEMMA InitType == Init => TypeOK
<1> SUFFICES ASSUME Init PROVE TypeOK
  OBVIOUS
<1>1. <<>> \in Seq(Messages)
  BY EmptySeq
<1>2. ~awake /\ ~dirty /\ sdoc = {} /\ faults \in 0..MaxFaults
  BY SyncAssumption DEF Init
<1> QED BY <1>1, <1>2 DEF Init, TypeOK

(* Every document and channel of the model has its type.                    *)
THEOREM TypeCorrect == Spec => []TypeOK
<1>1. Init => TypeOK
  BY InitType
<1>2. TypeOK /\ [Next]_vars => TypeOK'
  BY TypeStep
<1> QED BY <1>1, <1>2, PTL DEF Spec

-----------------------------------------------------------------------------
(* Read-only clients.                                                       *)

\* The updates of the others, and the messages that carry no other update.
Clean == {u \in Updates : u[1] \notin readOnly}
CleanMessages ==
  {m \in Messages : m.type # "step1" => m.content \subseteq Clean}

\* Only a read-only client, and the messages it sends, have its updates.
Kept ==
  /\ sdoc \subseteq Clean /\ disk \subseteq Clean
  /\ toClient \in [Clients -> Seq(CleanMessages)]
  /\ \A c \in Clients \ readOnly :
       docs[c] \subseteq Clean /\ toServer[c] \in Seq(CleanMessages)

LEMMA CleanStep1 ==
  ASSUME NEW doc, doc \subseteq Updates
  PROVE  Step1(doc) \in CleanMessages
  BY DEF Step1, CleanMessages, Messages, Integrated

LEMMA CleanStep2 ==
  ASSUME NEW doc, doc \subseteq Clean, NEW sv
  PROVE  Step2(doc, sv) \in CleanMessages
  BY DEF Step2, CleanMessages, Messages, Clean

LEMMA StartedClean ==
  ASSUME TypeOK, Kept
  PROVE  StartedDoc \subseteq Clean /\ StartedChannels \in [Clients -> Seq(CleanMessages)]
<1>1. Step1(disk) \in CleanMessages
  BY CleanStep1 DEF TypeOK
<1>2. ToAll(toClient, Step1(disk)) \in [Clients -> Seq(CleanMessages)]
  BY <1>1, ToAllType DEF Kept
<1> QED BY <1>2 DEF Kept, StartedDoc, StartedChannels

LEMMA ApplyUpdateClean ==
  ASSUME NEW doc, doc \subseteq Clean, NEW s, s \subseteq Clean,
         NEW channels \in [Clients -> Seq(CleanMessages)],
         ApplyUpdate(doc, channels, s)
  PROVE  sdoc' \subseteq Clean /\ toClient' \in [Clients -> Seq(CleanMessages)]
<1> DEFINE new == Integrated(doc \cup s) \ Integrated(doc)
<1>1. /\ sdoc' = doc \cup s
      /\ toClient' = IF new = {} THEN channels ELSE ToAll(channels, Update(new))
  BY DEF ApplyUpdate
<1>2. Update(new) \in CleanMessages
  BY DEF Update, CleanMessages, Messages, Integrated, Clean
<1> HIDE DEF new
<1>3. ToAll(channels, Update(new)) \in [Clients -> Seq(CleanMessages)]
  BY <1>2, ToAllType
<1> QED BY <1>1, <1>3

LEMMA KeptStep ==
  ASSUME TypeOK, Kept, [Next]_vars
  PROVE  Kept'
<1>0. readOnly' = readOnly /\ Clean' = Clean /\ CleanMessages' = CleanMessages
  <2>1. readOnly' = readOnly
    BY DEF Next, vars, Accept, Open, Edit, Drop, ServerReceives, ClientReceives,
           Save, Hibernate, Crash
  <2> QED BY <2>1 DEF Clean, CleanMessages
<1>1. ASSUME NEW c \in Clients, ServerReceives(c)
      PROVE  Kept'
  <2> DEFINE m == Head(toServer[c])
  <2>1. /\ toServer[c] \in Seq(Messages) /\ toServer[c] # <<>>
        /\ UNCHANGED <<disk, docs>>
        /\ toServer' = [toServer EXCEPT ![c] = Tail(@)]
    BY <1>1 DEF ServerReceives, TypeOK
  <2>2. m \in Messages
    BY <2>1, HeadTailProperties
  <2>3. c \notin readOnly => m \in CleanMessages /\ Tail(toServer[c]) \in Seq(CleanMessages)
    BY <2>1, HeadTailProperties DEF Kept
  <2>4. sdoc' \subseteq Clean /\ toClient' \in [Clients -> Seq(CleanMessages)]
    <3>1. CASE /\ sdoc' = StartedDoc
               /\ toClient' = [StartedChannels EXCEPT
                                 ![c] = Append(@, Step2(StartedDoc, m.content))]
      <4>1. Step2(StartedDoc, m.content) \in CleanMessages
        BY StartedClean, CleanStep2
      <4>2. Append(StartedChannels[c], Step2(StartedDoc, m.content)) \in Seq(CleanMessages)
        BY <4>1, StartedClean, AppendProperties
      <4> QED BY <3>1, <4>2, StartedClean
    <3>2. CASE Reads(c, m) /\ ApplyUpdate(StartedDoc, StartedChannels, m.content)
      <4>1. m.content \subseteq Clean
        BY <2>3, <3>2 DEF Reads, CleanMessages
      <4> QED BY <3>2, <4>1, StartedClean, ApplyUpdateClean
    <3>3. CASE sdoc' = StartedDoc /\ toClient' = StartedChannels
      BY <3>3, StartedClean
    <3> QED BY <1>1, <3>1, <3>2, <3>3 DEF ServerReceives
  <2>5. \A d \in Clients \ readOnly : toServer'[d] \in Seq(CleanMessages)
    BY <2>1, <2>3 DEF Kept, TypeOK
  <2> QED BY <1>0, <2>1, <2>4, <2>5 DEF Kept
<1>2. ASSUME NEW c \in Clients, Accept(c)
      PROVE  Kept'
  <2>1. Step1(StartedDoc) \in CleanMessages
    BY StartedTypes, CleanStep1
  <2> QED BY <1>0, <1>2, <2>1, StartedClean DEF Accept, Kept
<1>3. ASSUME NEW c \in Clients, Open(c)
      PROVE  Kept'
  <2>1. c \notin readOnly => Append(toServer[c], Step1(docs[c])) \in Seq(CleanMessages)
    BY CleanStep1, AppendProperties DEF Kept, TypeOK
  <2>2. \A d \in Clients \ readOnly : toServer'[d] \in Seq(CleanMessages)
    BY <1>3, <2>1 DEF Open, Kept, TypeOK
  <2> QED BY <1>0, <1>3, <2>2 DEF Open, Kept, server
<1>4. ASSUME NEW c \in Clients, Edit(c)
      PROVE  Kept'
  <2>1. PICK u \in Updates :
          /\ u[1] = c /\ docs' = [docs EXCEPT ![c] = @ \cup {u}]
          /\ toServer' = IF conn[c] = "open"
                         THEN [toServer EXCEPT ![c] = Append(@, Update({u}))]
                         ELSE toServer
          /\ UNCHANGED <<server, toClient>>
    BY <1>4 DEF Edit
  <2>2. c \notin readOnly => u \in Clean /\ Update({u}) \in CleanMessages
    BY <2>1 DEF Clean, Update, CleanMessages, Messages
  <2>3. c \notin readOnly => Append(toServer[c], Update({u})) \in Seq(CleanMessages)
    BY <2>2, AppendProperties DEF Kept
  <2>4. \A d \in Clients \ readOnly :
          docs'[d] \subseteq Clean /\ toServer'[d] \in Seq(CleanMessages)
    BY <2>1, <2>2, <2>3 DEF Kept, TypeOK
  <2> QED BY <1>0, <2>1, <2>4 DEF Kept, server
<1>5. ASSUME NEW c \in Clients, ClientReceives(c)
      PROVE  Kept'
  <2> DEFINE m == Head(toClient[c])
  <2>1. /\ toClient[c] \in Seq(CleanMessages) /\ toClient[c] # <<>>
        /\ UNCHANGED server
        /\ toClient' = [toClient EXCEPT ![c] = Tail(@)]
    BY <1>5 DEF ClientReceives, Kept
  <2>2. m \in CleanMessages /\ Tail(toClient[c]) \in Seq(CleanMessages)
    BY <2>1, HeadTailProperties
  <2>3. c \notin readOnly =>
          Append(toServer[c], Step2(docs[c], m.content)) \in Seq(CleanMessages)
    BY CleanStep2, AppendProperties DEF Kept
  <2>4. CASE /\ toServer' = [toServer EXCEPT ![c] = Append(@, Step2(docs[c], m.content))]
             /\ UNCHANGED docs
    <3>1. \A d \in Clients \ readOnly : toServer'[d] \in Seq(CleanMessages)
      BY <2>3, <2>4 DEF Kept, TypeOK
    <3> QED BY <1>0, <2>1, <2>2, <2>4, <3>1 DEF Kept, server
  <2>5. CASE /\ m.type # "step1" /\ docs' = [docs EXCEPT ![c] = @ \cup m.content]
             /\ UNCHANGED toServer
    <3>1. m.content \subseteq Clean
      BY <2>2, <2>5 DEF CleanMessages
    <3>2. \A d \in Clients \ readOnly : docs'[d] \subseteq Clean
      BY <2>5, <3>1 DEF Kept, TypeOK
    <3> QED BY <1>0, <2>1, <2>2, <2>5, <3>2 DEF Kept, server
  <2> QED BY <1>5, <2>4, <2>5 DEF ClientReceives
<1>6. ASSUME NEW c \in Clients, Drop(c)
      PROVE  Kept'
  <2>1. <<>> \in Seq(CleanMessages)
    BY EmptySeq
  <2>2. \A d \in Clients \ readOnly : toServer'[d] \in Seq(CleanMessages)
    BY <1>6, <2>1 DEF Drop, Kept, TypeOK
  <2> QED BY <1>0, <1>6, <2>1, <2>2 DEF Drop, Kept, server
<1>7. ASSUME Save \/ Hibernate PROVE Kept'
  BY <1>0, <1>7 DEF Save, Hibernate, Kept, links
<1>8. ASSUME Crash PROVE Kept'
  <2>1. <<>> \in Seq(CleanMessages)
    BY EmptySeq
  <2> QED BY <1>0, <1>8, <2>1 DEF Crash, Kept
<1>9. ASSUME UNCHANGED vars PROVE Kept'
  BY <1>0, <1>9 DEF vars, server, links, Kept
<1> QED BY <1>1, <1>2, <1>3, <1>4, <1>5, <1>6, <1>7, <1>8, <1>9 DEF Next

(* Whatever a read-only client sends, the server's document, what it saved  *)
(* and the other clients' documents stay free of its updates.               *)
THEOREM ReadOnlyStaysOut == Spec => []ReadOnlyKeptOut
<1>1. Init => Kept
  <2>1. <<>> \in Seq(CleanMessages)
    BY EmptySeq
  <2> QED BY <2>1 DEF Init, Kept
<1>2. TypeOK /\ Kept /\ [Next]_vars => Kept'
  BY KeptStep
<1>3. TypeOK /\ Kept => ReadOnlyKeptOut
  BY DEF Kept, Clean, ReadOnlyKeptOut
<1> QED BY <1>1, <1>2, <1>3, TypeCorrect, PTL DEF Spec

-----------------------------------------------------------------------------
(* What was saved.                                                          *)

\* An awake server has what onLoad() gave it, or what it saved since.
Loaded == awake => disk \subseteq sdoc

LEMMA LoadedStep ==
  ASSUME Loaded, [Next]_vars
  PROVE  Loaded'
<1>1. disk \subseteq StartedDoc
  BY DEF Loaded, StartedDoc
<1>2. ASSUME NEW c \in Clients, ServerReceives(c)
      PROVE  Loaded'
  BY <1>1, <1>2 DEF ServerReceives, ApplyUpdate, Loaded
<1>3. ASSUME NEW c \in Clients, Accept(c)
      PROVE  Loaded'
  BY <1>1, <1>3 DEF Accept, Loaded
<1>4. ASSUME NEW c \in Clients, Open(c) \/ Edit(c) \/ Drop(c) \/ ClientReceives(c)
      PROVE  Loaded'
  BY <1>4 DEF Open, Edit, Drop, ClientReceives, server, Loaded
<1>5. ASSUME Save \/ Hibernate \/ Crash \/ UNCHANGED vars PROVE Loaded'
  BY <1>5 DEF Save, Hibernate, Crash, vars, server, Loaded
<1> QED BY <1>2, <1>3, <1>4, <1>5 DEF Next

(* A save never stores less than was stored before.                         *)
THEOREM SavedIsNeverLost == Spec => SavedStays
<1>1. Init => Loaded
  BY DEF Init, Loaded
<1>2. Loaded /\ [Next]_vars => Loaded'
  BY LoadedStep
<1>3. TypeOK /\ Loaded /\ [Next]_vars => [disk \subseteq disk']_disk
  <2> SUFFICES ASSUME TypeOK, Loaded, [Next]_vars
               PROVE  disk \subseteq disk'
    OBVIOUS
  <2>1. CASE Save
    BY <2>1 DEF Save, TypeOK, Loaded
  <2>2. CASE Hibernate \/ Crash \/ UNCHANGED vars
    BY <2>2 DEF Hibernate, Crash, vars, server
  <2>3. CASE \E c \in Clients : \/ Accept(c) \/ Open(c) \/ Edit(c) \/ Drop(c)
                                \/ ServerReceives(c) \/ ClientReceives(c)
    BY <2>3 DEF Accept, Open, Edit, Drop, ServerReceives, ClientReceives, server
  <2> QED BY <2>1, <2>2, <2>3 DEF Next
<1> QED BY <1>1, <1>2, <1>3, TypeCorrect, PTL DEF Spec, SavedStays
-----------------------------------------------------------------------------
(* What the channels carry, and ask for.                                    *)

LEMMA AppendSet ==
  ASSUME NEW ch \in Seq(Messages), NEW m \in Messages
  PROVE  ToSet(Append(ch, m)) = ToSet(ch) \cup {m}
<1>1. /\ Append(ch, m) \in Seq(Messages) /\ Len(Append(ch, m)) = Len(ch) + 1
      /\ \A i \in 1..Len(ch) : Append(ch, m)[i] = ch[i]
      /\ Append(ch, m)[Len(ch) + 1] = m
  BY AppendProperties
<1>2. Len(ch) \in Nat /\ DOMAIN ch = 1..Len(ch) /\ DOMAIN Append(ch, m) = 1..(Len(ch) + 1)
  BY <1>1, LenProperties
<1>3. ToSet(Append(ch, m)) \subseteq ToSet(ch) \cup {m}
  BY <1>1, <1>2 DEF ToSet
<1>4. ToSet(ch) \subseteq ToSet(Append(ch, m)) /\ m \in ToSet(Append(ch, m))
  BY <1>1, <1>2 DEF ToSet
<1> QED BY <1>3, <1>4

LEMMA TailSet ==
  ASSUME NEW ch \in Seq(Messages), ch # <<>>
  PROVE  ToSet(ch) = ToSet(Tail(ch)) \cup {Head(ch)}
<1>1. /\ Tail(ch) \in Seq(Messages) /\ Len(Tail(ch)) = Len(ch) - 1
      /\ \A i \in 1..Len(Tail(ch)) : Tail(ch)[i] = ch[i + 1]
      /\ Head(ch) = ch[1]
  BY HeadTailProperties
<1>2. /\ Len(ch) \in Nat \ {0} /\ DOMAIN ch = 1..Len(ch)
      /\ DOMAIN Tail(ch) = 1..(Len(ch) - 1)
  BY <1>1, LenProperties, EmptySeq
<1>3. ToSet(ch) \subseteq ToSet(Tail(ch)) \cup {Head(ch)}
  <2> SUFFICES ASSUME NEW i \in 1..Len(ch), i # 1
               PROVE  ch[i] \in ToSet(Tail(ch))
    BY <1>1, <1>2 DEF ToSet
  <2>1. i - 1 \in 1..(Len(ch) - 1) /\ Tail(ch)[i - 1] = ch[i]
    BY <1>1, <1>2
  <2> QED BY <2>1, <1>2 DEF ToSet
<1>4. ToSet(Tail(ch)) \subseteq ToSet(ch) /\ Head(ch) \in ToSet(ch)
  BY <1>1, <1>2 DEF ToSet
<1> QED BY <1>3, <1>4

LEMMA AppendCarries ==
  ASSUME NEW ch \in Seq(Messages), NEW m \in Messages
  PROVE  /\ Carried(ch) \subseteq Carried(Append(ch, m))
         /\ Asked(ch) \subseteq Asked(Append(ch, m))
         /\ m.type # "step1" => m.content \subseteq Carried(Append(ch, m))
         /\ m.type = "step1" => Updates \ m.content \subseteq Asked(Append(ch, m))
  BY AppendSet DEF Carried, Asked

LEMMA TailCarries ==
  ASSUME NEW ch \in Seq(Messages), ch # <<>>
  PROVE  /\ Head(ch).type # "step1" =>
              /\ Carried(ch) \subseteq Carried(Tail(ch)) \cup Head(ch).content
              /\ Asked(ch) = Asked(Tail(ch))
         /\ Head(ch).type = "step1" =>
              /\ Carried(ch) = Carried(Tail(ch))
              /\ Asked(ch) \subseteq Asked(Tail(ch)) \cup (Updates \ Head(ch).content)
  BY TailSet DEF Carried, Asked

-----------------------------------------------------------------------------
(* An update is first in the document of its author.                        *)

Own == {u \in Updates : u \in docs[u[1]]}
OwnMessages == {m \in Messages : m.content \subseteq Own}

Authored ==
  /\ sdoc \subseteq Own /\ disk \subseteq Own
  /\ docs \in [Clients -> SUBSET Own]
  /\ toServer \in [Clients -> Seq(OwnMessages)]
  /\ toClient \in [Clients -> Seq(OwnMessages)]

LEMMA OwnMessageTypes ==
  ASSUME NEW doc, doc \subseteq Own, NEW sv
  PROVE  /\ Step1(doc) \in OwnMessages /\ Step2(doc, sv) \in OwnMessages
         /\ Update(Integrated(doc) \ sv) \in OwnMessages
<1>1. doc \subseteq Updates
  BY DEF Own
<1>2. /\ Step1(doc) \in Messages /\ Step2(doc, sv) \in Messages
      /\ Update(Integrated(doc) \ sv) \in Messages
  BY <1>1, MessageTypes
<1> QED BY <1>2 DEF Step1, Step2, Update, Integrated, OwnMessages

LEMMA AuthoredStarted ==
  ASSUME TypeOK, Authored
  PROVE  StartedDoc \subseteq Own /\ StartedChannels \in [Clients -> Seq(OwnMessages)]
<1>1. Step1(disk) \in OwnMessages
  BY OwnMessageTypes DEF Authored
<1>2. ToAll(toClient, Step1(disk)) \in [Clients -> Seq(OwnMessages)]
  BY <1>1, ToAllType DEF Authored
<1> QED BY <1>2 DEF Authored, StartedDoc, StartedChannels

LEMMA AuthoredServerReceives ==
  ASSUME TypeOK, Authored, NEW c \in Clients, ServerReceives(c)
  PROVE  Authored'
<1> DEFINE m == Head(toServer[c])
<1>0. Own' = Own /\ OwnMessages' = OwnMessages
  BY DEF ServerReceives, Own, OwnMessages
<1>1. /\ toServer[c] \in Seq(OwnMessages) /\ toServer[c] # <<>>
      /\ UNCHANGED <<disk, docs>> /\ toServer' = [toServer EXCEPT ![c] = Tail(@)]
  BY DEF ServerReceives, Authored
<1>2. m \in OwnMessages /\ Tail(toServer[c]) \in Seq(OwnMessages)
  BY <1>1, HeadTailProperties
<1>3. sdoc' \subseteq Own /\ toClient' \in [Clients -> Seq(OwnMessages)]
  <2>1. CASE /\ sdoc' = StartedDoc
             /\ toClient' = [StartedChannels EXCEPT
                               ![c] = Append(@, Step2(StartedDoc, m.content))]
    <3>1. Step2(StartedDoc, m.content) \in OwnMessages
      BY AuthoredStarted, OwnMessageTypes
    <3>2. Append(StartedChannels[c], Step2(StartedDoc, m.content)) \in Seq(OwnMessages)
      BY <3>1, AuthoredStarted, AppendProperties
    <3> QED BY <2>1, <3>2, AuthoredStarted
  <2>2. CASE ApplyUpdate(StartedDoc, StartedChannels, m.content)
    <3> DEFINE doc == StartedDoc \cup m.content
               new == Integrated(doc) \ Integrated(StartedDoc)
    <3>1. doc \subseteq Own
      BY <1>2, AuthoredStarted DEF OwnMessages
    <3>2. Update(new) \in OwnMessages
      BY <3>1, OwnMessageTypes
    <3>3. sdoc' = doc /\ toClient' = IF new = {} THEN StartedChannels
                                     ELSE ToAll(StartedChannels, Update(new))
      BY <2>2 DEF ApplyUpdate
    <3> HIDE DEF doc, new
    <3>4. ToAll(StartedChannels, Update(new)) \in [Clients -> Seq(OwnMessages)]
      BY <3>2, ToAllType, AuthoredStarted
    <3> QED BY <3>1, <3>3, <3>4, AuthoredStarted
  <2>3. CASE sdoc' = StartedDoc /\ toClient' = StartedChannels
    BY <2>3, AuthoredStarted
  <2> QED BY <2>1, <2>2, <2>3 DEF ServerReceives
<1> QED BY <1>0, <1>1, <1>2, <1>3 DEF Authored

LEMMA AuthoredStep ==
  ASSUME TypeOK, Authored, [Next]_vars
  PROVE  Authored'
<1>1. ASSUME NEW c \in Clients, ServerReceives(c)
      PROVE  Authored'
  BY <1>1, AuthoredServerReceives
<1>2. ASSUME NEW c \in Clients, Accept(c)
      PROVE  Authored'
  <2>0. Own' = Own /\ OwnMessages' = OwnMessages
    BY <1>2 DEF Accept, Own, OwnMessages
  <2>1. Step1(StartedDoc) \in OwnMessages
    BY AuthoredStarted, OwnMessageTypes
  <2> QED BY <1>2, <2>0, <2>1, AuthoredStarted DEF Accept, Authored
<1>3. ASSUME NEW c \in Clients, Open(c)
      PROVE  Authored'
  <2>0. Own' = Own /\ OwnMessages' = OwnMessages
    BY <1>3 DEF Open, Own, OwnMessages
  <2>1. Step1(docs[c]) \in OwnMessages
    BY OwnMessageTypes DEF Authored
  <2>2. Append(toServer[c], Step1(docs[c])) \in Seq(OwnMessages)
    BY <2>1, AppendProperties DEF Authored
  <2> QED BY <1>3, <2>0, <2>2 DEF Open, Authored, server
<1>4. ASSUME NEW c \in Clients, NEW u \in Updates, u[1] = c,
             docs' = [docs EXCEPT ![c] = @ \cup {u}],
             toServer' = IF conn[c] = "open"
                         THEN [toServer EXCEPT ![c] = Append(@, Update({u}))]
                         ELSE toServer,
             UNCHANGED <<sdoc, disk, toClient>>
      PROVE  Authored'
  <2>1. Own' = Own \cup {u}
    BY <1>4 DEF Own, TypeOK
  <2>2. OwnMessages \subseteq OwnMessages'
    BY <2>1 DEF OwnMessages
  <2>3. /\ toServer \in [Clients -> Seq(OwnMessages')]
        /\ toClient \in [Clients -> Seq(OwnMessages')]
    BY <2>2, SeqMonotonic DEF Authored
  <2>4. Update({u}) \in OwnMessages'
    BY <2>1 DEF Update, OwnMessages, Messages
  <2>5. Append(toServer[c], Update({u})) \in Seq(OwnMessages')
    BY <2>3, <2>4, AppendProperties
  <2>6. docs' \in [Clients -> SUBSET Own']
    BY <1>4, <2>1 DEF Authored
  <2> QED BY <1>4, <2>1, <2>3, <2>5, <2>6 DEF Authored
<1>5. ASSUME NEW c \in Clients, ClientReceives(c)
      PROVE  Authored'
  <2> DEFINE m == Head(toClient[c])
  <2>1. /\ toClient[c] \in Seq(OwnMessages) /\ toClient[c] # <<>>
        /\ UNCHANGED server /\ toClient' = [toClient EXCEPT ![c] = Tail(@)]
    BY <1>5 DEF ClientReceives, Authored
  <2>2. m \in OwnMessages /\ Tail(toClient[c]) \in Seq(OwnMessages)
    BY <2>1, HeadTailProperties
  <2>3. CASE /\ toServer' = [toServer EXCEPT ![c] = Append(@, Step2(docs[c], m.content))]
             /\ UNCHANGED docs
    <3>1. Step2(docs[c], m.content) \in OwnMessages
      BY OwnMessageTypes DEF Authored
    <3>2. Append(toServer[c], Step2(docs[c], m.content)) \in Seq(OwnMessages)
      BY <3>1, AppendProperties DEF Authored
    <3>3. Own' = Own /\ OwnMessages' = OwnMessages
      BY <2>3 DEF Own, OwnMessages
    <3> QED BY <2>1, <2>2, <2>3, <3>2, <3>3 DEF Authored, server
  <2>4. CASE /\ docs' = [docs EXCEPT ![c] = @ \cup m.content]
             /\ UNCHANGED toServer
    <3>1. m.content \subseteq Own
      BY <2>2 DEF OwnMessages
    <3>2. Own' = Own
      BY <2>4, <3>1 DEF Own, TypeOK, Authored
    <3>3. OwnMessages' = OwnMessages
      BY <3>2 DEF OwnMessages
    <3>4. docs' \in [Clients -> SUBSET Own]
      BY <2>4, <3>1 DEF Authored
    <3> QED BY <2>1, <2>2, <2>4, <3>2, <3>3, <3>4 DEF Authored, server
  <2> QED BY <1>5, <2>3, <2>4 DEF ClientReceives
<1>6. ASSUME \/ Save \/ Hibernate \/ Crash \/ UNCHANGED vars
             \/ \E c \in Clients : Drop(c)
      PROVE  Authored'
  <2>0. Own' = Own /\ OwnMessages' = OwnMessages
    BY <1>6 DEF Save, Hibernate, Crash, Drop, vars, Own, OwnMessages
  <2>1. <<>> \in Seq(OwnMessages)
    BY EmptySeq
  <2>2. CASE Save
    BY <2>2, <2>0 DEF Save, links, Authored
  <2>3. CASE Hibernate \/ UNCHANGED vars
    BY <2>3, <2>0 DEF Hibernate, vars, server, links, Authored
  <2>4. CASE Crash
    BY <2>4, <2>0, <2>1 DEF Crash, Authored
  <2>5. ASSUME NEW c \in Clients, Drop(c)
        PROVE  Authored'
    BY <2>5, <2>0, <2>1 DEF Drop, server, Authored
  <2> QED BY <1>6, <2>2, <2>3, <2>4, <2>5
<1>7. ASSUME NEW c \in Clients, Edit(c)
      PROVE  Authored'
  BY <1>7, <1>4 DEF Edit, server
<1> QED BY <1>1, <1>2, <1>3, <1>5, <1>6, <1>7 DEF Next

-----------------------------------------------------------------------------
(* What the server sent, it still has or asks for again.                    *)

\* Every update in `ch' is in `doc', or a later message of `ch' asks for it.
BackedBy(ch, doc) ==
  \A i \in 1..Len(ch) : ch[i].type # "step1" =>
    \A u \in ch[i].content :
      u \in doc \/ \E j \in (i + 1)..Len(ch) :
                     ch[j].type = "step1" /\ u \notin ch[j].content

LEMMA AppendBacked ==
  ASSUME NEW ch \in Seq(Messages), NEW m \in Messages, NEW doc, NEW grown,
         BackedBy(ch, doc), doc \subseteq grown,
         m.type # "step1" => m.content \subseteq grown
  PROVE  BackedBy(Append(ch, m), grown)
<1>1. /\ Len(Append(ch, m)) = Len(ch) + 1 /\ Len(ch) \in Nat
      /\ \A i \in 1..Len(ch) : Append(ch, m)[i] = ch[i]
      /\ Append(ch, m)[Len(ch) + 1] = m
  BY AppendProperties, LenProperties
<1> SUFFICES ASSUME NEW i \in 1..(Len(ch) + 1), Append(ch, m)[i].type # "step1",
                    NEW u \in Append(ch, m)[i].content, u \notin grown
             PROVE  \E j \in (i + 1)..(Len(ch) + 1) :
                      Append(ch, m)[j].type = "step1" /\ u \notin Append(ch, m)[j].content
  BY <1>1 DEF BackedBy
<1>2. i \in 1..Len(ch) /\ ch[i].type # "step1" /\ u \in ch[i].content
  BY <1>1
<1>3. PICK j \in (i + 1)..Len(ch) : ch[j].type = "step1" /\ u \notin ch[j].content
  BY <1>2 DEF BackedBy
<1> QED BY <1>1, <1>2, <1>3

LEMMA AskedBacked ==
  ASSUME NEW ch \in Seq(Messages), NEW doc, Step1(doc) \in Messages
  PROVE  BackedBy(Append(ch, Step1(doc)), doc)
<1> DEFINE m == Step1(doc)
<1>1. /\ Len(Append(ch, m)) = Len(ch) + 1 /\ Len(ch) \in Nat
      /\ \A i \in 1..Len(ch) : Append(ch, m)[i] = ch[i]
      /\ Append(ch, m)[Len(ch) + 1] = m
  BY AppendProperties, LenProperties
<1>2. m.type = "step1" /\ m.content \subseteq doc
  BY DEF Step1, Integrated
<1> SUFFICES ASSUME NEW i \in 1..(Len(ch) + 1), Append(ch, m)[i].type # "step1",
                    NEW u \in Append(ch, m)[i].content, u \notin doc
             PROVE  \E j \in (i + 1)..(Len(ch) + 1) :
                      Append(ch, m)[j].type = "step1" /\ u \notin Append(ch, m)[j].content
  BY <1>1 DEF BackedBy
<1>3. i + 1 \in 1..(Len(ch) + 1) /\ Len(ch) + 1 \in (i + 1)..(Len(ch) + 1)
  BY <1>1, <1>2
<1> QED BY <1>1, <1>2, <1>3

LEMMA GrownBacked ==
  ASSUME NEW ch, NEW doc, NEW grown, BackedBy(ch, doc), doc \subseteq grown
  PROVE  BackedBy(ch, grown)
  BY DEF BackedBy

LEMMA TailBacked ==
  ASSUME NEW ch \in Seq(Messages), ch # <<>>, NEW doc, BackedBy(ch, doc)
  PROVE  /\ BackedBy(Tail(ch), doc)
         /\ Head(ch).type # "step1" => Head(ch).content \subseteq doc \cup Asked(Tail(ch))
<1>1. /\ Tail(ch) \in Seq(Messages) /\ Len(Tail(ch)) = Len(ch) - 1
      /\ \A i \in 1..Len(Tail(ch)) : Tail(ch)[i] = ch[i + 1]
      /\ Head(ch) = ch[1] /\ Len(ch) \in Nat \ {0}
      /\ Head(ch) \in Messages
  BY HeadTailProperties, EmptySeq
<1>2. BackedBy(Tail(ch), doc)
  <2> SUFFICES ASSUME NEW i \in 1..(Len(ch) - 1), Tail(ch)[i].type # "step1",
                      NEW u \in Tail(ch)[i].content, u \notin doc
               PROVE  \E j \in (i + 1)..(Len(ch) - 1) :
                        Tail(ch)[j].type = "step1" /\ u \notin Tail(ch)[j].content
    BY <1>1 DEF BackedBy
  <2>1. i + 1 \in 1..Len(ch) /\ ch[i + 1] = Tail(ch)[i]
    BY <1>1
  <2>2. PICK j \in (i + 1 + 1)..Len(ch) : ch[j].type = "step1" /\ u \notin ch[j].content
    BY <2>1 DEF BackedBy
  <2>3. j - 1 \in (i + 1)..(Len(ch) - 1) /\ Tail(ch)[j - 1] = ch[j]
    BY <1>1, <2>2
  <2> QED BY <2>2, <2>3
<1>3. ASSUME Head(ch).type # "step1", NEW u \in Head(ch).content, u \notin doc
      PROVE  u \in Asked(Tail(ch))
  <2>1. PICK j \in 2..Len(ch) : ch[j].type = "step1" /\ u \notin ch[j].content
    BY <1>1, <1>3 DEF BackedBy
  <2>2. j - 1 \in 1..Len(Tail(ch)) /\ Tail(ch)[j - 1] = ch[j]
    BY <1>1, <2>1
  <2>3. DOMAIN Tail(ch) = 1..Len(Tail(ch))
    BY <1>1, LenProperties
  <2>4. ch[j] \in ToSet(Tail(ch))
    BY <2>2, <2>3 DEF ToSet
  <2>5. u \in Updates
    BY <1>1, <1>3 DEF Messages
  <2> QED BY <2>1, <2>4, <2>5 DEF Asked
<1> QED BY <1>2, <1>3

-----------------------------------------------------------------------------
(* Nothing a client has is left behind.                                     *)

\* A client that is not yet open was asked for what it has first of all.
Handshake ==
  \A c \in Clients :
    /\ conn[c] # "open" => toServer[c] = <<>>
    /\ conn[c] = "closed" => toClient[c] = <<>>
    /\ conn[c] = "accepted" => toClient[c] # <<>> /\ toClient[c][1].type = "step1"

Backed == awake => \A c \in Clients : BackedBy(toClient[c], sdoc)

Covered ==
  awake => \A c \in Clients \ readOnly :
    Connected(c) =>
      docs[c] \subseteq sdoc \cup Carried(toServer[c]) \cup Asked(toClient[c])

Delivery == TypeOK /\ Authored /\ Handshake /\ Backed /\ Covered

\* The same of the server as it has started, before it handles an event.
LEMMA StartedCovers ==
  ASSUME Delivery
  PROVE  /\ StartedDoc \subseteq Updates
         /\ StartedChannels \in [Clients -> Seq(Messages)]
         /\ \A c \in Clients : BackedBy(StartedChannels[c], StartedDoc)
         /\ \A c \in Clients \ readOnly : Connected(c) =>
              docs[c] \subseteq StartedDoc \cup Carried(toServer[c])
                                \cup Asked(StartedChannels[c])
         /\ \A c \in Clients : ~Connected(c) => StartedChannels[c] = <<>>
         /\ \A c \in Clients : conn[c] = "accepted" =>
              StartedChannels[c] # <<>> /\ StartedChannels[c][1].type = "step1"
<1>1. CASE awake
  <2>1. StartedDoc = sdoc /\ StartedChannels = toClient
    BY <1>1 DEF StartedDoc, StartedChannels
  <2>2. \A c \in Clients : ~Connected(c) => toClient[c] = <<>>
    BY DEF Delivery, Handshake, Connected
  <2> QED BY <1>1, <2>1, <2>2 DEF Delivery, TypeOK, Handshake, Backed, Covered
<1>2. CASE ~awake
  <2>1. /\ StartedDoc = disk /\ disk \subseteq Updates
        /\ StartedChannels = ToAll(toClient, Step1(disk))
        /\ Step1(disk) \in Messages
    BY <1>2, MessageTypes DEF StartedDoc, StartedChannels, Delivery, TypeOK
  <2>2. StartedChannels \in [Clients -> Seq(Messages)]
    BY <2>1, ToAllType DEF Delivery, TypeOK
  <2>3. ASSUME NEW c \in Clients, ~Connected(c)
        PROVE  /\ StartedChannels[c] = <<>> /\ conn[c] # "accepted"
               /\ BackedBy(StartedChannels[c], StartedDoc)
    <3>1. StartedChannels[c] = <<>> /\ conn[c] # "accepted"
      BY <2>1, <2>3 DEF ToAll, Delivery, Handshake, Connected
    <3> QED BY <3>1 DEF BackedBy
  <2>4. ASSUME NEW c \in Clients, Connected(c)
        PROVE  /\ BackedBy(StartedChannels[c], StartedDoc)
               /\ Updates \subseteq StartedDoc \cup Asked(StartedChannels[c])
               /\ conn[c] = "accepted" =>
                    StartedChannels[c] # <<>> /\ StartedChannels[c][1].type = "step1"
    <3>1. /\ StartedChannels[c] = Append(toClient[c], Step1(disk))
          /\ toClient[c] \in Seq(Messages)
      BY <2>1, <2>4 DEF ToAll, Delivery, TypeOK
    <3>2. BackedBy(Append(toClient[c], Step1(disk)), disk)
      BY <2>1, <3>1, AskedBacked
    <3>3. Updates \ disk \subseteq Asked(Append(toClient[c], Step1(disk)))
      <4>1. Updates \ Step1(disk).content \subseteq Asked(Append(toClient[c], Step1(disk)))
        BY <2>1, <3>1, AppendCarries DEF Step1
      <4> QED BY <4>1 DEF Step1, Integrated
    <3>4. conn[c] = "accepted" =>
            StartedChannels[c] # <<>> /\ StartedChannels[c][1].type = "step1"
      <4>1. /\ Len(StartedChannels[c]) = Len(toClient[c]) + 1
            /\ \A i \in 1..Len(toClient[c]) : StartedChannels[c][i] = toClient[c][i]
        BY <2>1, <3>1, AppendProperties
      <4>2. conn[c] = "accepted" => toClient[c] # <<>> /\ toClient[c][1].type = "step1"
        BY DEF Delivery, Handshake
      <4>3. toClient[c] # <<>> => Len(toClient[c]) \in Nat \ {0}
        BY <3>1, EmptySeq
      <4>4. StartedChannels[c] \in Seq(Messages) /\ Len(<<>>) = 0
        BY <2>2, EmptySeq
      <4> QED BY <4>1, <4>2, <4>3, <4>4
    <3> QED BY <2>1, <3>1, <3>2, <3>3, <3>4
  <2>5. \A c \in Clients : docs[c] \subseteq Updates
    BY DEF Delivery, TypeOK
  <2> QED BY <2>1, <2>2, <2>3, <2>4, <2>5
<1> QED BY <1>1, <1>2

\* Each channel to a client gets nothing or one message that the server has.
LEMMA ServerSends ==
  ASSUME Delivery, NEW c \in Clients, ServerReceives(c)
  PROVE  /\ StartedDoc \subseteq sdoc'
         /\ \A d \in Clients :
              \/ toClient'[d] = StartedChannels[d]
              \/ /\ Connected(d)
                 /\ \E x \in Messages : /\ x.type # "step1" /\ x.content \subseteq sdoc'
                                        /\ toClient'[d] = Append(StartedChannels[d], x)
<1> DEFINE m == Head(toServer[c])
<1>1. /\ toServer[c] \in Seq(Messages) /\ toServer[c] # <<>> /\ Connected(c)
  BY DEF ServerReceives, Delivery, TypeOK
<1>2. m.content \subseteq Updates
  <2>1. m \in Messages
    BY <1>1, HeadTailProperties
  <2> QED BY <2>1 DEF Messages
<1>3. StartedDoc \subseteq Updates /\ StartedChannels \in [Clients -> Seq(Messages)]
  BY StartedCovers
<1>4. CASE /\ sdoc' = StartedDoc
           /\ toClient' = [StartedChannels EXCEPT
                             ![c] = Append(@, Step2(StartedDoc, m.content))]
  <2> DEFINE x == Step2(StartedDoc, m.content)
  <2>1. x \in Messages /\ x.type # "step1" /\ x.content \subseteq sdoc'
    BY <1>3, <1>4, MessageTypes DEF Step2
  <2>2. toClient'[c] = Append(StartedChannels[c], x)
    BY <1>3, <1>4
  <2>3. \A d \in Clients : d # c => toClient'[d] = StartedChannels[d]
    BY <1>3, <1>4
  <2> HIDE DEF x
  <2> QED BY <1>1, <1>4, <2>1, <2>2, <2>3
<1>5. CASE ApplyUpdate(StartedDoc, StartedChannels, m.content)
  <2> DEFINE doc == StartedDoc \cup m.content
             new == Integrated(doc) \ Integrated(StartedDoc)
             x == Update(new)
  <2>1. sdoc' = doc /\ toClient' = IF new = {} THEN StartedChannels
                                   ELSE ToAll(StartedChannels, x)
    BY <1>5 DEF ApplyUpdate
  <2>2. x \in Messages
    BY <1>2, <1>3, MessageTypes
  <2>3. x.type # "step1" /\ x.content \subseteq doc
    BY DEF Update, Integrated
  <2>4. StartedDoc \subseteq doc
    OBVIOUS
  <2> HIDE DEF doc, new, x
  <2>5. ASSUME NEW d \in Clients
        PROVE  \/ toClient'[d] = StartedChannels[d]
               \/ Connected(d) /\ toClient'[d] = Append(StartedChannels[d], x)
    BY <2>1 DEF ToAll
  <2> QED BY <2>1, <2>2, <2>3, <2>4, <2>5
<1>6. CASE sdoc' = StartedDoc /\ toClient' = StartedChannels
  BY <1>6
<1> QED BY <1>4, <1>5, <1>6 DEF ServerReceives

LEMMA ServerReceivesDelivers ==
  ASSUME Delivery, NEW c \in Clients, ServerReceives(c)
  PROVE  Handshake' /\ Backed' /\ Covered'
<1> DEFINE m == Head(toServer[c])
<1>1. /\ Connected(c) /\ toServer[c] # <<>> /\ toServer[c] \in Seq(Messages)
      /\ toServer \in [Clients -> Seq(Messages)]
      /\ toServer' = [toServer EXCEPT ![c] = Tail(@)]
      /\ UNCHANGED <<readOnly, conn, docs>>
  BY DEF ServerReceives, Delivery, TypeOK
<1>2. conn[c] = "open"
  BY <1>1 DEF Connected, Delivery, Handshake, TypeOK
<1>3. ASSUME NEW d \in Clients
      PROVE  /\ BackedBy(toClient'[d], sdoc')
             /\ Asked(StartedChannels[d]) \subseteq Asked(toClient'[d])
             /\ conn[d] = "closed" => toClient'[d] = <<>>
             /\ conn[d] = "accepted" => toClient'[d] # <<>> /\ toClient'[d][1].type = "step1"
  <2>1. /\ StartedChannels[d] \in Seq(Messages) /\ BackedBy(StartedChannels[d], StartedDoc)
        /\ StartedDoc \subseteq sdoc'
    BY StartedCovers, ServerSends
  <2>2. CASE toClient'[d] = StartedChannels[d]
    BY <2>1, <2>2, StartedCovers, GrownBacked DEF Connected
  <2>3. ASSUME Connected(d), NEW x \in Messages, x.type # "step1", x.content \subseteq sdoc',
               toClient'[d] = Append(StartedChannels[d], x)
        PROVE  /\ BackedBy(toClient'[d], sdoc')
               /\ Asked(StartedChannels[d]) \subseteq Asked(toClient'[d])
               /\ conn[d] # "closed"
               /\ conn[d] = "accepted" =>
                    toClient'[d] # <<>> /\ toClient'[d][1].type = "step1"
    <3>1. BackedBy(toClient'[d], sdoc')
      BY <2>1, <2>3, AppendBacked
    <3>2. Asked(StartedChannels[d]) \subseteq Asked(toClient'[d])
      BY <2>1, <2>3, AppendCarries
    <3>3. /\ Len(toClient'[d]) = Len(StartedChannels[d]) + 1
          /\ \A i \in 1..Len(StartedChannels[d]) : toClient'[d][i] = StartedChannels[d][i]
      BY <2>1, <2>3, AppendProperties
    <3>4. conn[d] = "accepted" => toClient'[d] # <<>> /\ toClient'[d][1].type = "step1"
      BY <2>1, <3>3, StartedCovers, EmptySeq
    <3> QED BY <2>3, <3>1, <3>2, <3>4 DEF Connected
  <2> QED BY <2>2, <2>3, ServerSends
<1>4. Handshake'
  BY <1>1, <1>2, <1>3 DEF Delivery, Handshake
<1>5. Backed'
  BY <1>3 DEF Backed
<1>6. Covered'
  <2> SUFFICES ASSUME NEW d \in Clients \ readOnly, Connected(d)
               PROVE  docs[d] \subseteq sdoc' \cup Carried(toServer'[d]) \cup Asked(toClient'[d])
    BY <1>1 DEF Covered, Connected
  <2>1. docs[d] \subseteq StartedDoc \cup Carried(toServer[d]) \cup Asked(StartedChannels[d])
    BY StartedCovers
  <2>2. Carried(toServer[d]) \subseteq sdoc' \cup Carried(toServer'[d])
    <3>1. CASE d # c
      BY <1>1, <3>1
    <3>2. CASE d = c
      <4>1. /\ m.type = "step1" => Carried(toServer[c]) = Carried(Tail(toServer[c]))
            /\ m.type # "step1" =>
                 Carried(toServer[c]) \subseteq Carried(Tail(toServer[c])) \cup m.content
        BY <1>1, TailCarries
      <4>2. m.type # "step1" => m.content \subseteq sdoc'
        BY <3>2 DEF ServerReceives, Reads, ApplyUpdate
      <4>3. toServer'[c] = Tail(toServer[c])
        BY <1>1
      <4> QED BY <3>2, <4>1, <4>2, <4>3
    <3> QED BY <3>1, <3>2
  <2> QED BY <1>3, <2>1, <2>2, ServerSends
<1> QED BY <1>4, <1>5, <1>6

LEMMA AcceptDelivers ==
  ASSUME Delivery, NEW c \in Clients, Accept(c)
  PROVE  Handshake' /\ Backed' /\ Covered'
<1> DEFINE ask == Step1(StartedDoc)
<1>1. /\ conn[c] = "closed" /\ conn' = [conn EXCEPT ![c] = "accepted"] /\ sdoc' = StartedDoc
      /\ toClient' = [StartedChannels EXCEPT ![c] = <<ask>>]
      /\ UNCHANGED <<readOnly, toServer, docs>>
      /\ conn \in [Clients -> {"closed", "accepted", "open"}]
  BY DEF Accept, Delivery, TypeOK
<1>2. /\ StartedChannels \in [Clients -> Seq(Messages)] /\ ask \in Messages
      /\ StartedDoc \subseteq Updates
  BY StartedCovers, MessageTypes
<1>3. ask.type = "step1" /\ ask.content \subseteq StartedDoc
  BY DEF Step1, Integrated
<1> HIDE DEF ask
<1>4. toClient'[c] = <<ask>> /\ \A d \in Clients : d # c => toClient'[d] = StartedChannels[d]
  BY <1>1, <1>2
<1>5. Handshake'
  <2>1. ASSUME NEW d \in Clients, d # c
        PROVE  /\ conn[d] # "open" => toServer[d] = <<>>
               /\ conn[d] = "closed" => StartedChannels[d] = <<>>
               /\ conn[d] = "accepted" =>
                    StartedChannels[d] # <<>> /\ StartedChannels[d][1].type = "step1"
    BY StartedCovers DEF Delivery, Handshake, Connected
  <2>2. toServer[c] = <<>> /\ <<ask>> # <<>> /\ <<ask>>[1].type = "step1"
    BY <1>1, <1>3 DEF Delivery, Handshake
  <2> QED BY <1>1, <1>4, <2>1, <2>2 DEF Handshake
<1>6. Backed'
  <2>1. BackedBy(<<ask>>, StartedDoc)
    BY <1>3 DEF BackedBy
  <2>2. \A d \in Clients : BackedBy(toClient'[d], sdoc')
    BY <1>1, <1>4, <2>1, StartedCovers
  <2> QED BY <2>2 DEF Backed
<1>7. Covered'
  <2>1. ASSUME NEW d \in Clients \ readOnly, d # c, Connected(d)
        PROVE  docs[d] \subseteq sdoc' \cup Carried(toServer[d]) \cup Asked(toClient'[d])
    BY <1>1, <1>4, <2>1, StartedCovers
  <2>2. docs[c] \subseteq sdoc' \cup Asked(toClient'[c])
    <3>1. ask \in ToSet(<<ask>>)
      BY DEF ToSet
    <3>2. Updates \ ask.content \subseteq Asked(<<ask>>)
      BY <1>3, <3>1 DEF Asked
    <3>3. docs[c] \subseteq Updates
      BY DEF Delivery, TypeOK
    <3> QED BY <1>1, <1>3, <1>4, <3>2, <3>3
  <2> QED BY <1>1, <2>1, <2>2 DEF Covered, Connected
<1> QED BY <1>5, <1>6, <1>7

LEMMA EditDelivers ==
  ASSUME Delivery, NEW c \in Clients, Edit(c)
  PROVE  Handshake' /\ Backed' /\ Covered'
<1>1. PICK u \in Updates :
        /\ u[1] = c /\ u \notin docs[c]
        /\ docs' = [docs EXCEPT ![c] = @ \cup {u}]
        /\ toServer' = IF conn[c] = "open"
                       THEN [toServer EXCEPT ![c] = Append(@, Update({u}))]
                       ELSE toServer
        /\ UNCHANGED <<readOnly, server, conn, toClient>>
  BY DEF Edit
<1>2. /\ toServer[c] \in Seq(Messages) /\ Update({u}) \in Messages
      /\ Update({u}).type # "step1" /\ Update({u}).content = {u}
  BY DEF Update, Messages, Delivery, TypeOK
<1>3. /\ toServer \in [Clients -> Seq(Messages)] /\ docs \in [Clients -> SUBSET Updates]
      /\ conn \in [Clients -> {"closed", "accepted", "open"}]
  BY DEF Delivery, TypeOK
<1>4. Handshake'
  BY <1>1, <1>3 DEF Delivery, Handshake
<1>5. Backed'
  BY <1>1 DEF Delivery, Backed, server
<1>6. Covered'
  <2> SUFFICES ASSUME awake, NEW d \in Clients \ readOnly, Connected(d)
               PROVE  docs'[d] \subseteq sdoc \cup Carried(toServer'[d]) \cup Asked(toClient[d])
    BY <1>1 DEF Covered, Connected, server
  <2>1. docs[d] \subseteq sdoc \cup Carried(toServer[d]) \cup Asked(toClient[d])
    BY DEF Delivery, Covered
  <2>2. CASE d # c
    BY <1>1, <1>3, <2>1, <2>2
  <2>3. CASE d = c /\ conn[c] = "open"
    <3>1. /\ Carried(toServer[c]) \subseteq Carried(toServer'[c])
          /\ u \in Carried(toServer'[c])
      BY <1>1, <1>2, <1>3, <2>3, AppendCarries
    <3> QED BY <1>1, <1>3, <2>1, <2>3, <3>1
  <2>4. CASE d = c /\ conn[c] = "accepted"
    <3>1. /\ toClient[c] \in Seq(OwnMessages) /\ toClient[c] # <<>>
          /\ toClient[c][1].type = "step1"
      BY <2>4 DEF Delivery, Handshake, Authored
    <3>2. toClient[c][1] \in OwnMessages /\ toClient[c][1] \in ToSet(toClient[c])
      <4>1. Len(toClient[c]) \in Nat \ {0} /\ DOMAIN toClient[c] = 1..Len(toClient[c])
        BY <3>1, EmptySeq, LenProperties
      <4>2. 1 \in DOMAIN toClient[c]
        BY <4>1
      <4>3. toClient[c][1] \in OwnMessages
        BY <3>1, <4>1, ElementOfSeq
      <4> QED BY <4>2, <4>3 DEF ToSet
    <3>3. u \notin toClient[c][1].content
      BY <1>1, <3>2 DEF OwnMessages, Own
    <3>4. u \in Asked(toClient[c])
      BY <3>1, <3>2, <3>3 DEF Asked
    <3> QED BY <1>1, <1>3, <2>1, <2>4, <3>4
  <2> QED BY <1>3, <2>2, <2>3, <2>4 DEF Connected
<1> QED BY <1>4, <1>5, <1>6

LEMMA ClientReceivesDelivers ==
  ASSUME Delivery, NEW c \in Clients, ClientReceives(c)
  PROVE  Handshake' /\ Backed' /\ Covered'
<1> DEFINE m == Head(toClient[c])
<1>1. /\ toClient[c] \in Seq(Messages) /\ toClient[c] # <<>> /\ conn[c] = "open"
      /\ toClient' = [toClient EXCEPT ![c] = Tail(@)]
      /\ UNCHANGED <<readOnly, server, conn>>
      /\ toClient \in [Clients -> Seq(Messages)] /\ toServer \in [Clients -> Seq(Messages)]
      /\ docs \in [Clients -> SUBSET Updates]
  BY DEF ClientReceives, Delivery, TypeOK
<1>2. \/ /\ m.type = "step1" /\ UNCHANGED docs
         /\ toServer' = [toServer EXCEPT ![c] = Append(@, Step2(docs[c], m.content))]
      \/ /\ m.type # "step1" /\ UNCHANGED toServer
         /\ docs' = [docs EXCEPT ![c] = @ \cup m.content]
  BY DEF ClientReceives
<1>3. Handshake'
  BY <1>1, <1>2 DEF Delivery, Handshake
<1>4. toClient'[c] = Tail(toClient[c]) /\ \A d \in Clients : d # c => toClient'[d] = toClient[d]
  BY <1>1
<1>5. Backed'
  <2> SUFFICES ASSUME awake, NEW d \in Clients
               PROVE  BackedBy(toClient'[d], sdoc)
    BY <1>1 DEF Backed, server
  <2>1. BackedBy(toClient[d], sdoc)
    BY DEF Delivery, Backed
  <2> QED BY <1>1, <1>4, <2>1, TailBacked
<1>6. Covered'
  <2> SUFFICES ASSUME awake, NEW d \in Clients \ readOnly, Connected(d)
               PROVE  docs'[d] \subseteq sdoc \cup Carried(toServer'[d]) \cup Asked(toClient'[d])
    BY <1>1 DEF Covered, Connected, server
  <2>1. /\ docs[d] \subseteq sdoc \cup Carried(toServer[d]) \cup Asked(toClient[d])
        /\ BackedBy(toClient[d], sdoc)
    BY DEF Delivery, Covered, Backed
  <2>2. CASE d # c
    BY <1>1, <1>2, <1>4, <2>1, <2>2
  <2>3. CASE d = c /\ m.type = "step1"
    <3> DEFINE x == Step2(docs[c], m.content)
    <3>1. x \in Messages /\ x.type # "step1" /\ docs[c] \ m.content \subseteq x.content
      BY <1>1, MessageTypes DEF Step2
    <3>2. docs'[c] = docs[c] /\ toServer'[c] = Append(toServer[c], x)
      BY <1>1, <1>2, <2>3
    <3> HIDE DEF x
    <3>3. /\ Carried(toServer[c]) \subseteq Carried(toServer'[c])
          /\ x.content \subseteq Carried(toServer'[c])
      BY <1>1, <3>1, <3>2, AppendCarries
    <3>4. Asked(toClient[c]) \subseteq Asked(toClient'[c]) \cup (Updates \ m.content)
      BY <1>1, <1>4, <2>3, TailCarries
    <3> QED BY <2>1, <2>3, <3>1, <3>2, <3>3, <3>4
  <2>4. CASE d = c /\ m.type # "step1"
    <3>1. docs'[c] = docs[c] \cup m.content /\ toServer'[c] = toServer[c]
      BY <1>1, <1>2, <2>4
    <3>2. Asked(toClient[c]) = Asked(toClient'[c])
      BY <1>1, <1>4, <2>4, TailCarries
    <3>3. m.content \subseteq sdoc \cup Asked(toClient'[c])
      BY <1>1, <1>4, <2>1, <2>4, TailBacked
    <3> QED BY <2>1, <2>4, <3>1, <3>2, <3>3
  <2> QED BY <2>2, <2>3, <2>4
<1> QED BY <1>3, <1>5, <1>6

LEMMA DeliveryStep ==
  ASSUME Delivery, [Next]_vars
  PROVE  Delivery'
<1>1. TypeOK' /\ Authored'
  BY TypeStep, AuthoredStep DEF Delivery
<1>2. ASSUME NEW c \in Clients, Open(c)
      PROVE  Handshake' /\ Backed' /\ Covered'
  <2>1. /\ conn[c] = "accepted" /\ conn' = [conn EXCEPT ![c] = "open"]
        /\ toServer' = [toServer EXCEPT ![c] = Append(@, Step1(docs[c]))]
        /\ UNCHANGED <<readOnly, server, toClient, docs>>
        /\ conn \in [Clients -> {"closed", "accepted", "open"}]
        /\ toServer \in [Clients -> Seq(Messages)] /\ Step1(docs[c]) \in Messages
    BY <1>2, MessageTypes DEF Open, Delivery, TypeOK
  <2>2. \A d \in Clients : Carried(toServer[d]) \subseteq Carried(toServer'[d])
    BY <2>1, AppendCarries
  <2>3. Handshake'
    BY <2>1 DEF Delivery, Handshake
  <2>4. Backed'
    BY <2>1 DEF Delivery, Backed, server
  <2>5. Covered'
    BY <2>1, <2>2 DEF Delivery, Covered, Connected, server
  <2> QED BY <2>3, <2>4, <2>5
<1>3. ASSUME NEW c \in Clients, Drop(c)
      PROVE  Handshake' /\ Backed' /\ Covered'
  <2>1. /\ conn' = [conn EXCEPT ![c] = "closed"]
        /\ toServer' = [toServer EXCEPT ![c] = <<>>]
        /\ toClient' = [toClient EXCEPT ![c] = <<>>]
        /\ UNCHANGED <<readOnly, server, docs>>
        /\ conn \in [Clients -> {"closed", "accepted", "open"}]
        /\ toServer \in [Clients -> Seq(Messages)] /\ toClient \in [Clients -> Seq(Messages)]
    BY <1>3 DEF Drop, Delivery, TypeOK
  <2>2. BackedBy(<<>>, sdoc)
    BY DEF BackedBy
  <2>3. Handshake'
    BY <2>1 DEF Delivery, Handshake
  <2>4. Backed'
    BY <2>1, <2>2 DEF Delivery, Backed, server
  <2>5. Covered'
    BY <2>1 DEF Delivery, Covered, Connected, server
  <2> QED BY <2>3, <2>4, <2>5
<1>4. ASSUME Save PROVE Handshake' /\ Backed' /\ Covered'
  BY <1>4 DEF Save, links, Delivery, Handshake, Backed, Covered, Connected
<1>5. ASSUME Hibernate PROVE Handshake' /\ Backed' /\ Covered'
  BY <1>5 DEF Hibernate, links, Delivery, Handshake, Backed, Covered
<1>6. ASSUME Crash PROVE Handshake' /\ Backed' /\ Covered'
  BY <1>6 DEF Crash, Delivery, Handshake, Backed, Covered
<1>7. ASSUME UNCHANGED vars PROVE Handshake' /\ Backed' /\ Covered'
  BY <1>7 DEF vars, server, links, Delivery, Handshake, Backed, Covered, Connected
<1>8. ASSUME NEW c \in Clients,
             Accept(c) \/ Edit(c) \/ ServerReceives(c) \/ ClientReceives(c)
      PROVE  Handshake' /\ Backed' /\ Covered'
  BY <1>8, AcceptDelivers, EditDelivers, ServerReceivesDelivers, ClientReceivesDelivers
<1> QED BY <1>1, <1>2, <1>3, <1>4, <1>5, <1>6, <1>7, <1>8 DEF Next, Delivery

LEMMA DeliveryHolds == Spec => []Delivery
<1>1. Init => Delivery
  <2>1. <<>> \in Seq(OwnMessages)
    BY EmptySeq
  <2>2. Init => Authored
    BY <2>1 DEF Init, Authored
  <2>3. Init => Handshake /\ Backed /\ Covered
    BY DEF Init, Handshake, Backed, Covered
  <2> QED BY <2>2, <2>3, InitType DEF Delivery
<1>2. Delivery /\ [Next]_vars => Delivery'
  BY DeliveryStep
<1> QED BY <1>1, <1>2, PTL DEF Spec

(* Whatever was lost, and however often the server slept or crashed, an     *)
(* awake server has, is being sent, or will have asked for everything in    *)
(* the document of a connected client that may write.                       *)
THEOREM NothingIsLeftBehind == Spec => []ServerMissesNothing
<1>1. Delivery => ServerMissesNothing
  BY DEF Delivery, Covered, ServerMissesNothing, Connected
<1> QED BY <1>1, DeliveryHolds, PTL

-----------------------------------------------------------------------------
(* What a synced client has heard of.                                       *)

LEMMA IntegratedGrows ==
  ASSUME NEW doc, NEW grown, doc \subseteq grown
  PROVE  Integrated(doc) \subseteq Integrated(grown)
  BY DEF Integrated

\* The client's state vector was answered, or is about to be.
Answered(c) ==
  synced[c] \/ \E m \in ToSet(toClient[c]) : m.type = "step2"

Asks ==
  \A c \in Clients : \A m \in ToSet(toServer[c]) :
    m.type = "step1" => m.content \subseteq docs[c]

Heard ==
  \A c \in Clients :
    Answered(c) => /\ Connected(c)
                   /\ Integrated(StartedDoc) \subseteq docs[c] \cup Carried(toClient[c])

Hearing == TypeOK /\ Loaded /\ Handshake /\ Asks /\ Heard

\* Waking takes nothing from a channel, and answers nobody.
LEMMA StartedHears ==
  ASSUME TypeOK, NEW c \in Clients
  PROVE  /\ StartedChannels[c] \in Seq(Messages)
         /\ Carried(StartedChannels[c]) = Carried(toClient[c])
         /\ \A m \in ToSet(StartedChannels[c]) :
              m.type = "step2" => m \in ToSet(toClient[c])
<1>1. /\ StartedChannels[c] \in Seq(Messages) /\ toClient[c] \in Seq(Messages)
      /\ Step1(disk) \in Messages
  BY StartedTypes, MessageTypes DEF TypeOK
<1>2. \/ StartedChannels[c] = toClient[c]
      \/ StartedChannels[c] = Append(toClient[c], Step1(disk))
  BY DEF StartedChannels, ToAll
<1>3. ToSet(Append(toClient[c], Step1(disk))) = ToSet(toClient[c]) \cup {Step1(disk)}
  BY <1>1, AppendSet
<1>4. Step1(disk).type = "step1"
  BY DEF Step1
<1>5. Carried(StartedChannels[c]) = Carried(toClient[c])
  BY <1>2, <1>3, <1>4 DEF Carried
<1> QED BY <1>1, <1>2, <1>3, <1>4, <1>5

\* A channel that gets one more message carries what it carried, and that.
LEMMA AppendHears ==
  ASSUME NEW ch \in Seq(Messages), NEW m \in Messages
  PROVE  /\ Carried(ch) \subseteq Carried(Append(ch, m))
         /\ m.type # "step1" => m.content \subseteq Carried(Append(ch, m))
         /\ m.type # "step2" =>
              \A x \in ToSet(Append(ch, m)) : x.type = "step2" => x \in ToSet(ch)
  BY AppendSet, AppendCarries

\* After a message of any client, every channel that carries an answer has
\* what the server's document has.
LEMMA ServerReceivesHears ==
  ASSUME Hearing, NEW c \in Clients, ServerReceives(c)
  PROVE  Heard'
<1> DEFINE m == Head(toServer[c])
<1>1. /\ Connected(c) /\ toServer[c] # <<>> /\ toServer[c] \in Seq(Messages)
      /\ awake' /\ UNCHANGED <<conn, docs, synced>>
  BY DEF ServerReceives, Hearing, TypeOK
<1>2. m \in Messages /\ m \in ToSet(toServer[c])
  BY <1>1, HeadTailProperties, TailSet
<1>3. /\ StartedDoc \subseteq Updates /\ StartedChannels \in [Clients -> Seq(Messages)]
      /\ m.content \subseteq Updates
  BY <1>2, StartedTypes DEF Hearing, Messages
<1>4. StartedDoc' = sdoc'
  BY <1>1 DEF StartedDoc
<1>5. ASSUME NEW d \in Clients, Answered(d)
      PROVE  /\ Connected(d)
             /\ Integrated(StartedDoc) \subseteq docs[d] \cup Carried(StartedChannels[d])
  BY <1>5, StartedHears DEF Hearing, Heard
<1>6. ASSUME NEW d \in Clients, \E x \in ToSet(StartedChannels[d]) : x.type = "step2"
      PROVE  Answered(d)
  BY <1>6, StartedHears DEF Hearing, Answered
<1> SUFFICES ASSUME NEW d \in Clients, Answered(d)'
             PROVE  Connected(d) /\ Integrated(sdoc') \subseteq docs[d] \cup Carried(toClient'[d])
  BY <1>1, <1>4 DEF Heard, Connected
<1>7. CASE /\ m.type = "step1" /\ sdoc' = StartedDoc
           /\ toClient' = [StartedChannels EXCEPT
                             ![c] = Append(@, Step2(StartedDoc, m.content))]
  <2> DEFINE x == Step2(StartedDoc, m.content)
  <2>1. x \in Messages /\ x.type = "step2" /\ StartedDoc \ m.content \subseteq x.content
    BY <1>3, MessageTypes DEF Step2
  <2>2. toClient'[c] = Append(StartedChannels[c], x)
    BY <1>3, <1>7
  <2>3. d # c => toClient'[d] = StartedChannels[d]
    BY <1>3, <1>7
  <2> HIDE DEF x
  <2>4. CASE d = c
    <3>1. m.content \subseteq docs[c]
      BY <1>2, <1>7 DEF Hearing, Asks
    <3>2. x.content \subseteq Carried(toClient'[c])
      BY <1>3, <2>1, <2>2, AppendHears
    <3> QED BY <1>1, <1>7, <2>1, <2>4, <3>1, <3>2 DEF Integrated
  <2>5. CASE d # c
    <3>1. Answered(d)
      BY <1>1, <1>6, <2>3, <2>5 DEF Answered
    <3> QED BY <1>5, <1>7, <2>3, <2>5, <3>1
  <2> QED BY <2>4, <2>5
<1>8. CASE ApplyUpdate(StartedDoc, StartedChannels, m.content)
  <2> DEFINE doc == StartedDoc \cup m.content
             new == Integrated(doc) \ Integrated(StartedDoc)
             x == Update(new)
  <2>1. sdoc' = doc /\ toClient' = IF new = {} THEN StartedChannels
                                   ELSE ToAll(StartedChannels, x)
    BY <1>8 DEF ApplyUpdate
  <2>2. x \in Messages
    BY <1>3, MessageTypes
  <2>3. x.type = "update" /\ x.content = new
    BY DEF Update
  <2>4. Integrated(doc) \subseteq Integrated(StartedDoc) \cup new
    OBVIOUS
  <2> HIDE DEF doc, x, new
  <2>5. \/ toClient'[d] = StartedChannels[d] /\ (new = {} \/ ~Connected(d))
        \/ Connected(d) /\ toClient'[d] = Append(StartedChannels[d], x)
    BY <2>1 DEF ToAll
  <2>6. Answered(d)
    <3>1. \A y \in ToSet(toClient'[d]) : y.type = "step2" => y \in ToSet(StartedChannels[d])
      BY <1>3, <2>2, <2>3, <2>5, AppendHears
    <3> QED BY <1>1, <1>6, <3>1 DEF Answered
  <2>7. /\ Carried(StartedChannels[d]) \subseteq Carried(toClient'[d])
        /\ new \subseteq Carried(toClient'[d])
    <3>1. CASE new = {} /\ toClient'[d] = StartedChannels[d]
      BY <3>1
    <3>2. CASE toClient'[d] = Append(StartedChannels[d], x)
      BY <1>3, <2>2, <2>3, <3>2, AppendHears
    <3> QED BY <1>5, <2>5, <2>6, <3>1, <3>2
  <2> QED BY <1>5, <2>1, <2>4, <2>6, <2>7
<1>9. CASE sdoc' = StartedDoc /\ toClient' = StartedChannels
  <2>1. Answered(d)
    BY <1>1, <1>6, <1>9 DEF Answered
  <2> QED BY <1>5, <1>9, <2>1
<1> QED BY <1>7, <1>8, <1>9 DEF ServerReceives

LEMMA AcceptHears ==
  ASSUME Hearing, NEW c \in Clients, Accept(c)
  PROVE  Heard'
<1>1. /\ conn[c] = "closed" /\ awake' /\ sdoc' = StartedDoc
      /\ conn' = [conn EXCEPT ![c] = "accepted"]
      /\ toClient' = [StartedChannels EXCEPT ![c] = <<Step1(StartedDoc)>>]
      /\ UNCHANGED <<docs, synced>>
      /\ conn \in [Clients -> {"closed", "accepted", "open"}]
      /\ StartedChannels \in [Clients -> Seq(Messages)]
  BY StartedTypes DEF Accept, Hearing, TypeOK
<1>2. StartedDoc' = StartedDoc
  BY <1>1 DEF StartedDoc
<1>3. ~Answered(c)'
  <2>1. ~synced[c]
    BY <1>1 DEF Hearing, Heard, Answered, Connected
  <2>2. ToSet(<<Step1(StartedDoc)>>) = {Step1(StartedDoc)}
    BY DEF ToSet
  <2> QED BY <1>1, <2>1, <2>2 DEF Answered, Step1
<1>4. ASSUME NEW d \in Clients, d # c, Answered(d)'
      PROVE  /\ Connected(d)'
             /\ Integrated(StartedDoc) \subseteq docs[d] \cup Carried(toClient'[d])
  <2>1. toClient'[d] = StartedChannels[d] /\ conn'[d] = conn[d]
    BY <1>1, <1>4
  <2>2. Answered(d)
    BY <1>1, <1>4, <2>1, StartedHears DEF Answered, Hearing
  <2> QED BY <2>1, <2>2, StartedHears DEF Hearing, Heard, Connected
<1> QED BY <1>1, <1>2, <1>3, <1>4 DEF Heard

LEMMA ClientReceivesHears ==
  ASSUME Hearing, NEW c \in Clients, ClientReceives(c)
  PROVE  Heard'
<1> DEFINE m == Head(toClient[c])
<1>1. /\ toClient[c] \in Seq(Messages) /\ toClient[c] # <<>> /\ conn[c] = "open"
      /\ toClient' = [toClient EXCEPT ![c] = Tail(@)]
      /\ UNCHANGED <<server, conn>>
      /\ toClient \in [Clients -> Seq(Messages)] /\ docs \in [Clients -> SUBSET Updates]
      /\ synced \in [Clients -> BOOLEAN]
  BY DEF ClientReceives, Hearing, TypeOK
<1>2. \/ m.type = "step1" /\ UNCHANGED <<docs, synced>>
      \/ /\ m.type # "step1" /\ docs' = [docs EXCEPT ![c] = @ \cup m.content]
         /\ synced' = [synced EXCEPT ![c] = @ \/ m.type = "step2"]
  BY DEF ClientReceives
<1>3. StartedDoc' = StartedDoc /\ \A d \in Clients : Connected(d)' = Connected(d)
  BY <1>1 DEF StartedDoc, server, Connected
<1>4. ToSet(toClient[c]) = ToSet(toClient'[c]) \cup {m}
  BY <1>1, TailSet
<1> SUFFICES ASSUME NEW d \in Clients, Answered(d)'
             PROVE  /\ Connected(d)
                    /\ Integrated(StartedDoc) \subseteq docs'[d] \cup Carried(toClient'[d])
  BY <1>3 DEF Heard
<1>5. CASE d # c
  <2>1. docs'[d] = docs[d] /\ synced'[d] = synced[d] /\ toClient'[d] = toClient[d]
    BY <1>1, <1>2, <1>5
  <2> QED BY <2>1 DEF Hearing, Heard, Answered
<1>6. CASE d = c
  <2>1. Answered(c)
    BY <1>1, <1>2, <1>4, <1>6 DEF Answered
  <2>2. docs[c] \cup Carried(toClient[c]) \subseteq docs'[c] \cup Carried(toClient'[c])
    <3>1. toClient'[c] = Tail(toClient[c])
      BY <1>1
    <3>2. \/ docs'[c] = docs[c] /\ Carried(toClient[c]) = Carried(toClient'[c])
          \/ /\ docs'[c] = docs[c] \cup m.content
             /\ Carried(toClient[c]) \subseteq Carried(toClient'[c]) \cup m.content
      BY <1>1, <1>2, <3>1, TailCarries
    <3> QED BY <3>2
  <2> QED BY <1>6, <2>1, <2>2 DEF Hearing, Heard
<1> QED BY <1>5, <1>6

\* A state vector on its way says no more than its author still has.
LEMMA AsksStep ==
  ASSUME TypeOK, Asks, [Next]_vars
  PROVE  Asks'
<1>1. ASSUME NEW c \in Clients
      PROVE  docs[c] \subseteq docs'[c]
  <2>1. CASE \E d \in Clients : Edit(d) \/ ClientReceives(d)
    <3>1. docs' = docs \/ \E d \in Clients : \E s : docs' = [docs EXCEPT ![d] = @ \cup s]
      BY <2>1 DEF Edit, ClientReceives
    <3> QED BY <3>1 DEF TypeOK
  <2>2. CASE UNCHANGED docs
    BY <2>2
  <2> QED BY <2>1, <2>2 DEF Next, vars, Accept, Open, Drop, ServerReceives, Save,
                            Hibernate, Crash
<1>2. ASSUME NEW c \in Clients
      PROVE  \/ toServer'[c] = toServer[c] \/ toServer'[c] = <<>>
             \/ toServer[c] # <<>> /\ toServer'[c] = Tail(toServer[c])
             \/ \E m \in Messages :
                  /\ toServer'[c] = Append(toServer[c], m)
                  /\ m.type = "step1" => m.content \subseteq docs[c]
  <2>1. ASSUME NEW d \in Clients, NEW m \in Messages,
               m.type = "step1" => m.content \subseteq docs[d],
               toServer' = [toServer EXCEPT ![d] = Append(@, m)]
        PROVE  \/ toServer'[c] = toServer[c]
               \/ toServer'[c] = Append(toServer[c], m) /\ d = c
    BY <2>1 DEF TypeOK
  <2>2. CASE \E d \in Clients : Open(d)
    <3>1. PICK d \in Clients : Open(d)
      BY <2>2
    <3>2. Step1(docs[d]) \in Messages /\ Step1(docs[d]).content \subseteq docs[d]
      BY MessageTypes DEF Step1, Integrated, TypeOK
    <3> QED BY <2>1, <3>1, <3>2 DEF Open
  <2>3. CASE \E d \in Clients : Edit(d)
    <3>1. PICK d \in Clients, u \in Updates :
            toServer' = IF conn[d] = "open"
                        THEN [toServer EXCEPT ![d] = Append(@, Update({u}))]
                        ELSE toServer
      BY <2>3 DEF Edit
    <3>2. Update({u}) \in Messages /\ Update({u}).type # "step1"
      BY DEF Update, Messages
    <3> QED BY <2>1, <3>1, <3>2
  <2>4. CASE \E d \in Clients : ClientReceives(d)
    <3>1. PICK d \in Clients : ClientReceives(d)
      BY <2>4
    <3>2. /\ Step2(docs[d], Head(toClient[d]).content) \in Messages
          /\ Step2(docs[d], Head(toClient[d]).content).type # "step1"
      BY MessageTypes DEF Step2, TypeOK
    <3> QED BY <2>1, <3>1, <3>2 DEF ClientReceives
  <2>5. CASE \E d \in Clients : ServerReceives(d) \/ Drop(d) \/ Accept(d)
    BY <2>5 DEF ServerReceives, Drop, Accept, TypeOK
  <2>6. CASE Save \/ Hibernate \/ Crash \/ UNCHANGED vars
    BY <2>6 DEF Save, Hibernate, Crash, vars, links
  <2> QED BY <2>2, <2>3, <2>4, <2>5, <2>6 DEF Next
<1> SUFFICES ASSUME NEW c \in Clients, NEW m \in ToSet(toServer'[c]), m.type = "step1"
             PROVE  m \in ToSet(toServer[c]) \/ m.content \subseteq docs[c]
  BY <1>1 DEF Asks
<1>3. toServer[c] \in Seq(Messages) /\ ToSet(<<>>) = {}
  BY DEF TypeOK, ToSet
<1>4. CASE \E x \in Messages :
             /\ toServer'[c] = Append(toServer[c], x)
             /\ x.type = "step1" => x.content \subseteq docs[c]
  BY <1>3, <1>4, AppendSet
<1>5. CASE toServer[c] # <<>> /\ toServer'[c] = Tail(toServer[c])
  BY <1>3, <1>5, TailSet
<1> QED BY <1>2, <1>3, <1>4, <1>5

LEMMA HeardStep ==
  ASSUME Hearing, [Next]_vars
  PROVE  Heard'
<1>1. ASSUME NEW c \in Clients,
             Accept(c) \/ ServerReceives(c) \/ ClientReceives(c)
      PROVE  Heard'
  BY <1>1, AcceptHears, ServerReceivesHears, ClientReceivesHears
<1>2. ASSUME NEW c \in Clients, Open(c) \/ Edit(c)
      PROVE  Heard'
  <2>1. /\ UNCHANGED <<server, toClient, synced>>
        /\ \A d \in Clients : docs[d] \subseteq docs'[d]
        /\ \A d \in Clients : Connected(d) => Connected(d)'
    BY <1>2 DEF Open, Edit, Connected, Hearing, TypeOK
  <2>2. StartedDoc' = StartedDoc
    BY <2>1 DEF StartedDoc, server
  <2>3. \A d \in Clients : Answered(d)' => Answered(d)
    BY <2>1 DEF Answered
  <2> QED BY <2>1, <2>2, <2>3 DEF Hearing, Heard
<1>3. ASSUME NEW c \in Clients, Drop(c)
      PROVE  Heard'
  <2>1. /\ ~synced'[c] /\ toClient'[c] = <<>> /\ UNCHANGED <<server, docs>>
        /\ \A d \in Clients : d # c => /\ toClient'[d] = toClient[d] /\ conn'[d] = conn[d]
                                       /\ synced'[d] = synced[d]
    BY <1>3 DEF Drop, Hearing, TypeOK
  <2>2. ~Answered(c)'
    BY <2>1 DEF Answered, ToSet
  <2>3. StartedDoc' = StartedDoc
    BY <2>1 DEF StartedDoc, server
  <2> QED BY <2>1, <2>2, <2>3 DEF Hearing, Heard, Answered, Connected
<1>4. ASSUME Save \/ Hibernate \/ UNCHANGED vars
      PROVE  Heard'
  <2>1. UNCHANGED <<conn, toClient, docs, synced>>
    BY <1>4 DEF Save, Hibernate, vars, links
  <2>2. StartedDoc' \subseteq StartedDoc
    <3>1. CASE Save
      BY <3>1 DEF Save, StartedDoc, Hearing, TypeOK
    <3>2. CASE Hibernate
      BY <3>2 DEF Hibernate, StartedDoc, Hearing, Loaded
    <3>3. CASE UNCHANGED vars
      BY <3>3 DEF vars, server, StartedDoc
    <3> QED BY <1>4, <3>1, <3>2, <3>3
  <2>3. Integrated(StartedDoc') \subseteq Integrated(StartedDoc)
    BY <2>2, IntegratedGrows
  <2>4. Integrated(StartedDoc)' = Integrated(StartedDoc')
    BY DEF Integrated
  <2> QED BY <2>1, <2>3, <2>4 DEF Hearing, Heard, Answered, Connected
<1>5. ASSUME Crash PROVE Heard'
  BY <1>5 DEF Crash, Heard, Answered, ToSet
<1> QED BY <1>1, <1>2, <1>3, <1>4, <1>5 DEF Next

(* A client that says it is synced has, or is being sent, every update the  *)
(* server's document has integrated, whoever made it and whenever: no       *)
(* hibernation, crash or reconnection and no relay that crosses the         *)
(* handshake leaves it behind.                                              *)
THEOREM SyncedHearsAll == Spec => []SyncedMissesNothing
<1>1. Init => Loaded /\ Asks /\ Heard
  BY DEF Init, Loaded, Asks, Heard, Answered, ToSet
<1>2. TypeOK /\ Handshake /\ Loaded /\ Asks /\ Heard /\ [Next]_vars =>
        Loaded' /\ Asks' /\ Heard'
  BY LoadedStep, AsksStep, HeardStep DEF Hearing
<1>3. Heard /\ TypeOK => SyncedMissesNothing
  <2>1. ~awake /\ TypeOK => Integrated(sdoc) = {}
    BY DEF TypeOK, Integrated
  <2> QED BY <2>1 DEF Heard, Answered, StartedDoc, SyncedMissesNothing
<1>4. Delivery => Handshake
  BY DEF Delivery
<1> QED BY <1>1, <1>2, <1>3, <1>4, TypeCorrect, DeliveryHolds, PTL DEF Spec
=============================================================================
