-------------------------- MODULE PartySync_proofs --------------------------
(***************************************************************************)
(* Proofs about PartySync, for any pages, agents and rows and any number   *)
(* of writes and faults: a client that has lost nothing holds the live     *)
(* rows or will be sent them, and drops the versions that were replaced.   *)
(***************************************************************************)
EXTENDS PartySync, SequenceTheorems, WellFoundedInduction, TLAPS

-----------------------------------------------------------------------------
(* The newest row.                                                          *)

Below == {p \in Nat \X Nat : p[1] < p[2]}

LEMMA BelowWellFounded == IsWellFoundedOn(Below, Nat)
<1>1. OpToRel(<, Nat) = Below
  BY DEF OpToRel, Below
<1> QED BY <1>1, NatLessThanWellFounded, Zenon

LEMMA LeastNatural ==
  ASSUME NEW T, T \subseteq Nat, T # {}
  PROVE  \E x \in T : \A y \in T : x <= y
<1>1. PICK x \in T : \A y \in T : ~ (<<y, x>> \in Below)
  BY BelowWellFounded, WFMin
<1>2. ASSUME NEW y \in T
      PROVE  x <= y
  <2>1. <<y, x>> \notin Below /\ x \in Nat /\ y \in Nat
    BY <1>1
  <2> QED BY <2>1 DEF Below
<1> QED BY <1>2

LEMMA GreatestNatural ==
  ASSUME NEW T, T # {}, NEW n \in Nat, T \subseteq 0..n
  PROVE  \E x \in T : \A y \in T : y <= x
<1> DEFINE gaps == {n - t : t \in T}
<1>1. gaps \subseteq Nat /\ gaps # {}
  <2>1. \A t \in T : n - t \in Nat
    OBVIOUS
  <2> QED BY <2>1
<1>2. PICK g \in gaps : \A h \in gaps : g <= h
  BY <1>1, LeastNatural
<1>3. PICK x \in T : g = n - x
  OBVIOUS
<1>4. ASSUME NEW y \in T
      PROVE  y <= x
  <2>1. n - y \in gaps
    OBVIOUS
  <2>2. n - x <= n - y /\ x \in 0..n /\ y \in 0..n
    BY <1>2, <1>3, <2>1
  <2> QED BY <2>2
<1> QED BY <1>4

-----------------------------------------------------------------------------
(* Type correctness.                                                        *)

Versions == {None} \cup [at : Nat \ {0}, gone : BOOLEAN, by : Nat]

\* The changes there can have been: of rows the table knows, and not of the
\* future.
Written == {x \in [row : Rows, version : Versions \ {None}] :
              x.version.at <= clock /\ table[x.row] # None}
Copies == {rows \in [Rows -> Versions] :
             \A r \in Rows : rows[r] # None => Change(r, rows[r]) \in Written}

Runs == [client : Clients, id : Nat, caller : {"there", "dropped", "reloaded"},
         change : Written]
Requests == [type : {"sync"}, from : Nat]
              \cup [type : {"call"}, id : Nat, row : Rows, gone : BOOLEAN]

\* No message has two versions of a row, and an error has none.
Replies == {m \in [type : {"sync", "success", "error", "update"}, id : Nat,
                   changes : SUBSET Written] :
              /\ \A x, y \in m.changes : x.row = y.row => x = y
              /\ m.type = "error" => m.changes = {}}

TypeOK ==
  /\ table \in Copies /\ clock \in Nat
  /\ running \in Seq(Runs)
  /\ up \in [Clients -> BOOLEAN]
  /\ phase \in [Clients -> {"idle", "loading", "syncing", "synced"}]
  /\ \A c \in Pages : phase[c] # "idle"
  /\ \A c \in Agents : phase[c] # "loading"
  /\ loaded \in [Pages -> Copies] /\ disk \in [Pages -> Copies]
  /\ value \in [Clients -> Copies]
  /\ pending \in [Clients -> SUBSET Nat]
  /\ toServer \in [Clients -> Seq(Requests)]
  /\ toClient \in [Clients -> Seq(Replies)]
  /\ called \in Nat
  /\ whole \in [Clients -> BOOLEAN]

LEMMA NoneTypes ==
  /\ NoRows \in Copies /\ NoRows \in [Rows -> Versions]
  /\ \A r \in Rows : NoRows[r] = None
  BY DEF NoRows, Copies, Versions

\* LastRecordTime() is the greatest time, and no time to come.
LEMMA LastRecordTimeIs ==
  ASSUME NEW rows \in Copies, clock \in Nat
  PROVE  /\ LastRecordTime(rows) \in Nat /\ LastRecordTime(rows) <= clock
         /\ \A r \in Rows : rows[r].at <= LastRecordTime(rows)
         /\ rows = NoRows => LastRecordTime(rows) = 0
<1> DEFINE times == {rows[r].at : r \in Rows}
<1>1. \A r \in Rows : rows[r].at \in 0..clock
  <2> SUFFICES ASSUME NEW r \in Rows
               PROVE  rows[r].at \in 0..clock
    OBVIOUS
  <2>1. CASE rows[r] = None
    BY <2>1 DEF None
  <2>2. CASE rows[r] # None
    <3>1. Change(r, rows[r]) \in Written
      BY <2>2 DEF Copies
    <3>2. rows[r] \in [at : Nat \ {0}, gone : BOOLEAN, by : Nat] /\ rows[r].at <= clock
      BY <2>2, <3>1 DEF Copies, Versions, Written, Change
    <3> QED BY <3>2
  <2> QED BY <2>1, <2>2
<1>2. times # {} /\ times \subseteq 0..clock
  BY <1>1, SyncAssumption
<1> DEFINE t == CHOOSE x \in times : \A y \in times : y <= x
<1>3. \E x \in times : \A y \in times : y <= x
  BY <1>2, GreatestNatural
<1>4. t \in times /\ \A y \in times : y <= t
  BY <1>3
<1>5. LastRecordTime(rows) = t
  BY DEF LastRecordTime
<1>6. rows = NoRows => times = {0}
  BY SyncAssumption DEF NoRows, None
<1> HIDE DEF t
<1> QED BY <1>2, <1>4, <1>5, <1>6

\* What merging leaves of a row.
LEMMA MergeGives ==
  ASSUME NEW rows, NEW changes, NEW r \in Rows
  PROVE  /\ (\A x \in changes : x.row # r) => Merge(rows, changes)[r] = rows[r]
         /\ (\E x \in changes : x.row = r) =>
              \E x \in changes : x.row = r /\ Merge(rows, changes)[r] = x.version
<1>1. CASE \A x \in changes : x.row # r
  BY <1>1 DEF Merge
<1>2. CASE \E x \in changes : x.row = r
  <2> DEFINE w == CHOOSE x \in changes : x.row = r
  <2>1. w \in changes /\ w.row = r
    BY <1>2
  <2>2. Merge(rows, changes)[r] = w.version
    BY <1>2 DEF Merge
  <2> QED BY <1>2, <2>1, <2>2
<1> QED BY <1>1, <1>2

LEMMA MergeTypes ==
  ASSUME NEW rows \in Copies, NEW changes, changes \subseteq Written
  PROVE  Merge(rows, changes) \in Copies
<1>1. ASSUME NEW r \in Rows
      PROVE  /\ Merge(rows, changes)[r] \in Versions
             /\ Merge(rows, changes)[r] # None => Change(r, Merge(rows, changes)[r]) \in Written
  <2>1. CASE \A x \in changes : x.row # r
    BY <2>1, MergeGives DEF Copies
  <2>2. CASE \E x \in changes : x.row = r
    <3>1. PICK x \in changes : x.row = r /\ Merge(rows, changes)[r] = x.version
      BY <2>2, MergeGives
    <3>2. x \in Written /\ x = Change(r, x.version) /\ x.version \in Versions
      BY <3>1 DEF Written, Change
    <3> QED BY <3>1, <3>2
  <2> QED BY <2>1, <2>2
<1>2. DOMAIN Merge(rows, changes) = Rows
      /\ Merge(rows, changes) = [r \in Rows |-> Merge(rows, changes)[r]]
  BY DEF Merge
<1> HIDE DEF Merge
<1>3. Merge(rows, changes) \in [Rows -> Versions]
  BY <1>1, <1>2
<1> QED BY <1>1, <1>3 DEF Copies

LEMMA ShownTypes ==
  ASSUME NEW rows \in Copies
  PROVE  Shown(rows) \in Copies
  BY DEF Shown, Copies, Versions

\* Shown is what loads, and what lives is shown.
LEMMA ShownGives ==
  ASSUME NEW rows \in Copies, NEW r \in Rows
  PROVE  /\ Live(rows[r]) => Shown(rows)[r] = rows[r]
         /\ Shown(rows)[r] # None => Shown(rows)[r] = rows[r]
         /\ Shown(NoRows) = NoRows
  BY DEF Shown, NoRows

\* Time passes: what was written stays written.
LEMMA WrittenGrows ==
  ASSUME clock \in Nat, clock' \in Nat, clock <= clock',
         \A r \in Rows : table[r] # None => table'[r] # None
  PROVE  /\ Written \subseteq Written' /\ Copies \subseteq Copies'
         /\ Runs \subseteq Runs' /\ Replies \subseteq Replies'
<1>1. Written \subseteq Written'
  BY DEF Written, Versions
<1>2. Copies \subseteq Copies'
  BY <1>1 DEF Copies
<1>3. Runs \subseteq Runs'
  BY <1>1 DEF Runs
<1>4. Replies \subseteq Replies'
  BY <1>1 DEF Replies
<1> QED BY <1>1, <1>2, <1>3, <1>4

LEMMA WrittenStays ==
  ASSUME UNCHANGED <<table, clock>>
  PROVE  UNCHANGED <<Written, Copies, Runs, Replies>>
<1>1. Written' = Written
  BY DEF Written
<1> QED BY <1>1 DEF Copies, Runs, Replies

LEMMA RemoveAtIs ==
  ASSUME NEW S, NEW s \in Seq(S), NEW i \in 1..Len(s)
  PROVE  /\ RemoveAt(s, i) \in Seq(S) /\ Len(RemoveAt(s, i)) = Len(s) - 1
         /\ \A j \in 1..(Len(s) - 1) :
              RemoveAt(s, i)[j] = IF j < i THEN s[j] ELSE s[j + 1]
<1> DEFINE a == SubSeq(s, 1, i - 1)
           b == SubSeq(s, i + 1, Len(s))
<1>0. Len(s) \in Nat /\ i \in Int /\ \A j \in 1..Len(s) : s[j] \in S
  BY LenProperties, ElementOfSeq
<1>1. /\ a \in Seq(S) /\ Len(a) = i - 1
      /\ \A j \in 1..(i - 1) : a[j] = s[j]
  <2>1. \A j \in 1..(i - 1) : s[j] \in S
    BY <1>0
  <2>2. /\ a \in Seq(S) /\ Len(a) = IF 1 <= i - 1 THEN i - 1 - 1 + 1 ELSE 0
        /\ \A j \in 1..(i - 1 - 1 + 1) : a[j] = s[1 + j - 1]
    BY <1>0, <2>1, SubSeqProperties
  <2> HIDE DEF a
  <2> QED BY <1>0, <2>2
<1>2. /\ b \in Seq(S) /\ Len(b) = Len(s) - i
      /\ \A j \in 1..(Len(s) - i) : b[j] = s[i + j]
  <2>1. \A j \in (i + 1)..Len(s) : s[j] \in S
    BY <1>0
  <2>2. /\ b \in Seq(S) /\ Len(b) = IF i + 1 <= Len(s) THEN Len(s) - (i + 1) + 1 ELSE 0
        /\ \A j \in 1..(Len(s) - (i + 1) + 1) : b[j] = s[(i + 1) + j - 1]
    BY <1>0, <2>1, SubSeqProperties
  <2> HIDE DEF b
  <2> QED BY <1>0, <2>2
<1>3. RemoveAt(s, i) = a \o b
  BY DEF RemoveAt
<1> HIDE DEF a, b
<1>4. /\ a \o b \in Seq(S) /\ Len(a \o b) = Len(a) + Len(b)
      /\ \A j \in 1..(Len(a) + Len(b)) :
           (a \o b)[j] = IF j <= Len(a) THEN a[j] ELSE b[j - Len(a)]
  BY <1>1, <1>2, ConcatProperties
<1>5. Len(a) + Len(b) = Len(s) - 1
  BY <1>0, <1>1, <1>2
<1>6. ASSUME NEW j \in 1..(Len(s) - 1)
      PROVE  (a \o b)[j] = IF j < i THEN s[j] ELSE s[j + 1]
  <2>1. CASE j < i
    BY <1>0, <1>1, <1>4, <1>5, <2>1
  <2>2. CASE ~(j < i)
    <3>1. (a \o b)[j] = b[j - (i - 1)]
      BY <1>0, <1>1, <1>4, <1>5, <2>2
    <3>2. j - (i - 1) \in 1..(Len(s) - i) /\ i + (j - (i - 1)) = j + 1
      BY <1>0, <2>2
    <3> QED BY <1>2, <2>2, <3>1, <3>2
  <2> QED BY <2>1, <2>2
<1> QED BY <1>3, <1>4, <1>5, <1>6

LEMMA LostIs ==
  ASSUME running \in Seq(Runs), NEW d \in Clients, NEW why \in {"dropped", "reloaded"}
  PROVE  /\ Lost(d, why) \in Seq(Runs) /\ Len(Lost(d, why)) = Len(running)
         /\ \A i \in 1..Len(running) :
              /\ Lost(d, why)[i].change = running[i].change
              /\ Lost(d, why)[i].id = running[i].id
              /\ Lost(d, why)[i].client = running[i].client
              /\ running[i].client = d => Lost(d, why)[i].caller = why
              /\ running[i].client # d => Lost(d, why)[i].caller = running[i].caller
<1>1. /\ Len(running) \in Nat /\ DOMAIN running = 1..Len(running)
      /\ \A i \in 1..Len(running) : running[i] \in Runs
  BY LenProperties, ElementOfSeq
<1>2. ASSUME NEW i \in 1..Len(running)
      PROVE  /\ Lost(d, why)[i] = IF running[i].client = d
                                  THEN [running[i] EXCEPT !.caller = why] ELSE running[i]
             /\ [running[i] EXCEPT !.caller = why] \in Runs
             /\ running[i] \in Runs
  BY <1>1 DEF Lost, Runs
<1>3. Lost(d, why) \in [1..Len(running) -> Runs]
  <2>1. \A i \in 1..Len(running) : Lost(d, why)[i] \in Runs
    BY <1>2
  <2>2. Lost(d, why) = [i \in 1..Len(running) |-> Lost(d, why)[i]]
    BY <1>1 DEF Lost
  <2> HIDE DEF Lost
  <2> QED BY <2>1, <2>2
<1>4. Lost(d, why) \in Seq(Runs) /\ Len(Lost(d, why)) = Len(running)
  BY <1>1, <1>3
<1> QED BY <1>2, <1>4 DEF Runs

\* What a run that ends sends to a client.
LEMMA BroadcastIs ==
  ASSUME TypeOK, NEW k \in Runs, NEW c \in Clients
  PROVE  /\ Answer("success", k.id, {k.change}) \in Replies
         /\ Answer("update", 0, {k.change}) \in Replies
         /\ c = k.client /\ k.caller = "there" =>
              Broadcast(k)[c] = Append(toClient[c], Answer("success", k.id, {k.change}))
         /\ up[c] /\ (c = k.client => k.caller = "reloaded") =>
              Broadcast(k)[c] = Append(toClient[c], Answer("update", 0, {k.change}))
         /\ ~(c = k.client /\ k.caller = "there")
              /\ ~(up[c] /\ (c = k.client => k.caller = "reloaded")) =>
              Broadcast(k)[c] = toClient[c]
         /\ Broadcast(k)[c] \in Seq(Replies)
<1>1. /\ Answer("success", k.id, {k.change}) \in Replies
      /\ Answer("update", 0, {k.change}) \in Replies
  BY DEF Answer, Replies, Runs
<1>2. /\ c = k.client /\ k.caller = "there" =>
           Broadcast(k)[c] = Append(toClient[c], Answer("success", k.id, {k.change}))
      /\ up[c] /\ (c = k.client => k.caller = "reloaded") =>
           Broadcast(k)[c] = Append(toClient[c], Answer("update", 0, {k.change}))
      /\ ~(c = k.client /\ k.caller = "there")
           /\ ~(up[c] /\ (c = k.client => k.caller = "reloaded")) =>
           Broadcast(k)[c] = toClient[c]
  BY DEF Broadcast
<1>3. toClient[c] \in Seq(Replies)
  BY DEF TypeOK
<1>4. ASSUME NEW m \in Replies PROVE Append(toClient[c], m) \in Seq(Replies)
  BY <1>3, AppendProperties
<1>5. Broadcast(k)[c] \in Seq(Replies)
  <2>1. CASE c = k.client /\ k.caller = "there"
    BY <1>1, <1>2, <1>4, <2>1
  <2>2. CASE up[c] /\ (c = k.client => k.caller = "reloaded")
    BY <1>1, <1>2, <1>4, <2>2
  <2>3. CASE ~(c = k.client /\ k.caller = "there")
             /\ ~(up[c] /\ (c = k.client => k.caller = "reloaded"))
    BY <1>2, <1>3, <2>3
  <2> QED BY <2>1, <2>2, <2>3
<1> QED BY <1>1, <1>2, <1>5

\* A sync answer tells of the live rows that are newer, as they are.
LEMMA NewerIs ==
  ASSUME TypeOK, NEW from
  PROVE  /\ Answer("sync", 0, Newer(from)) \in Replies
         /\ \A x \in Newer(from) : x.version = table[x.row]
         /\ \A r \in Rows : Live(table[r]) /\ table[r].at > from =>
              Change(r, table[r]) \in Newer(from)
<1>1. \A x \in Newer(from) : x.version = table[x.row]
  BY DEF Newer, Change
<1>2. Newer(from) \subseteq Written
  BY DEF Newer, Live, None, TypeOK, Copies
<1>3. \A x, y \in Newer(from) : x.row = y.row => x = y
  BY DEF Newer, Change
<1> QED BY <1>1, <1>2, <1>3 DEF Newer, Answer, Replies

LEMMA InitTypes == Init => TypeOK
<1> SUFFICES ASSUME Init PROVE TypeOK
  OBVIOUS
<1>1. <<>> \in Seq(Runs) /\ <<>> \in Seq(Requests) /\ <<>> \in Seq(Replies)
  BY EmptySeq
<1>2. table \in Copies /\ NoRows \in Copies
  BY NoneTypes DEF Init
<1>3. \A c \in Clients : (IF c \in Agents THEN "idle" ELSE "loading") \in
        {"idle", "loading", "syncing", "synced"}
  OBVIOUS
<1>4. \A c \in Pages : c \in Clients /\ c \notin Agents
  BY SyncAssumption DEF Clients
<1>5. \A c \in Agents : c \in Clients
  BY DEF Clients
<1> QED BY <1>1, <1>2, <1>3, <1>4, <1>5 DEF Init, TypeOK

\* The first message of a channel, and the rest.
LEMMA TakenTypes ==
  ASSUME TypeOK, NEW c \in Clients
  PROVE  /\ toServer[c] # <<>> => /\ Head(toServer[c]) \in Requests
                                  /\ Tail(toServer[c]) \in Seq(Requests)
         /\ toClient[c] # <<>> => /\ Head(toClient[c]) \in Replies
                                  /\ Tail(toClient[c]) \in Seq(Replies)
                                  /\ Head(toClient[c]).changes \subseteq Written
<1>1. toServer[c] \in Seq(Requests) /\ toClient[c] \in Seq(Replies)
  BY DEF TypeOK
<1>2. \A m \in Replies : m.changes \subseteq Written
  BY DEF Replies
<1> QED BY <1>1, <1>2, HeadTailProperties

\* A message more on a channel.
LEMMA SentTypes ==
  ASSUME TypeOK, NEW c \in Clients
  PROVE  /\ \A m \in Requests : Send(toServer, c, m) \in [Clients -> Seq(Requests)]
         /\ \A m \in Replies : Send(toClient, c, m) \in [Clients -> Seq(Replies)]
<1>1. \A m \in Requests : Append(toServer[c], m) \in Seq(Requests)
  BY AppendProperties DEF TypeOK
<1>2. \A m \in Replies : Append(toClient[c], m) \in Seq(Replies)
  BY AppendProperties DEF TypeOK
<1> QED BY <1>1, <1>2 DEF Send, TypeOK

LEMMA HandlesTypes ==
  ASSUME TypeOK, NEW c \in Clients, Handles(c)
  PROVE  TypeOK'
<1>1. [toServer EXCEPT ![c] = Tail(@)] \in [Clients -> Seq(Requests)]
  BY TakenTypes DEF Handles, ServerSyncs, ServerActs, ServerRefuses, TypeOK
<1>2. CASE ServerSyncs(c)
  <2>1. UNCHANGED <<Written, Copies, Runs, Replies>>
    BY <1>2, WrittenStays DEF ServerSyncs, server
  <2>2. toClient' \in [Clients -> Seq(Replies)]
    BY <1>2, SentTypes, NewerIs DEF ServerSyncs
  <2> QED BY <1>1, <1>2, <2>1, <2>2 DEF ServerSyncs, server, replicas, TypeOK
<1>3. CASE ServerRefuses(c)
  <2>1. UNCHANGED <<Written, Copies, Runs, Replies>>
    BY <1>3, WrittenStays DEF ServerRefuses, server
  <2>2. Answer("error", Head(toServer[c]).id, {}) \in Replies
    BY <1>3, TakenTypes DEF ServerRefuses, Requests, Replies, Answer
  <2>3. toClient' \in [Clients -> Seq(Replies)]
    BY <1>3, <2>2, SentTypes DEF ServerRefuses
  <2> QED BY <1>1, <1>3, <2>1, <2>3 DEF ServerRefuses, server, replicas, TypeOK
<1>4. CASE ServerActs(c)
  <2> DEFINE m == Head(toServer[c])
             v == [at |-> clock', gone |-> m.gone, by |-> m.id]
             k == [client |-> c, id |-> m.id, caller |-> "there",
                   change |-> Change(m.row, v)]
  <2>1. /\ m.row \in Rows /\ m.id \in Nat /\ m.gone \in BOOLEAN
        /\ clock' \in {clock, clock + 1} \ {0} /\ table' = [table EXCEPT ![m.row] = v]
        /\ running' = Append(running, k)
        /\ clock \in Nat /\ clock' \in Nat \ {0} /\ clock <= clock'
    <3>1. m \in Requests /\ clock \in Nat /\ table \in [Rows -> Versions]
      BY <1>4, TakenTypes DEF ServerActs, TypeOK, Copies
    <3>2. m.row \in Rows /\ m.id \in Nat /\ m.gone \in BOOLEAN
      BY <1>4, <3>1 DEF ServerActs, Requests
    <3>3. /\ clock' \in {clock, clock + 1} \ {0} /\ table' = [table EXCEPT ![m.row] = v]
          /\ running' = Append(running, [client |-> c, id |-> m.id, caller |-> "there",
                                        change |-> Change(m.row, table'[m.row])])
      BY <1>4 DEF ServerActs
    <3>4. table'[m.row] = v
      BY <3>1, <3>2, <3>3
    <3> HIDE DEF m, v
    <3> QED BY <3>1, <3>2, <3>3, <3>4
  <2>2. v \in Versions \ {None}
    BY <2>1 DEF TypeOK, Versions, None
  <2>3. table \in [Rows -> Versions] /\ clock \in Nat
    BY DEF TypeOK, Copies
  <2>4. Written \subseteq Written' /\ Copies \subseteq Copies'
        /\ Runs \subseteq Runs' /\ Replies \subseteq Replies'
    BY <2>1, <2>2, <2>3, WrittenGrows
  <2>5. Change(m.row, v) \in Written'
    <3>1. table'[m.row] = v /\ v.at = clock'
      BY <2>1, <2>3
    <3> HIDE DEF m, v
    <3> QED BY <2>1, <2>2, <3>1 DEF Written, Change
  <2>6. table' \in Copies'
    <3>1. table' \in [Rows -> Versions]
      BY <2>1, <2>2, <2>3
    <3>2. ASSUME NEW r \in Rows, table'[r] # None
          PROVE  Change(r, table'[r]) \in Written'
      <4>1. CASE r = m.row
        BY <2>1, <2>3, <2>5, <4>1
      <4>2. CASE r # m.row
        <5>1. table'[r] = table[r]
          BY <2>1, <2>3, <4>2
        <5> QED BY <2>4, <3>2, <5>1 DEF TypeOK, Copies
      <4> QED BY <4>1, <4>2
    <3> QED BY <3>1, <3>2 DEF Copies
  <2>7. k \in Runs'
    BY <2>1, <2>5 DEF Runs
  <2> HIDE DEF k, v
  <2>8. running' \in Seq(Runs')
    <3>1. running \in Seq(Runs')
      BY <2>4, SeqMonotonic DEF TypeOK
    <3> QED BY <2>1, <2>7, <3>1, AppendProperties
  <2>9. toClient \in [Clients -> Seq(Replies')]
    BY <2>4, SeqMonotonic DEF TypeOK
  <2>10. UNCHANGED <<up, toClient, replicas, pending, called>>
         /\ whole' \in [Clients -> BOOLEAN]
         /\ toServer' = [toServer EXCEPT ![c] = Tail(@)]
    BY <1>4 DEF ServerActs, Skips, TypeOK
  <2> HIDE DEF m
  <2> QED BY <1>1, <2>1, <2>3, <2>4, <2>6, <2>8, <2>9, <2>10 DEF replicas, TypeOK
<1> QED BY <1>2, <1>3, <1>4 DEF Handles

LEMMA RunsEndTypes ==
  ASSUME TypeOK, NEW i \in DOMAIN running, ServerFinishes(i) \/ ServerAborts(i)
  PROVE  TypeOK'
<1>1. UNCHANGED <<Written, Copies, Runs, Replies>>
  BY WrittenStays DEF ServerFinishes, ServerAborts
<1>2. running \in Seq(Runs) /\ i \in 1..Len(running) /\ running[i] \in Runs
  BY LenProperties, ElementOfSeq DEF TypeOK
<1>3. RemoveAt(running, i) \in Seq(Runs)
  BY <1>2, RemoveAtIs
<1>4. whole \in [Clients -> BOOLEAN] /\ [c \in Clients |-> FALSE] \in [Clients -> BOOLEAN]
  BY DEF TypeOK
<1>5. CASE ServerFinishes(i)
  <2>1. \A c \in Clients : Broadcast(running[i])[c] \in Seq(Replies)
    BY <1>2, BroadcastIs
  <2>2. Broadcast(running[i]) = [c \in Clients |-> Broadcast(running[i])[c]]
    BY DEF Broadcast
  <2> HIDE DEF Broadcast
  <2>3. toClient' \in [Clients -> Seq(Replies)]
    BY <1>5, <2>1, <2>2 DEF ServerFinishes
  <2>4. whole' \in [Clients -> BOOLEAN]
    BY <1>4, <1>5 DEF ServerFinishes
  <2> QED BY <1>1, <1>3, <1>5, <2>3, <2>4 DEF ServerFinishes, replicas, TypeOK
<1>6. CASE ServerAborts(i)
  BY <1>1, <1>3, <1>4, <1>6 DEF ServerAborts, replicas, links, TypeOK
<1> QED BY <1>5, <1>6

LEMMA ReceivesTypes ==
  ASSUME TypeOK, NEW c \in Clients,
         \/ c \in Pages /\ PageReceives(c)
         \/ c \in Agents /\ AgentReceives(c)
  PROVE  TypeOK'
<1> DEFINE m == Head(toClient[c])
<1>1. \E types : Takes(c, types)
  BY DEF PageReceives, AgentReceives, PageIsSynced, PageFollows, PageIsAnswered,
         AgentIsSynced, AgentFollows, AgentIsAnswered
<1>2. /\ toClient[c] # <<>> /\ toClient' = [toClient EXCEPT ![c] = Tail(@)]
      /\ UNCHANGED <<server, up, toServer, loaded, called, whole>>
  BY <1>1 DEF Takes
<1>3. UNCHANGED <<Written, Copies, Runs, Replies>>
  BY <1>2, WrittenStays DEF server
<1>4. toClient' \in [Clients -> Seq(Replies)] /\ m.changes \subseteq Written
      /\ Settles(c, m) \subseteq Written
  BY <1>2, TakenTypes DEF Settles, TypeOK
<1>5. pending' \in [Clients -> SUBSET Nat]
  <2>1. UNCHANGED pending \/ pending' = [pending EXCEPT ![c] = @ \ {m.id}]
    BY DEF PageReceives, AgentReceives, PageIsSynced, PageFollows, PageIsAnswered,
           AgentIsSynced, AgentFollows, AgentIsAnswered, Answers
  <2> QED BY <2>1 DEF TypeOK
<1>6. /\ phase' \in [Clients -> {"idle", "loading", "syncing", "synced"}]
      /\ \A d \in Pages : phase'[d] # "idle"
      /\ \A d \in Agents : phase'[d] # "loading"
  <2>1. phase' = phase \/ phase' = [phase EXCEPT ![c] = "synced"]
    BY DEF PageReceives, AgentReceives, PageIsSynced, PageFollows, PageIsAnswered,
           AgentIsSynced, AgentFollows, AgentIsAnswered
  <2>2. Pages \subseteq Clients /\ Agents \subseteq Clients
    BY DEF Clients
  <2> QED BY <2>1, <2>2 DEF TypeOK
<1>7. value' \in [Clients -> Copies] /\ disk' \in [Pages -> Copies]
  <2>1. ASSUME c \in Pages, NEW changes, changes \subseteq Written,
               Shows(c, changes), Persists(c, changes)
        PROVE  value' \in [Clients -> Copies] /\ disk' \in [Pages -> Copies]
    <3>1. value[c] \in Copies /\ disk[c] \in Copies
      BY <2>1 DEF TypeOK
    <3>2. Shown(Merge(value[c], changes)) \in Copies /\ Merge(disk[c], changes) \in Copies
      BY <2>1, <3>1, MergeTypes, ShownTypes
    <3> QED BY <2>1, <3>2 DEF Shows, Persists, TypeOK
  <2>2. ASSUME PageReceives(c)
        PROVE  \E changes : changes \subseteq Written /\ Shows(c, changes) /\ Persists(c, changes)
    BY <1>4, <2>2 DEF PageReceives, PageIsSynced, PageFollows, PageIsAnswered
  <2>3. ASSUME AgentReceives(c)
        PROVE  /\ UNCHANGED disk
               /\ \/ value' = value
                  \/ \E rows, changes :
                       /\ rows \in Copies /\ changes \subseteq Written
                       /\ value' = [value EXCEPT ![c] = Merge(rows, changes)]
    <3>1. value[c] \in Copies /\ NoRows \in Copies
      BY NoneTypes DEF TypeOK
    <3> QED BY <1>4, <2>3, <3>1 DEF AgentReceives, AgentIsSynced, AgentFollows, AgentIsAnswered
  <2>4. ASSUME AgentReceives(c)
        PROVE  value' \in [Clients -> Copies] /\ disk' \in [Pages -> Copies]
    <3>1. CASE value' = value
      BY <2>3, <2>4, <3>1 DEF TypeOK
    <3>2. ASSUME NEW rows \in Copies, NEW changes, changes \subseteq Written,
                 value' = [value EXCEPT ![c] = Merge(rows, changes)]
          PROVE  value' \in [Clients -> Copies]
      BY <3>2, MergeTypes DEF TypeOK
    <3> QED BY <2>3, <2>4, <3>1, <3>2 DEF TypeOK
  <2> QED BY <2>1, <2>2, <2>4
<1> QED BY <1>2, <1>3, <1>4, <1>5, <1>6, <1>7 DEF server, TypeOK

LEMMA AsksTypes ==
  ASSUME TypeOK, NEW c \in Clients,
         \/ c \in Pages /\ Loads(c)
         \/ c \in Agents /\ AgentAsks(c)
         \/ \E r \in Rows, gone \in BOOLEAN : Calls(c, r, gone)
  PROVE  TypeOK'
<1>1. CASE c \in Pages /\ Loads(c)
  <2>1. UNCHANGED <<Written, Copies, Runs, Replies>>
    BY <1>1, WrittenStays DEF Loads, server
  <2>2. loaded[c] \in Copies /\ LastRecordTime(loaded[c]) \in Nat
    BY <1>1, LastRecordTimeIs DEF TypeOK
  <2>3. SyncRequest(LastRecordTime(loaded[c])) \in Requests
    BY <2>2 DEF SyncRequest, Requests
  <2>4. toServer' \in [Clients -> Seq(Requests)]
    BY <1>1, <2>3, SentTypes DEF Loads
  <2>5. value' \in [Clients -> Copies]
    <3>1. Shown(loaded[c]) \in Copies
      BY <2>2, ShownTypes
    <3>2. value' = [value EXCEPT ![c] = Shown(loaded[c])]
      BY <1>1 DEF Loads, Shown
    <3> QED BY <3>1, <3>2 DEF TypeOK
  <2>6. /\ phase' \in [Clients -> {"idle", "loading", "syncing", "synced"}]
        /\ \A d \in Pages : phase'[d] # "idle"
        /\ \A d \in Agents : phase'[d] # "loading"
    BY <1>1 DEF Loads, TypeOK, Clients
  <2> QED BY <1>1, <2>1, <2>4, <2>5, <2>6 DEF Loads, server, TypeOK
<1>2. CASE c \in Agents /\ AgentAsks(c)
  <2>1. UNCHANGED <<Written, Copies, Runs, Replies>>
    BY <1>2, WrittenStays DEF AgentAsks, server
  <2>2. SyncRequest(0) \in Requests
    BY DEF SyncRequest, Requests
  <2>3. toServer' \in [Clients -> Seq(Requests)]
    BY <1>2, <2>2, SentTypes DEF AgentAsks
  <2>4. /\ phase' \in [Clients -> {"idle", "loading", "syncing", "synced"}]
        /\ \A d \in Pages : phase'[d] # "idle"
        /\ \A d \in Agents : phase'[d] # "loading"
    BY <1>2 DEF AgentAsks, TypeOK, Clients
  <2> QED BY <1>2, <2>1, <2>3, <2>4 DEF AgentAsks, server, TypeOK
<1>3. ASSUME NEW r \in Rows, NEW gone \in BOOLEAN, Calls(c, r, gone)
      PROVE  TypeOK'
  <2>1. UNCHANGED <<Written, Copies, Runs, Replies>>
    BY <1>3, WrittenStays DEF Calls, server
  <2>2. called' \in Nat /\ Call(called', r, gone) \in Requests
    BY <1>3 DEF Calls, Call, Requests, TypeOK
  <2>3. toServer' \in [Clients -> Seq(Requests)]
    BY <1>3, <2>2, SentTypes DEF Calls
  <2>4. pending' \in [Clients -> SUBSET Nat]
    BY <1>3, <2>2 DEF Calls, TypeOK
  <2> QED BY <1>3, <2>1, <2>2, <2>3, <2>4 DEF Calls, server, replicas, TypeOK
<1> QED BY <1>1, <1>2, <1>3

LEMMA FaultsTypes ==
  ASSUME TypeOK, NEW c \in Clients,
         \/ \E id \in pending[c] : TimesOut(c, id)
         \/ Drops(c) \/ Opens(c) \/ Reloads(c)
  PROVE  TypeOK'
<1>0. UNCHANGED <<Written, Copies, Runs, Replies>>
  BY WrittenStays DEF TimesOut, Drops, Opens, Reloads, server
<1>1. <<>> \in Seq(Requests) /\ <<>> \in Seq(Replies)
  BY EmptySeq
<1>2. /\ Lost(c, "dropped") \in Seq(Runs) /\ Lost(c, "reloaded") \in Seq(Runs)
  BY LostIs DEF TypeOK
<1>3. whole' \in [Clients -> BOOLEAN]
  BY DEF TimesOut, Drops, Opens, Reloads, TypeOK
<1>4. ASSUME NEW id \in pending[c], TimesOut(c, id) PROVE TypeOK'
  BY <1>0, <1>3, <1>4 DEF TimesOut, server, links, replicas, TypeOK
<1>5. CASE Drops(c)
  BY <1>0, <1>1, <1>2, <1>3, <1>5 DEF Drops, replicas, TypeOK
<1>6. CASE Opens(c)
  BY <1>0, <1>3, <1>6 DEF Opens, server, replicas, TypeOK
<1>7. CASE Reloads(c)
  <2>1. c \in Pages /\ loaded' = [loaded EXCEPT ![c] = disk[c]]
        /\ value' = [value EXCEPT ![c] = NoRows] /\ pending' = [pending EXCEPT ![c] = {}]
        /\ phase' = [phase EXCEPT ![c] = "loading"]
    BY <1>7 DEF Reloads
  <2>2. loaded' \in [Pages -> Copies] /\ value' \in [Clients -> Copies]
    BY <2>1, NoneTypes DEF TypeOK
  <2>3. pending' \in [Clients -> SUBSET Nat]
    BY <2>1 DEF TypeOK
  <2>4. /\ phase' \in [Clients -> {"idle", "loading", "syncing", "synced"}]
        /\ \A d \in Pages : phase'[d] # "idle"
        /\ \A d \in Agents : phase'[d] # "loading"
    BY <2>1, SyncAssumption DEF TypeOK, Clients
  <2> QED BY <1>0, <1>1, <1>2, <1>3, <1>7, <2>2, <2>3, <2>4 DEF Reloads, TypeOK
<1> QED BY <1>4, <1>5, <1>6, <1>7

LEMMA TypeStep ==
  ASSUME TypeOK, [Next]_vars
  PROVE  TypeOK'
<1>1. ASSUME UNCHANGED vars PROVE TypeOK'
  <2>1. UNCHANGED <<Written, Copies, Runs, Replies>>
    BY <1>1, WrittenStays DEF vars, server
  <2> QED BY <1>1, <2>1 DEF vars, server, links, replicas, TypeOK
<1>2. Pages \subseteq Clients /\ Agents \subseteq Clients
  BY DEF Clients
<1> QED BY <1>1, <1>2, HandlesTypes, RunsEndTypes, ReceivesTypes, AsksTypes, FaultsTypes
        DEF Next

(* Every version a client holds, shows or is sent is of a row that was      *)
(* written, no message has two versions of a row, and every queue has its   *)
(* type.                                                                    *)
THEOREM TypeCorrect == Spec => []TypeOK
<1>1. Init => TypeOK
  BY InitTypes
<1>2. TypeOK /\ [Next]_vars => TypeOK'
  BY TypeStep
<1> QED BY <1>1, <1>2, PTL DEF Spec

-----------------------------------------------------------------------------
(* What is on its way to a client.                                          *)

InRunning(r) ==
  \E k \in 1..Len(running) : running[k].change = Change(r, table[r])

\* The present version of a row comes after message i of a channel.
Coming(c, i, r) ==
  \/ InRunning(r)
  \/ \E j \in (i + 1)..Len(toClient[c]) :
       Change(r, table[r]) \in toClient[c][j].changes

\* The last action that runs on a row is the one that wrote it last.
RunningEnds ==
  \A i \in 1..Len(running) :
    \/ running[i].change.version = table[running[i].change.row]
    \/ \E j \in (i + 1)..Len(running) :
         running[j].change =
           Change(running[i].change.row, table[running[i].change.row])

\* So has the last message about a row its present version, ...
LastWord(c) ==
  \A i \in 1..Len(toClient[c]) : \A x \in toClient[c][i].changes :
    x.version = table[x.row] \/ Coming(c, i, x.row)

\* ... and what a sync answer does not tell comes after it.
ToldAll(c) ==
  \A i \in 1..Len(toClient[c]) : toClient[c][i].type = "sync" =>
    \A r \in Rows : Live(table[r]) =>
      Change(r, table[r]) \in toClient[c][i].changes \/ Coming(c, i, r)

\* The live rows are held, will be sent or will be asked for.
Kept(c, held) ==
  \A r \in Rows : Live(table[r]) =>
    held[r] = table[r] \/ Coming(c, 0, r) \/ ToBeAsked(c, r)

\* Nothing is held that was replaced, unless the change is coming.
Replaced(c, held) ==
  \A r \in Rows : held[r] # None => held[r] = table[r] \/ Coming(c, 0, r)

\* A page shows what it keeps once it has shown what it loaded, an agent once
\* its sync was answered.
Showing(c) == IF c \in Pages THEN phase[c] # "loading" ELSE phase[c] = "synced"

Flow(c) ==
  /\ LastWord(c) /\ (c \in Agents => ToldAll(c))
  /\ up[c] =>
       /\ Showing(c) => Kept(c, value[c])
       /\ c \in Pages => Kept(c, disk[c])
       /\ Showing(c) /\ (c \in Pages => loaded[c] = NoRows) => Replaced(c, value[c])

LEMMA ComingIsOnItsWay ==
  ASSUME TypeOK, NEW c \in Clients, NEW r \in Rows
  PROVE  OnItsWay(c, r) <=> Coming(c, 0, r)
<1>1. DOMAIN running = 1..Len(running) /\ DOMAIN toClient[c] = 1..Len(toClient[c])
  BY LenProperties DEF TypeOK
<1> QED BY <1>1 DEF OnItsWay, Coming, InRunning

\* A step that only adds to the channel of a client keeps its flow.
LEMMA FlowGrows ==
  ASSUME TypeOK, TypeOK', NEW c \in Clients, Flow(c),
         up'[c] = up[c], phase'[c] = phase[c], value'[c] = value[c],
         c \in Pages => loaded'[c] = loaded[c] /\ disk'[c] = disk[c],
         \/ toClient'[c] = toClient[c]
         \/ \E m \in Replies' :
              /\ toClient'[c] = Append(toClient[c], m)
              /\ \A x \in m.changes : x.version = table'[x.row] \/ InRunning(x.row)'
              /\ m.type = "sync" /\ c \in Agents =>
                   \A r \in Rows : Live(table'[r]) => Change(r, table'[r]) \in m.changes,
         \A r \in Rows : table'[r] # table[r] => InRunning(r)',
         \A r \in Rows : \A i \in 0..Len(toClient[c]) :
           table'[r] = table[r] /\ Coming(c, i, r) => Coming(c, i, r)',
         \A r \in Rows :
           table'[r] = table[r] /\ Live(table[r]) /\ ToBeAsked(c, r) =>
             ToBeAsked(c, r)' \/ Coming(c, 0, r)'
  PROVE  Flow(c)'
<1>1. /\ toClient[c] \in Seq(Replies) /\ toClient'[c] \in Seq(Replies')
      /\ Len(toClient[c]) \in Nat /\ Len(toClient'[c]) \in Nat
      /\ \A i \in 1..Len(toClient[c]) : toClient[c][i] \in Replies
      /\ \A i \in 1..Len(toClient'[c]) : toClient'[c][i] \in Replies'
  BY LenProperties, ElementOfSeq DEF TypeOK
<1>2. \A m \in Replies' : \A x \in m.changes : x.row \in Rows
  BY DEF Replies, Written
<1>3. ASSUME NEW i \in 1..Len(toClient'[c])
      PROVE  \/ i \in 1..Len(toClient[c]) /\ toClient'[c][i] = toClient[c][i]
             \/ /\ \A x \in toClient'[c][i].changes :
                     x.version = table'[x.row] \/ InRunning(x.row)'
                /\ toClient'[c][i].type = "sync" /\ c \in Agents =>
                     \A r \in Rows : Live(table'[r]) =>
                       Change(r, table'[r]) \in toClient'[c][i].changes
  <2>1. CASE toClient'[c] = toClient[c]
    BY <2>1
  <2>2. ASSUME NEW m \in Replies', toClient'[c] = Append(toClient[c], m)
        PROVE  \/ i \in 1..Len(toClient[c]) /\ toClient'[c][i] = toClient[c][i]
               \/ toClient'[c][i] = m
    <3>1. /\ Len(Append(toClient[c], m)) = Len(toClient[c]) + 1
          /\ \A j \in 1..Len(toClient[c]) : Append(toClient[c], m)[j] = toClient[c][j]
          /\ Append(toClient[c], m)[Len(toClient[c]) + 1] = m
      BY <1>1
    <3> QED BY <1>1, <2>2, <3>1
  <2> QED BY <2>1, <2>2
<1>4. LastWord(c)'
  <2> SUFFICES ASSUME NEW i \in 1..Len(toClient'[c]), NEW x \in toClient'[c][i].changes,
                      x.version # table'[x.row], ~InRunning(x.row)'
               PROVE  Coming(c, i, x.row)'
    BY DEF LastWord, Coming
  <2>1. x.row \in Rows
    BY <1>1, <1>2
  <2>2. i \in 1..Len(toClient[c]) /\ toClient'[c][i] = toClient[c][i]
    BY <1>3
  <2>3. table'[x.row] = table[x.row]
    BY <2>1
  <2>4. Coming(c, i, x.row)
    BY <2>2, <2>3 DEF Flow, LastWord
  <2> QED BY <2>1, <2>2, <2>3, <2>4
<1>5. ASSUME c \in Agents
      PROVE  ToldAll(c)'
  <2> SUFFICES ASSUME NEW i \in 1..Len(toClient'[c]), toClient'[c][i].type = "sync",
                      NEW r \in Rows, Live(table'[r]), ~InRunning(r)',
                      Change(r, table'[r]) \notin toClient'[c][i].changes
               PROVE  Coming(c, i, r)'
    BY DEF ToldAll, Coming
  <2>1. i \in 1..Len(toClient[c]) /\ toClient'[c][i] = toClient[c][i]
    BY <1>3, <1>5
  <2>2. table'[r] = table[r]
    OBVIOUS
  <2>3. Coming(c, i, r)
    BY <1>5, <2>1, <2>2 DEF Flow, ToldAll
  <2> QED BY <2>1, <2>2, <2>3
<1>6. ASSUME NEW held, Kept(c, held)
      PROVE  Kept(c, held)'
  <2> SUFFICES ASSUME NEW r \in Rows, Live(table'[r]), held[r] # table'[r]
               PROVE  Coming(c, 0, r)' \/ ToBeAsked(c, r)'
    BY DEF Kept
  <2>1. CASE table'[r] # table[r]
    BY <2>1 DEF Coming
  <2>2. CASE table'[r] = table[r]
    <3>1. Coming(c, 0, r) \/ ToBeAsked(c, r)
      BY <1>6, <2>2 DEF Kept
    <3>2. 0 \in 0..Len(toClient[c])
      BY <1>1
    <3> QED BY <2>2, <3>1, <3>2
  <2> QED BY <2>1, <2>2
<1>7. ASSUME NEW held, Replaced(c, held)
      PROVE  Replaced(c, held)'
  <2> SUFFICES ASSUME NEW r \in Rows, held[r] # None, held[r] # table'[r]
               PROVE  Coming(c, 0, r)'
    BY DEF Replaced
  <2>1. CASE table'[r] # table[r]
    BY <2>1 DEF Coming
  <2>2. CASE table'[r] = table[r]
    <3>1. Coming(c, 0, r)
      BY <1>7, <2>2 DEF Replaced
    <3>2. 0 \in 0..Len(toClient[c])
      BY <1>1
    <3> QED BY <2>2, <3>1, <3>2
  <2> QED BY <2>1, <2>2
<1>8. Showing(c)' = Showing(c)
  BY DEF Showing
<1>9. ASSUME up[c], Showing(c)
      PROVE  /\ Kept(c, value[c])'
             /\ (c \in Pages => loaded[c] = NoRows) => Replaced(c, value[c])'
  <2>1. PICK held : held = value[c]
    OBVIOUS
  <2>2. Kept(c, held)' /\ ((c \in Pages => loaded[c] = NoRows) => Replaced(c, held)')
    BY <1>6, <1>7, <1>9, <2>1 DEF Flow
  <2>3. held = value'[c]
    BY <2>1
  <2> QED BY <2>2, <2>3 DEF Kept, Replaced
<1>10. ASSUME up[c], c \in Pages
       PROVE  Kept(c, disk[c])'
  <2>1. PICK held : held = disk[c]
    OBVIOUS
  <2>2. Kept(c, held)'
    BY <1>6, <1>10, <2>1 DEF Flow
  <2>3. held = disk'[c]
    BY <1>10, <2>1
  <2> QED BY <2>2, <2>3 DEF Kept
<1>11. c \in Pages => (loaded[c] = NoRows)' = (loaded[c] = NoRows)
  BY DEF NoRows
<1> QED BY <1>4, <1>5, <1>8, <1>9, <1>10, <1>11 DEF Flow

-----------------------------------------------------------------------------
(* What a step is to one client.                                            *)

LEMMA AppendIs ==
  ASSUME NEW S, NEW s \in Seq(S), NEW m \in S
  PROVE  /\ Len(s) \in Nat /\ Len(Append(s, m)) = Len(s) + 1
         /\ \A i \in 1..Len(s) : Append(s, m)[i] = s[i]
         /\ Append(s, m)[Len(s) + 1] = m
         /\ \A i \in 1..Len(Append(s, m)) :
              \/ i \in 1..Len(s) /\ Append(s, m)[i] = s[i]
              \/ i = Len(s) + 1 /\ Append(s, m)[i] = m
  OBVIOUS

LEMMA TailIs ==
  ASSUME NEW S, NEW s \in Seq(S), s # <<>>
  PROVE  /\ Len(s) \in Nat /\ Len(s) >= 1 /\ Len(Tail(s)) = Len(s) - 1
         /\ Head(s) = s[1] /\ s[1] \in S
         /\ \A i \in 1..Len(Tail(s)) : i + 1 \in 1..Len(s) /\ Tail(s)[i] = s[i + 1]
         /\ \A i \in 2..Len(s) : i - 1 \in 1..Len(Tail(s)) /\ Tail(s)[i - 1] = s[i]
<1>1. /\ Len(s) \in Nat /\ Len(s) >= 1 /\ Len(Tail(s)) = Len(s) - 1
      /\ Head(s) = s[1] /\ s[1] \in S
      /\ \A i \in 1..(Len(s) - 1) : Tail(s)[i] = s[i + 1]
  OBVIOUS
<1>2. ASSUME NEW i \in 2..Len(s)
      PROVE  i - 1 \in 1..(Len(s) - 1) /\ (i - 1) + 1 = i
  BY <1>1
<1>3. \A i \in 2..Len(s) : Tail(s)[i - 1] = s[(i - 1) + 1]
  BY <1>1, <1>2
<1> QED BY <1>1, <1>2, <1>3

\* Nothing of the client changes, nor the table, nor who waits for what runs.
Aside(c) ==
  /\ up'[c] = up[c] /\ phase'[c] = phase[c] /\ value'[c] = value[c]
  /\ c \in Pages => loaded'[c] = loaded[c] /\ disk'[c] = disk[c]
  /\ pending'[c] = pending[c] /\ called <= called'
  /\ toServer'[c] = toServer[c] /\ toClient'[c] = toClient[c]
  /\ table' = table /\ whole'[c] = whole[c]
  /\ Len(running') = Len(running)
  /\ \A i \in 1..Len(running) :
       /\ running'[i].change = running[i].change /\ running'[i].id = running[i].id
       /\ running'[i].client = running[i].client
       /\ running[i].client = c => running'[i].caller = running[i].caller

\* The handlers of the server that are not about one client alone.
ServerRuns ==
  \/ \E d \in Clients : ServerActs(d)
  \/ \E i \in 1..Len(running) : ServerFinishes(i) \/ ServerAborts(i)

Receives(c) ==
  \/ c \in Pages /\ PageReceives(c)
  \/ c \in Agents /\ AgentReceives(c)

\* What the client does or has done to it.
Own(c) ==
  \/ ServerSyncs(c) \/ ServerRefuses(c)
  \/ c \in Pages /\ Loads(c)
  \/ c \in Agents /\ AgentAsks(c)
  \/ Receives(c)
  \/ \E r \in Rows, gone \in BOOLEAN : Calls(c, r, gone)
  \/ \E id \in pending[c] : TimesOut(c, id)
  \/ Drops(c) \/ Opens(c) \/ Reloads(c)

LEMMA OthersStandAside ==
  ASSUME TypeOK, NEW c \in Clients, NEW d \in Clients, c # d, Own(d)
  PROVE  Aside(c)
<1>0. /\ running \in Seq(Runs) /\ called \in Nat
      /\ c \in Pages => c \in DOMAIN loaded /\ c \in DOMAIN disk
      /\ c \in DOMAIN up /\ c \in DOMAIN phase /\ c \in DOMAIN value
      /\ c \in DOMAIN pending /\ c \in DOMAIN toServer /\ c \in DOMAIN toClient
      /\ c \in DOMAIN whole
  BY DEF TypeOK
<1>1. CASE ServerSyncs(d)
  BY <1>0, <1>1 DEF ServerSyncs, Send, server, replicas, Aside
<1>2. CASE ServerRefuses(d)
  BY <1>0, <1>2 DEF ServerRefuses, Send, server, replicas, Aside
<1>3. CASE d \in Pages /\ Loads(d)
  BY <1>0, <1>3 DEF Loads, Send, server, Aside
<1>4. CASE d \in Agents /\ AgentAsks(d)
  BY <1>0, <1>4 DEF AgentAsks, Send, server, Aside
<1>5. CASE Receives(d)
  <2>1. \E types : Takes(d, types)
    BY <1>5 DEF Receives, PageReceives, AgentReceives, PageIsSynced, PageFollows,
           PageIsAnswered, AgentIsSynced, AgentFollows, AgentIsAnswered
  <2>2. /\ toClient'[c] = toClient[c]
        /\ UNCHANGED <<server, up, toServer, loaded, called, whole>>
    BY <1>0, <2>1 DEF Takes
  <2>3. pending'[c] = pending[c] /\ phase'[c] = phase[c]
    BY <1>0, <1>5 DEF Receives, PageReceives, AgentReceives, PageIsSynced, PageFollows,
           PageIsAnswered, AgentIsSynced, AgentFollows, AgentIsAnswered, Answers
  <2>4. value'[c] = value[c] /\ (c \in Pages => disk'[c] = disk[c])
    BY <1>0, <1>5 DEF Receives, PageReceives, AgentReceives, PageIsSynced, PageFollows,
           PageIsAnswered, AgentIsSynced, AgentFollows, AgentIsAnswered, Shows, Persists
  <2> QED BY <1>0, <2>2, <2>3, <2>4 DEF server, Aside
<1>6. CASE \E r \in Rows, gone \in BOOLEAN : Calls(d, r, gone)
  BY <1>0, <1>6 DEF Calls, Send, server, replicas, Aside
<1>7. CASE \E id \in pending[d] : TimesOut(d, id)
  BY <1>0, <1>7 DEF TimesOut, server, links, replicas, Aside
<1>8. CASE Drops(d)
  BY <1>0, <1>8, LostIs DEF Drops, replicas, Aside
<1>9. CASE Opens(d)
  BY <1>0, <1>9 DEF Opens, server, replicas, Aside
<1>10. CASE Reloads(d)
  BY <1>0, <1>10, LostIs DEF Reloads, Aside
<1> QED BY <1>1, <1>2, <1>3, <1>4, <1>5, <1>6, <1>7, <1>8, <1>9, <1>10 DEF Own

LEMMA StepIs ==
  ASSUME TypeOK, [Next]_vars, NEW c \in Clients
  PROVE  Aside(c) \/ ServerRuns \/ Own(c)
<1>1. CASE UNCHANGED vars
  BY <1>1 DEF vars, server, links, replicas, Aside, TypeOK
<1>2. CASE Next
  <2>1. DOMAIN running = 1..Len(running)
    BY LenProperties DEF TypeOK
  <2>2. Pages \subseteq Clients /\ Agents \subseteq Clients
    BY DEF Clients
  <2>3. ServerRuns \/ \E d \in Clients : Own(d)
    BY <1>2, <2>1, <2>2 DEF Next, Handles, ServerRuns, Own, Receives
  <2> QED BY <2>3, OthersStandAside
<1> QED BY <1>1, <1>2

\* What the client takes from a message, and what it becomes.
Taken(c) ==
  IF Head(toClient[c]).type \in {"success", "error"}
  THEN Settles(c, Head(toClient[c])) ELSE Head(toClient[c]).changes

LEMMA ReceivesIs ==
  ASSUME TypeOK, NEW c \in Clients, Receives(c)
  PROVE  /\ up[c] /\ toClient[c] # <<>>
         /\ UNCHANGED <<table, clock, running, up, toServer, loaded, called, whole>>
         /\ toClient'[c] = Tail(toClient[c])
         /\ Head(toClient[c]).type = "sync" => phase'[c] = "synced"
         /\ Head(toClient[c]).type # "sync" => phase'[c] = phase[c]
         /\ Head(toClient[c]).type \in {"success", "error"} =>
              pending'[c] = pending[c] \ {Head(toClient[c]).id}
         /\ Head(toClient[c]).type \notin {"success", "error"} =>
              pending'[c] = pending[c]
         /\ c \in Pages => /\ value'[c] = Shown(Merge(value[c], Taken(c)))
                           /\ disk'[c] = Merge(disk[c], Taken(c))
         /\ c \in Agents =>
              /\ Head(toClient[c]).type = "sync" => value'[c] = Merge(NoRows, Taken(c))
              /\ Head(toClient[c]).type # "sync" /\ phase[c] = "synced" =>
                   value'[c] = Merge(value[c], Taken(c))
              /\ Head(toClient[c]).type # "sync" /\ phase[c] # "synced" =>
                   value'[c] = value[c]
<1>0. /\ c \in Pages => c \in DOMAIN disk
      /\ c \in Agents => c \notin Pages
      /\ c \in DOMAIN phase /\ c \in DOMAIN value /\ c \in DOMAIN pending
      /\ c \in DOMAIN toClient
  BY SyncAssumption DEF TypeOK
<1>1. \E types : Takes(c, types)
  BY DEF Receives, PageReceives, AgentReceives, PageIsSynced, PageFollows,
         PageIsAnswered, AgentIsSynced, AgentFollows, AgentIsAnswered
<1>2. /\ up[c] /\ toClient[c] # <<>> /\ toClient'[c] = Tail(toClient[c])
      /\ UNCHANGED <<table, clock, running, up, toServer, loaded, called, whole>>
  BY <1>0, <1>1 DEF Takes, server
<1>3. CASE c \in Pages /\ PageReceives(c)
  <2>1. CASE PageIsSynced(c)
    BY <1>0, <1>2, <1>3, <2>1 DEF PageIsSynced, Takes, Shows, Persists, Taken
  <2>2. CASE PageFollows(c)
    BY <1>0, <1>2, <1>3, <2>2 DEF PageFollows, Takes, Shows, Persists, Taken
  <2>3. CASE PageIsAnswered(c)
    BY <1>0, <1>2, <1>3, <2>3 DEF PageIsAnswered, Takes, Shows, Persists, Taken, Answers
  <2> QED BY <1>3, <2>1, <2>2, <2>3 DEF PageReceives
<1>4. CASE c \in Agents /\ AgentReceives(c)
  <2>1. CASE AgentIsSynced(c)
    BY <1>0, <1>2, <1>4, <2>1 DEF AgentIsSynced, Takes, Taken
  <2>2. CASE AgentFollows(c)
    BY <1>0, <1>2, <1>4, <2>2 DEF AgentFollows, Takes, Taken
  <2>3. CASE AgentIsAnswered(c)
    BY <1>0, <1>2, <1>4, <2>3 DEF AgentIsAnswered, Takes, Taken, Answers
  <2> QED BY <1>4, <2>1, <2>2, <2>3 DEF AgentReceives
<1> QED BY <1>3, <1>4 DEF Receives

-----------------------------------------------------------------------------
(* A client asks once, from the newest row it loaded.                       *)

From(c) == IF c \in Pages THEN LastRecordTime(loaded[c]) ELSE 0

AsksOnce(c) ==
  /\ \A i \in 1..Len(toServer[c]) : toServer[c][i].type = "sync" =>
       /\ phase[c] = "syncing" /\ toServer[c][i].from = From(c)
       /\ \A j \in 1..Len(toServer[c]) : toServer[c][j].type = "sync" => i = j
       /\ \A j \in 1..Len(toClient[c]) : toClient[c][j].type # "sync"
  /\ \A i \in 1..Len(toClient[c]) : toClient[c][i].type = "sync" =>
       /\ phase[c] = "syncing"
       /\ \A j \in 1..Len(toClient[c]) : toClient[c][j].type = "sync" => i = j
  /\ c \in Agents /\ phase[c] # "synced" => value[c] = NoRows

\* Its request or the answer is on its way.
Awaiting(c) ==
  phase[c] = "syncing" =>
    \/ \E i \in 1..Len(toServer[c]) : toServer[c][i].type = "sync"
    \/ \E i \in 1..Len(toClient[c]) : toClient[c][i].type = "sync"

\* Channels that may lose a message at the front, or all, and get no request to
\* sync and no answer to one.
LEMMA AsksOnceStays ==
  ASSUME NEW c, AsksOnce(c),
         Len(toServer[c]) \in Nat, Len(toServer'[c]) \in Nat,
         Len(toClient[c]) \in Nat, Len(toClient'[c]) \in Nat,
         \/ \A i \in 1..Len(toServer'[c]) : toServer'[c][i].type = "sync" =>
              i \in 1..Len(toServer[c]) /\ toServer'[c][i] = toServer[c][i]
         \/ \A i \in 1..Len(toServer'[c]) : toServer'[c][i].type = "sync" =>
              i + 1 \in 1..Len(toServer[c]) /\ toServer'[c][i] = toServer[c][i + 1],
         \/ \A i \in 1..Len(toClient'[c]) : toClient'[c][i].type = "sync" =>
              i \in 1..Len(toClient[c]) /\ toClient'[c][i] = toClient[c][i]
         \/ \A i \in 1..Len(toClient'[c]) : toClient'[c][i].type = "sync" =>
              i + 1 \in 1..Len(toClient[c]) /\ toClient'[c][i] = toClient[c][i + 1],
         phase'[c] = phase[c],
         c \in Pages => loaded'[c] = loaded[c],
         c \in Agents => value'[c] = value[c] \/ phase[c] = "synced"
  PROVE  AsksOnce(c)'
<1>p. PICK p \in {0, 1} :
        \A i \in 1..Len(toServer'[c]) : toServer'[c][i].type = "sync" =>
          i + p \in 1..Len(toServer[c]) /\ toServer'[c][i] = toServer[c][i + p]
  OBVIOUS
<1>q. PICK q \in {0, 1} :
        \A i \in 1..Len(toClient'[c]) : toClient'[c][i].type = "sync" =>
          i + q \in 1..Len(toClient[c]) /\ toClient'[c][i] = toClient[c][i + q]
  OBVIOUS
<1>1. From(c)' = From(c)
  BY DEF From
<1>2. ASSUME NEW i \in 1..Len(toServer'[c]), toServer'[c][i].type = "sync"
      PROVE  /\ phase'[c] = "syncing" /\ toServer'[c][i].from = From(c)'
             /\ \A j \in 1..Len(toServer'[c]) : toServer'[c][j].type = "sync" => i = j
             /\ \A j \in 1..Len(toClient'[c]) : toClient'[c][j].type # "sync"
  <2>1. i + p \in 1..Len(toServer[c]) /\ toServer[c][i + p].type = "sync"
        /\ toServer'[c][i] = toServer[c][i + p]
    BY <1>p, <1>2
  <2>2. ASSUME NEW j \in 1..Len(toServer'[c]), toServer'[c][j].type = "sync"
        PROVE  i = j
    <3>1. j + p \in 1..Len(toServer[c]) /\ toServer[c][j + p].type = "sync"
      BY <1>p, <2>2
    <3>2. i + p = j + p
      BY <2>1, <3>1 DEF AsksOnce
    <3> QED BY <3>2
  <2>3. ASSUME NEW j \in 1..Len(toClient'[c]), toClient'[c][j].type = "sync"
        PROVE  FALSE
    BY <1>q, <2>1, <2>3 DEF AsksOnce
  <2> QED BY <1>1, <2>1, <2>2, <2>3 DEF AsksOnce
<1>3. ASSUME NEW i \in 1..Len(toClient'[c]), toClient'[c][i].type = "sync"
      PROVE  /\ phase'[c] = "syncing"
             /\ \A j \in 1..Len(toClient'[c]) : toClient'[c][j].type = "sync" => i = j
  <2>1. i + q \in 1..Len(toClient[c]) /\ toClient[c][i + q].type = "sync"
    BY <1>q, <1>3
  <2>2. ASSUME NEW j \in 1..Len(toClient'[c]), toClient'[c][j].type = "sync"
        PROVE  i = j
    <3>1. j + q \in 1..Len(toClient[c]) /\ toClient[c][j + q].type = "sync"
      BY <1>q, <2>2
    <3>2. i + q = j + q
      BY <2>1, <3>1 DEF AsksOnce
    <3> QED BY <3>2
  <2> QED BY <2>1, <2>2 DEF AsksOnce
<1>4. (c \in Agents /\ phase[c] # "synced" => value[c] = NoRows)'
  BY DEF AsksOnce, NoRows
<1> QED BY <1>2, <1>3, <1>4 DEF AsksOnce

LEMMA AsksOnceStep ==
  ASSUME TypeOK, TypeOK', NEW c \in Clients, AsksOnce(c),
         Aside(c) \/ ServerRuns \/ Own(c)
  PROVE  AsksOnce(c)'
<1>0. /\ toServer[c] \in Seq(Requests) /\ toClient[c] \in Seq(Replies)
      /\ Len(toServer[c]) \in Nat /\ Len(toServer'[c]) \in Nat
      /\ Len(toClient[c]) \in Nat /\ Len(toClient'[c]) \in Nat
      /\ c \in DOMAIN phase /\ c \in DOMAIN value
      /\ c \in DOMAIN toServer /\ c \in DOMAIN toClient
      /\ c \in Agents => c \notin Pages
  BY LenProperties, SyncAssumption DEF TypeOK
<1>1. CASE Aside(c)
  BY <1>0, <1>1, AsksOnceStays DEF Aside
<1>2. ASSUME NEW d \in Clients, ServerActs(d)
      PROVE  AsksOnce(c)'
  <2>1. /\ toServer[d] # <<>>
        /\ UNCHANGED <<toClient, phase, loaded, value>>
        /\ toServer' = [toServer EXCEPT ![d] = Tail(@)]
    BY <1>2 DEF ServerActs, replicas
  <2>2. CASE d = c
    <3>1. \A i \in 1..Len(toServer'[c]) :
            i + 1 \in 1..Len(toServer[c]) /\ toServer'[c][i] = toServer[c][i + 1]
      BY <1>0, <2>1, <2>2, TailIs
    <3> QED BY <1>0, <2>1, <3>1, AsksOnceStays
  <2>3. CASE d # c
    BY <1>0, <2>1, <2>3, AsksOnceStays
  <2> QED BY <2>2, <2>3
<1>3. ASSUME NEW k \in 1..Len(running), ServerFinishes(k) \/ ServerAborts(k)
      PROVE  AsksOnce(c)'
  <2>1. UNCHANGED <<toServer, phase, loaded, value>>
    BY <1>3 DEF ServerFinishes, ServerAborts, replicas, links
  <2>2. \A i \in 1..Len(toClient'[c]) : toClient'[c][i].type = "sync" =>
          i \in 1..Len(toClient[c]) /\ toClient'[c][i] = toClient[c][i]
    <3>1. running[k] \in Runs
      BY ElementOfSeq DEF TypeOK
    <3>2. \/ toClient'[c] = toClient[c]
          \/ \E m \in Replies : m.type # "sync" /\ toClient'[c] = Append(toClient[c], m)
      <4>1. CASE ServerAborts(k)
        BY <4>1 DEF ServerAborts, links
      <4>2. CASE ServerFinishes(k)
        <5>1. toClient'[c] = Broadcast(running[k])[c]
          BY <4>2 DEF ServerFinishes
        <5>2. /\ Answer("success", running[k].id, {running[k].change}).type # "sync"
              /\ Answer("update", 0, {running[k].change}).type # "sync"
          BY DEF Answer
        <5> QED BY <3>1, <5>1, <5>2, BroadcastIs
      <4> QED BY <1>3, <4>1, <4>2
    <3>3. ASSUME NEW m \in Replies, m.type # "sync", NEW i \in 1..Len(Append(toClient[c], m)),
                 Append(toClient[c], m)[i].type = "sync"
          PROVE  i \in 1..Len(toClient[c]) /\ Append(toClient[c], m)[i] = toClient[c][i]
      BY <1>0, <3>3, AppendIs
    <3> QED BY <3>2, <3>3
  <2> QED BY <1>0, <2>1, <2>2, AsksOnceStays
<1>4. CASE ServerSyncs(c)
  <2> DEFINE m == Answer("sync", 0, Newer(Head(toServer[c]).from))
  <2>1. /\ toServer[c] # <<>> /\ Head(toServer[c]).type = "sync"
        /\ toClient'[c] = Append(toClient[c], m) /\ toServer'[c] = Tail(toServer[c])
        /\ UNCHANGED <<phase, loaded, value>>
    BY <1>0, <1>4 DEF ServerSyncs, Send, replicas
  <2>2. m \in Replies /\ m.type = "sync"
    BY NewerIs DEF Answer
  <2> HIDE DEF m
  <2>3. /\ 1 \in 1..Len(toServer[c]) /\ toServer[c][1].type = "sync"
        /\ \A i \in 1..Len(toServer'[c]) :
             i + 1 \in 1..Len(toServer[c]) /\ toServer'[c][i] = toServer[c][i + 1]
    BY <1>0, <2>1, TailIs
  <2>4. /\ phase[c] = "syncing"
        /\ \A j \in 1..Len(toServer[c]) : toServer[c][j].type = "sync" => 1 = j
        /\ \A j \in 1..Len(toClient[c]) : toClient[c][j].type # "sync"
    BY <2>3 DEF AsksOnce
  <2>5. \A i \in 1..Len(toServer'[c]) : toServer'[c][i].type # "sync"
    <3> SUFFICES ASSUME NEW i \in 1..Len(toServer'[c]), toServer'[c][i].type = "sync"
                 PROVE  FALSE
      OBVIOUS
    <3>1. i + 1 \in 1..Len(toServer[c]) /\ toServer[c][i + 1].type = "sync"
      BY <2>3
    <3>2. 1 = i + 1
      BY <2>4, <3>1
    <3> QED BY <1>0, <3>2
  <2>6. \A i \in 1..Len(toClient'[c]) : toClient'[c][i].type = "sync" => i = Len(toClient[c]) + 1
    BY <1>0, <2>1, <2>2, <2>4, AppendIs
  <2>7. (c \in Agents /\ phase[c] # "synced" => value[c] = NoRows)'
    BY <2>1 DEF AsksOnce, NoRows
  <2> QED BY <2>1, <2>4, <2>5, <2>6, <2>7 DEF AsksOnce
<1>5. CASE ServerRefuses(c)
  <2> DEFINE m == Answer("error", Head(toServer[c]).id, {})
  <2>1. /\ toServer[c] # <<>> /\ Head(toServer[c]).type = "call"
        /\ toClient'[c] = Append(toClient[c], m) /\ toServer'[c] = Tail(toServer[c])
        /\ UNCHANGED <<phase, loaded, value>>
    BY <1>0, <1>5 DEF ServerRefuses, Send, replicas
  <2>2. m \in Replies /\ m.type # "sync"
    BY <2>1, TakenTypes DEF Requests, Replies, Answer
  <2> HIDE DEF m
  <2>3. \A i \in 1..Len(toServer'[c]) :
          i + 1 \in 1..Len(toServer[c]) /\ toServer'[c][i] = toServer[c][i + 1]
    BY <1>0, <2>1, TailIs
  <2>4. \A i \in 1..Len(toClient'[c]) : toClient'[c][i].type = "sync" =>
          i \in 1..Len(toClient[c]) /\ toClient'[c][i] = toClient[c][i]
    BY <1>0, <2>1, <2>2, AppendIs
  <2> QED BY <1>0, <2>1, <2>3, <2>4, AsksOnceStays
<1>6. ASSUME NEW m \in Requests, m.type = "sync", m.from = From(c)',
             phase[c] # "syncing", phase'[c] = "syncing",
             toServer'[c] = Append(toServer[c], m), toClient'[c] = toClient[c],
             c \in Agents => value'[c] = value[c] /\ phase[c] # "synced"
      PROVE  AsksOnce(c)'
  <2>1. \A i \in 1..Len(toServer'[c]) : toServer'[c][i].type = "sync" =>
          i = Len(toServer[c]) + 1 /\ toServer'[c][i] = m
    BY <1>0, <1>6, AppendIs DEF AsksOnce
  <2>2. \A i \in 1..Len(toClient'[c]) : toClient'[c][i].type # "sync"
    BY <1>6 DEF AsksOnce
  <2>3. (c \in Agents /\ phase[c] # "synced" => value[c] = NoRows)'
    BY <1>6 DEF AsksOnce, NoRows
  <2> QED BY <1>6, <2>1, <2>2, <2>3 DEF AsksOnce
<1>7. CASE c \in Pages /\ Loads(c)
  <2>1. LastRecordTime(loaded[c]) \in Nat
    BY <1>7, LastRecordTimeIs DEF TypeOK
  <2>2. /\ SyncRequest(LastRecordTime(loaded[c])) \in Requests
        /\ SyncRequest(LastRecordTime(loaded[c])).type = "sync"
        /\ SyncRequest(LastRecordTime(loaded[c])).from = From(c)'
    BY <1>7, <2>1 DEF SyncRequest, Requests, Loads, From
  <2>3. c \notin Agents
    BY <1>7, SyncAssumption
  <2>4. /\ phase[c] # "syncing" /\ phase'[c] = "syncing" /\ toClient'[c] = toClient[c]
        /\ toServer'[c] = Append(toServer[c], SyncRequest(LastRecordTime(loaded[c])))
    BY <1>0, <1>7 DEF Loads, Send
  <2> QED BY <1>6, <2>2, <2>3, <2>4
<1>8. CASE c \in Agents /\ AgentAsks(c)
  <2>2. /\ SyncRequest(0) \in Requests
        /\ SyncRequest(0).type = "sync" /\ SyncRequest(0).from = From(c)'
    BY <1>0, <1>8 DEF SyncRequest, Requests, From
  <2>4. /\ phase[c] # "syncing" /\ phase'[c] = "syncing" /\ toClient'[c] = toClient[c]
        /\ toServer'[c] = Append(toServer[c], SyncRequest(0))
        /\ value'[c] = value[c] /\ phase[c] # "synced"
    BY <1>0, <1>8 DEF AgentAsks, Send
  <2> QED BY <1>6, <2>2, <2>4
<1>9. CASE Receives(c)
  <2>1. /\ toClient[c] # <<>> /\ UNCHANGED <<toServer, loaded>>
        /\ toClient'[c] = Tail(toClient[c])
    BY <1>9, ReceivesIs
  <2>2. /\ 1 \in 1..Len(toClient[c]) /\ Head(toClient[c]) = toClient[c][1]
        /\ \A i \in 1..Len(toClient'[c]) :
             i + 1 \in 1..Len(toClient[c]) /\ toClient'[c][i] = toClient[c][i + 1]
    BY <1>0, <2>1, TailIs
  <2>3. CASE Head(toClient[c]).type = "sync"
    <3>1. \A i \in 1..Len(toServer[c]) : toServer[c][i].type # "sync"
      BY <2>2, <2>3 DEF AsksOnce
    <3>2. \A i \in 1..Len(toClient'[c]) : toClient'[c][i].type # "sync"
      <4> SUFFICES ASSUME NEW i \in 1..Len(toClient'[c]), toClient'[c][i].type = "sync"
                   PROVE  FALSE
        OBVIOUS
      <4>1. i + 1 \in 1..Len(toClient[c]) /\ toClient[c][i + 1].type = "sync"
        BY <2>2
      <4>2. 1 = i + 1
        BY <2>2, <2>3, <4>1 DEF AsksOnce
      <4> QED BY <1>0, <4>2
    <3>3. phase'[c] = "synced"
      BY <1>9, <2>3, ReceivesIs
    <3> QED BY <2>1, <3>1, <3>2, <3>3 DEF AsksOnce
  <2>4. CASE Head(toClient[c]).type # "sync"
    <3>1. phase'[c] = phase[c] /\ (c \in Agents => value'[c] = value[c] \/ phase[c] = "synced")
      BY <1>9, <2>4, ReceivesIs
    <3>2. \A i \in 1..Len(toServer'[c]) :
            i \in 1..Len(toServer[c]) /\ toServer'[c][i] = toServer[c][i]
      BY <1>0, <2>1
    <3> QED BY <1>0, <2>1, <2>2, <3>1, <3>2, AsksOnceStays
  <2> QED BY <2>3, <2>4
<1>10. ASSUME NEW r \in Rows, NEW gone \in BOOLEAN, Calls(c, r, gone)
       PROVE  AsksOnce(c)'
  <2>1. /\ toServer'[c] = Append(toServer[c], Call(called', r, gone))
        /\ UNCHANGED <<toClient, phase, loaded, value>>
    BY <1>0, <1>10 DEF Calls, Send, replicas
  <2>2. Call(called', r, gone) \in Requests /\ Call(called', r, gone).type # "sync"
    BY DEF Call, Requests, TypeOK
  <2>3. \A i \in 1..Len(toServer'[c]) : toServer'[c][i].type = "sync" =>
          i \in 1..Len(toServer[c]) /\ toServer'[c][i] = toServer[c][i]
    BY <1>0, <2>1, <2>2, AppendIs
  <2> QED BY <1>0, <2>1, <2>3, AsksOnceStays
<1>11. CASE (\E id \in pending[c] : TimesOut(c, id)) \/ Opens(c)
  <2>1. UNCHANGED <<toServer, toClient, phase, loaded, value>>
    BY <1>11 DEF TimesOut, Opens, links, replicas
  <2> QED BY <1>0, <2>1, AsksOnceStays
<1>12. CASE Drops(c)
  <2>1. /\ toServer'[c] = <<>> /\ toClient'[c] = <<>>
        /\ UNCHANGED <<phase, loaded, value>>
    BY <1>0, <1>12 DEF Drops, replicas
  <2> QED BY <1>0, <2>1, AsksOnceStays
<1>13. CASE Reloads(c)
  <2>1. /\ toServer'[c] = <<>> /\ toClient'[c] = <<>> /\ value'[c] = NoRows
    BY <1>0, <1>13 DEF Reloads
  <2> QED BY <2>1 DEF AsksOnce, NoRows
<1> QED BY <1>1, <1>2, <1>3, <1>4, <1>5, <1>7, <1>8, <1>9, <1>10, <1>11, <1>12, <1>13
        DEF ServerRuns, Own

-----------------------------------------------------------------------------
(* What runs, and whom it is for.                                           *)

\* Runs end in the order they wrote, and none is lost, as long as some client
\* has lost nothing.
LEMMA RunsEndInOrder ==
  ASSUME TypeOK, TypeOK', NEW c \in Clients, whole'[c],
         NEW i \in 1..Len(running), ServerFinishes(i) \/ ServerAborts(i)
  PROVE  i = 1 /\ ServerFinishes(1) /\ whole' = whole
  BY DEF ServerFinishes, ServerAborts

\* What runs after the first action, and what has run before.
LEMMA FirstEnds ==
  ASSUME TypeOK, 1 \in 1..Len(running), running' = RemoveAt(running, 1)
  PROVE  /\ Len(running) \in Nat /\ Len(running') = Len(running) - 1
         /\ \A j \in 1..Len(running') :
              j + 1 \in 1..Len(running) /\ running'[j] = running[j + 1]
<1>1. /\ Len(running') = Len(running) - 1 /\ Len(running) \in Nat
      /\ \A j \in 1..(Len(running) - 1) :
           running'[j] = IF j < 1 THEN running[j] ELSE running[j + 1]
  BY RemoveAtIs, LenProperties DEF TypeOK
<1> QED BY <1>1

\* An action that runs is appended to those that do.
LEMMA ActIs ==
  ASSUME TypeOK, TypeOK', NEW d \in Clients, ServerActs(d)
  PROVE  \E m \in Requests, k \in Runs' :
           /\ up[d] /\ toServer[d] # <<>> /\ m = Head(toServer[d])
           /\ m.type = "call" /\ m.row \in Rows
           /\ m.id \in Nat
           /\ k.client = d /\ k.id = m.id /\ k.caller = "there" /\ k.change.row = m.row
           /\ k.change = Change(m.row, table'[m.row])
           /\ table'[m.row].at \in Nat /\ clock <= table'[m.row].at
           /\ \A c \in Clients : whole'[c] => whole[c] /\ ~Skips(c, table'[m.row].at)
           /\ \A r \in Rows : r # m.row => table'[r] = table[r]
           /\ running' = Append(running, k) /\ running \in Seq(Runs')
           /\ Len(running') = Len(running) + 1
           /\ \A i \in 1..Len(running) : running'[i] = running[i]
           /\ running'[Len(running) + 1] = k
           /\ toServer' = [toServer EXCEPT ![d] = Tail(@)]
           /\ UNCHANGED <<up, toClient, phase, loaded, value, disk, pending, called>>
<1> DEFINE m == Head(toServer[d])
           v == [at |-> clock', gone |-> m.gone, by |-> m.id]
           k == [client |-> d, id |-> m.id, caller |-> "there", change |-> Change(m.row, v)]
<1>1. /\ up[d] /\ toServer[d] # <<>> /\ m.type = "call"
      /\ running' = Append(running, [client |-> d, id |-> m.id, caller |-> "there",
                                    change |-> Change(m.row, table'[m.row])])
      /\ table' = [table EXCEPT ![m.row] = v] /\ clock' \in {clock, clock + 1}
      /\ toServer' = [toServer EXCEPT ![d] = Tail(@)]
      /\ \A c \in Clients : whole'[c] => whole[c] /\ ~Skips(c, clock')
      /\ UNCHANGED <<up, toClient, phase, loaded, value, disk, pending, called>>
  BY DEF ServerActs, replicas
<1>2. m \in Requests /\ m.row \in Rows /\ m.id \in Nat
  BY <1>1, TakenTypes DEF Requests
<1>3. table'[m.row] = v /\ \A r \in Rows : r # m.row => table'[r] = table[r]
  BY <1>1, <1>2 DEF TypeOK, Copies
<1>4. /\ k.client = d /\ k.id = m.id /\ k.caller = "there" /\ k.change.row = m.row
      /\ k.change = Change(m.row, v) /\ v.at = clock' /\ running' = Append(running, k)
  BY <1>1, <1>3 DEF Change
<1>9. clock' \in Nat /\ clock <= clock'
  BY <1>1 DEF TypeOK
<1>5. running \in Seq(Runs) /\ Len(running) \in Nat
  BY LenProperties DEF TypeOK
<1> HIDE DEF m, v, k
<1>6. /\ Len(running') = Len(running) + 1
      /\ \A i \in 1..Len(running) : running'[i] = running[i]
      /\ running'[Len(running) + 1] = k
  BY <1>4, <1>5
<1>10. /\ table'[m.row].at \in Nat /\ clock <= table'[m.row].at
       /\ k.change = Change(m.row, table'[m.row])
       /\ \A c \in Clients : whole'[c] => whole[c] /\ ~Skips(c, table'[m.row].at)
  <2>1. table'[m.row].at = clock' /\ table'[m.row] = v
    BY <1>3, <1>4
  <2> QED BY <1>1, <1>4, <1>9, <2>1
<1>7. k \in Runs' /\ \A i \in 1..Len(running) : running[i] \in Runs'
  <2>1. \A i \in 1..Len(running') : running'[i] \in Runs'
    BY ElementOfSeq DEF TypeOK
  <2> QED BY <1>5, <1>6, <2>1
<1>8. running \in Seq(Runs')
  BY <1>5, <1>7, SeqDef
<1> QED BY <1>1, <1>2, <1>3, <1>4, <1>6, <1>7, <1>8, <1>10 DEF m

LEMMA RunningEndsStep ==
  ASSUME TypeOK, TypeOK', NEW c \in Clients, whole'[c], RunningEnds,
         Aside(c) \/ ServerRuns \/ Own(c)
  PROVE  RunningEnds'
<1>0. Len(running) \in Nat /\ Len(running') \in Nat
      /\ \A i \in 1..Len(running) : running[i].change.row \in Rows
  <2>1. /\ Len(running) \in Nat /\ Len(running') \in Nat
        /\ \A i \in 1..Len(running) : running[i] \in Runs
    BY LenProperties, ElementOfSeq DEF TypeOK
  <2>2. \A k \in Runs : k.change.row \in Rows
    BY DEF Runs, Written
  <2> QED BY <2>1, <2>2
<1>1. CASE /\ table' = table /\ Len(running') = Len(running)
           /\ \A i \in 1..Len(running) : running'[i].change = running[i].change
  BY <1>1 DEF RunningEnds
<1>2. ASSUME NEW d \in Clients, ServerActs(d)
      PROVE  RunningEnds'
  <2>1. PICK row \in Rows, k \in Runs' :
          /\ k.change = Change(row, table'[row])
          /\ \A r \in Rows : r # row => table'[r] = table[r]
          /\ Len(running') = Len(running) + 1
          /\ \A i \in 1..Len(running) : running'[i] = running[i]
          /\ running'[Len(running) + 1] = k
    BY <1>2, ActIs
  <2> SUFFICES ASSUME NEW i \in 1..Len(running'),
                      running'[i].change.version # table'[running'[i].change.row]
               PROVE  \E j \in (i + 1)..Len(running') :
                        running'[j].change =
                          Change(running'[i].change.row, table'[running'[i].change.row])
    BY DEF RunningEnds
  <2>2. i \in 1..Len(running)
    BY <1>0, <2>1 DEF Change
  <2>3. running'[i] = running[i] /\ running[i].change.row \in Rows
    BY <1>0, <2>1, <2>2
  <2>4. CASE running[i].change.row = row
    <3>1. Len(running) + 1 \in (i + 1)..Len(running')
      BY <1>0, <2>1, <2>2
    <3> QED BY <2>1, <2>3, <2>4, <3>1
  <2>5. CASE running[i].change.row # row
    <3>1. table'[running[i].change.row] = table[running[i].change.row]
      BY <2>1, <2>3, <2>5
    <3>2. PICK j \in (i + 1)..Len(running) :
            running[j].change =
              Change(running[i].change.row, table[running[i].change.row])
      BY <2>2, <2>3, <3>1 DEF RunningEnds
    <3>3. j \in 1..Len(running) /\ j \in (i + 1)..Len(running')
      BY <1>0, <2>1, <2>2
    <3>4. running'[j] = running[j]
      BY <2>1, <3>3
    <3> QED BY <2>3, <3>1, <3>2, <3>3, <3>4
  <2> QED BY <2>4, <2>5
<1>3. ASSUME NEW k \in 1..Len(running), ServerFinishes(k) \/ ServerAborts(k)
      PROVE  RunningEnds'
  <2>1. k = 1 /\ ServerFinishes(1)
    BY <1>3, RunsEndInOrder
  <2>2. /\ table' = table /\ Len(running') = Len(running) - 1
        /\ \A j \in 1..Len(running') :
             j + 1 \in 1..Len(running) /\ running'[j] = running[j + 1]
    BY <2>1, FirstEnds DEF ServerFinishes
  <2> SUFFICES ASSUME NEW i \in 1..Len(running'),
                      running'[i].change.version # table'[running'[i].change.row]
               PROVE  \E j \in (i + 1)..Len(running') :
                        running'[j].change =
                          Change(running'[i].change.row, table'[running'[i].change.row])
    BY DEF RunningEnds
  <2>3. i + 1 \in 1..Len(running) /\ running'[i] = running[i + 1]
    BY <2>2
  <2>4. PICK j \in ((i + 1) + 1)..Len(running) :
          running[j].change =
            Change(running[i + 1].change.row, table[running[i + 1].change.row])
    BY <2>2, <2>3 DEF RunningEnds
  <2>5. j - 1 \in (i + 1)..Len(running') /\ j - 1 \in 1..Len(running') /\ (j - 1) + 1 = j
    BY <1>0, <2>2
  <2>6. running'[j - 1] = running[j]
    BY <2>2, <2>5
  <2> QED BY <2>2, <2>3, <2>4, <2>5, <2>6
<1>4. CASE Own(c)
  <2>1. /\ table' = table
        /\ \/ running' = running
           \/ running' = Lost(c, "dropped") \/ running' = Lost(c, "reloaded")
    <3>1. CASE Receives(c)
      BY <3>1, ReceivesIs
    <3>2. CASE ~Receives(c)
      BY <1>4, <3>2 DEF Own, ServerSyncs, ServerRefuses, Loads, AgentAsks, Calls, TimesOut,
             Drops, Opens, Reloads, server
    <3> QED BY <3>1, <3>2
  <2>2. /\ Len(running') = Len(running)
        /\ \A i \in 1..Len(running) : running'[i].change = running[i].change
    BY <2>1, LostIs DEF TypeOK
  <2> QED BY <1>1, <2>1, <2>2
<1>5. CASE Aside(c)
  BY <1>1, <1>5 DEF Aside
<1> QED BY <1>2, <1>3, <1>4, <1>5 DEF ServerRuns

\* Who waits for what runs is connected, or has been loaded again.
Callers(c) ==
  \A i \in 1..Len(running) : running[i].client = c =>
    running[i].caller # "dropped" /\ (running[i].caller = "there" => up[c])

\* What a step leaves of the queue of a client, unless it is the client's own.
LEMMA FinishIs ==
  ASSUME TypeOK, TypeOK', NEW c \in Clients, Callers(c), ServerFinishes(1),
         1 \in 1..Len(running)
  PROVE  /\ UNCHANGED <<table, clock, up, toServer, phase, loaded, value, disk, pending,
                        called>>
         /\ running[1] \in Runs
         /\ up[c] => \E m \in Replies :
              /\ toClient'[c] = Append(toClient[c], m) /\ m.changes = {running[1].change}
              /\ \/ running[1].client = c /\ running[1].caller = "there"
                    /\ m.type = "success" /\ m.id = running[1].id
                 \/ m.type = "update"
         /\ ~up[c] => toClient'[c] = toClient[c]
<1>1. running[1] \in Runs
  BY ElementOfSeq DEF TypeOK
<1>2. toClient'[c] = Broadcast(running[1])[c]
  BY DEF ServerFinishes
<1>3. running[1].client = c => running[1].caller \in {"there", "reloaded"}
  BY <1>1 DEF Callers, Runs
<1>4. /\ Answer("success", running[1].id, {running[1].change}).type = "success"
      /\ Answer("success", running[1].id, {running[1].change}).id = running[1].id
      /\ Answer("success", running[1].id, {running[1].change}).changes = {running[1].change}
      /\ Answer("update", 0, {running[1].change}).type = "update"
      /\ Answer("update", 0, {running[1].change}).changes = {running[1].change}
  BY DEF Answer
<1>5. CASE c = running[1].client /\ running[1].caller = "there"
  BY <1>1, <1>2, <1>4, <1>5, BroadcastIs DEF Callers, ServerFinishes, replicas
<1>6. CASE up[c] /\ (c = running[1].client => running[1].caller = "reloaded")
  BY <1>1, <1>2, <1>4, <1>6, BroadcastIs DEF ServerFinishes, replicas
<1>7. CASE ~up[c] /\ (c = running[1].client => running[1].caller = "reloaded")
  BY <1>1, <1>2, <1>7, BroadcastIs DEF ServerFinishes, replicas
<1> QED BY <1>3, <1>5, <1>6, <1>7

LEMMA CallersStep ==
  ASSUME TypeOK, TypeOK', NEW c \in Clients, whole'[c], Callers(c),
         Aside(c) \/ ServerRuns \/ Own(c)
  PROVE  Callers(c)'
<1>0. Len(running) \in Nat /\ Len(running') \in Nat
      /\ c \in DOMAIN up /\ c \in DOMAIN whole
  BY LenProperties DEF TypeOK
<1>1. CASE Aside(c)
  BY <1>1 DEF Aside, Callers
<1>2. ASSUME NEW d \in Clients, ServerActs(d)
      PROVE  Callers(c)'
  <2>1. PICK k \in Runs' :
          /\ k.client = d /\ k.caller = "there" /\ up[d] /\ up' = up
          /\ Len(running') = Len(running) + 1
          /\ \A i \in 1..Len(running) : running'[i] = running[i]
          /\ running'[Len(running) + 1] = k
    BY <1>2, ActIs
  <2>2. ASSUME NEW i \in 1..Len(running')
        PROVE  i \in 1..Len(running) \/ i = Len(running) + 1
    BY <1>0, <2>1
  <2> QED BY <2>1, <2>2 DEF Callers
<1>3. ASSUME NEW k \in 1..Len(running), ServerFinishes(k) \/ ServerAborts(k)
      PROVE  Callers(c)'
  <2>1. k = 1 /\ ServerFinishes(1)
    BY <1>3, RunsEndInOrder
  <2>2. /\ up' = up
        /\ \A j \in 1..Len(running') :
             j + 1 \in 1..Len(running) /\ running'[j] = running[j + 1]
    BY <2>1, FirstEnds DEF ServerFinishes
  <2> QED BY <2>2 DEF Callers
<1>4. CASE Own(c)
  <2>1. CASE running' = running /\ (up' = up \/ up'[c])
    BY <2>1 DEF Callers
  <2>2. CASE Reloads(c)
    <3>1. running' = Lost(c, "reloaded") /\ running \in Seq(Runs)
      BY <2>2 DEF Reloads, TypeOK
    <3>2. /\ Len(running') = Len(running)
          /\ \A i \in 1..Len(running) :
               /\ running'[i].client = running[i].client
               /\ running[i].client = c => running'[i].caller = "reloaded"
      BY <3>1, LostIs
    <3> QED BY <3>2 DEF Callers
  <2>3. CASE Drops(c)
    BY <1>0, <2>3 DEF Drops
  <2>4. CASE Receives(c)
    BY <2>1, <2>4, ReceivesIs
  <2>5. CASE ~Reloads(c) /\ ~Drops(c) /\ ~Receives(c)
    <3>1. running' = running /\ (up' = up \/ up'[c])
      BY <1>0, <1>4, <2>5 DEF Own, ServerSyncs, ServerRefuses, Loads, AgentAsks, Calls,
             TimesOut, Opens, server, links
    <3> QED BY <2>1, <3>1
  <2> QED BY <2>2, <2>3, <2>4, <2>5
<1> QED BY <1>1, <1>2, <1>3, <1>4 DEF ServerRuns

-----------------------------------------------------------------------------
(* What a page loaded, and what it shows before its socket opens.           *)

\* What it did not load is newer than all it did, until it has asked.
Base(c) ==
  c \in Pages /\ (phase[c] = "loading" \/ ~up[c]) => \A r \in Rows : Live(table[r]) =>
    loaded[c][r] = table[r] \/ LastRecordTime(loaded[c]) < table[r].at

Down(c) ==
  ~up[c] =>
    /\ c \in Pages /\ toClient[c] = <<>> /\ phase[c] \in {"loading", "syncing"}
    /\ disk[c] = loaded[c]
    /\ phase[c] = "syncing" => value[c] = Shown(loaded[c])

LEMMA DownStep ==
  ASSUME TypeOK, TypeOK', NEW c \in Clients, whole'[c], Callers(c), Down(c),
         Aside(c) \/ ServerRuns \/ Own(c)
  PROVE  Down(c)'
<1>0. /\ c \in DOMAIN up /\ c \in DOMAIN phase /\ c \in DOMAIN value
      /\ c \in DOMAIN toClient /\ c \in DOMAIN whole
      /\ c \in Pages => c \in DOMAIN loaded /\ c \in DOMAIN disk
  BY DEF TypeOK
<1> SUFFICES ASSUME ~up'[c]
             PROVE  /\ c \in Pages /\ toClient'[c] = <<>>
                    /\ phase'[c] \in {"loading", "syncing"}
                    /\ disk'[c] = loaded'[c]
                    /\ phase'[c] = "syncing" => value'[c] = Shown(loaded[c])'
  BY DEF Down
<1>1. ASSUME up'[c] = up[c], toClient'[c] = toClient[c], phase'[c] = phase[c],
             c \in Pages => loaded'[c] = loaded[c] /\ disk'[c] = disk[c],
             value'[c] = value[c]
      PROVE  /\ c \in Pages /\ toClient'[c] = <<>>
             /\ phase'[c] \in {"loading", "syncing"}
             /\ disk'[c] = loaded'[c]
             /\ phase'[c] = "syncing" => value'[c] = Shown(loaded[c])'
  BY <1>1 DEF Down, Shown
<1>2. CASE Aside(c)
  BY <1>1, <1>2 DEF Aside
<1>3. ASSUME NEW d \in Clients, ServerActs(d)
      PROVE  UNCHANGED <<up, toClient, phase, loaded, disk, value>>
  BY <1>3 DEF ServerActs, replicas
<1>4. ASSUME NEW k \in 1..Len(running), ServerFinishes(k) \/ ServerAborts(k)
      PROVE  /\ UNCHANGED <<up, phase, loaded, disk, value>>
             /\ toClient'[c] = toClient[c]
  <2>1. k = 1 /\ ServerFinishes(1)
    BY <1>4, RunsEndInOrder
  <2>2. UNCHANGED <<up, phase, loaded, disk, value>>
    BY <2>1 DEF ServerFinishes, replicas
  <2> QED BY <1>4, <2>1, <2>2, FinishIs
<1>5. CASE c \in Pages /\ Loads(c)
  <2>1. /\ UNCHANGED <<up, toClient, loaded, disk>> /\ phase'[c] = "syncing"
        /\ value'[c] = Shown(loaded[c])
    BY <1>0, <1>5 DEF Loads, Shown
  <2>2. value'[c] = Shown(loaded[c])'
    BY <2>1 DEF Shown
  <2> QED BY <2>1, <2>2 DEF Down
<1>6. CASE Reloads(c)
  BY <1>0, <1>6 DEF Reloads
<1>7. CASE Receives(c)
  BY <1>7, ReceivesIs
<1>8. CASE \/ ServerSyncs(c) \/ ServerRefuses(c)
           \/ c \in Agents /\ AgentAsks(c)
           \/ \E id \in pending[c] : TimesOut(c, id)
           \/ Drops(c) \/ Opens(c)
  BY <1>0, <1>8 DEF ServerSyncs, ServerRefuses, AgentAsks, TimesOut, Drops, Opens
<1>9. ASSUME NEW r \in Rows, NEW gone \in BOOLEAN, Calls(c, r, gone)
      PROVE  UNCHANGED <<up, toClient, phase, loaded, disk, value>>
  BY <1>9 DEF Calls, replicas
<1>10. CASE ServerRuns
  BY <1>1, <1>3, <1>4, <1>10 DEF ServerRuns
<1>11. CASE \E r \in Rows, gone \in BOOLEAN : Calls(c, r, gone)
  BY <1>1, <1>9, <1>11
<1> QED BY <1>2, <1>5, <1>6, <1>7, <1>8, <1>10, <1>11 DEF Own

LEMMA BaseStep ==
  ASSUME TypeOK, TypeOK', NEW c \in Clients, whole'[c], AsksOnce(c), Down(c), Flow(c), Base(c),
         Aside(c) \/ ServerRuns \/ Own(c)
  PROVE  Base(c)'
<1> SUFFICES ASSUME c \in Pages, phase'[c] = "loading" \/ ~up'[c],
                    NEW r \in Rows, Live(table'[r]), loaded'[c][r] # table'[r]
             PROVE  LastRecordTime(loaded[c])' < table'[r].at
  BY DEF Base
<1>0. /\ c \in DOMAIN up /\ c \in DOMAIN phase /\ c \in DOMAIN loaded /\ c \in DOMAIN whole
      /\ loaded[c] \in Copies /\ disk[c] \in Copies /\ c \notin Agents
      /\ clock \in Nat /\ table[r].at \in Nat
  <2>1. table[r] \in Versions
    BY DEF TypeOK, Copies
  <2>2. table[r].at \in Nat
    BY <2>1 DEF Versions, None
  <2> QED BY <2>2, SyncAssumption DEF TypeOK
<1>1. ASSUME loaded'[c] = loaded[c], table'[r] = table[r], phase[c] = "loading" \/ ~up[c]
      PROVE  LastRecordTime(loaded[c])' < table'[r].at
  BY <1>1 DEF Base
<1>2. CASE Aside(c)
  BY <1>1, <1>2 DEF Aside
<1>3. ASSUME NEW d \in Clients, ServerActs(d)
      PROVE  LastRecordTime(loaded[c])' < table'[r].at
  <2>1. PICK row \in Rows :
          /\ table'[row].at \in Nat /\ ~Skips(c, table'[row].at)
          /\ loaded' = loaded /\ up' = up /\ phase' = phase
          /\ \A s \in Rows : s # row => table'[s] = table[s]
    BY <1>3, ActIs
  <2>2. CASE r = row
    <3>1. LastRecordTime(loaded[c]) \in Nat
      BY <1>0, LastRecordTimeIs
    <3>2. LastRecordTime(loaded[c])' = LastRecordTime(loaded[c])
      BY <2>1
    <3>3. ~(table'[r].at <= LastRecordTime(loaded[c]))
      BY <2>1, <2>2 DEF Skips
    <3> QED BY <2>1, <2>2, <3>1, <3>2, <3>3
  <2>3. CASE r # row
    BY <1>1, <2>1, <2>3
  <2> QED BY <2>2, <2>3
<1>4. ASSUME NEW k \in 1..Len(running), ServerFinishes(k) \/ ServerAborts(k)
      PROVE  table' = table /\ loaded' = loaded /\ up' = up /\ phase' = phase
  BY <1>4 DEF ServerFinishes, ServerAborts, links, replicas
<1>5. CASE Reloads(c)
  <2>1. /\ loaded'[c] = disk[c] /\ table' = table
        /\ AsksForAll(c) \/ ~SyncGap(c)
    BY <1>0, <1>5 DEF Reloads
  <2>2. LastRecordTime(loaded[c])' = LastRecordTime(disk[c])
    BY <2>1
  <2>3. disk[c][r] # table[r] /\ Live(table[r])
    BY <2>1
  <2>4. CASE AsksForAll(c)
    BY <2>1, <2>2, <2>3, <2>4 DEF AsksForAll
  <2>5. CASE ~AsksForAll(c) /\ (phase[c] = "loading" \/ ~up[c])
    <3>1. disk[c] = loaded[c]
      BY <2>1, <2>5 DEF SyncGap, Down
    <3> QED BY <2>1, <2>2, <2>3, <2>5, <3>1 DEF Base
  <2>6. CASE ~AsksForAll(c) /\ phase[c] # "loading" /\ up[c] /\ ToBeAsked(c, r)
    <3>1. DOMAIN toServer[c] = 1..Len(toServer[c])
      BY LenProperties DEF TypeOK
    <3>2. PICK i \in 1..Len(toServer[c]) :
            toServer[c][i].type = "sync" /\ toServer[c][i].from < table[r].at
      BY <2>6, <3>1 DEF ToBeAsked, TypeOK
    <3>3. phase[c] = "syncing" /\ toServer[c][i].from = LastRecordTime(loaded[c])
      BY <3>2 DEF AsksOnce, From
    <3>4. disk[c] = loaded[c]
      BY <2>1, <2>6, <3>3 DEF SyncGap
    <3> QED BY <2>1, <2>2, <3>2, <3>3, <3>4
  <2>7. CASE ~AsksForAll(c) /\ phase[c] # "loading" /\ up[c] /\ ~ToBeAsked(c, r)
    <3>1. Coming(c, 0, r)
      BY <2>3, <2>7 DEF Flow, Kept
    <3>2. OnItsWay(c, r)
      BY <3>1, ComingIsOnItsWay
    <3>3. ~(table[r].at <= LastRecordTime(disk[c])) /\ LastRecordTime(disk[c]) \in Nat
      BY <1>0, <2>1, <2>3, <2>7, <3>2, LastRecordTimeIs DEF SyncGap
    <3> QED BY <1>0, <2>1, <2>2, <3>3
  <2> QED BY <2>4, <2>5, <2>6, <2>7
<1>6. CASE Own(c) /\ ~Reloads(c)
  <2>1. table' = table /\ loaded' = loaded /\ (phase[c] = "loading" \/ ~up[c])
    <3>1. CASE Receives(c)
      BY <1>0, <3>1, ReceivesIs
    <3>2. CASE ~Receives(c)
      BY <1>0, <1>6, <3>2 DEF Own, ServerSyncs, ServerRefuses, Loads, AgentAsks, Calls, TimesOut,
             Drops, Opens, server, links, replicas
    <3> QED BY <3>1, <3>2
  <2> QED BY <1>1, <2>1
<1> QED BY <1>1, <1>2, <1>3, <1>4, <1>5, <1>6 DEF ServerRuns

LEMMA AwaitingStep ==
  ASSUME TypeOK, TypeOK', NEW c \in Clients, whole'[c], Callers(c), Awaiting(c),
         Aside(c) \/ ServerRuns \/ Own(c)
  PROVE  Awaiting(c)'
<1> DEFINE asked == \E i \in 1..Len(toServer[c]) : toServer[c][i].type = "sync"
           told == \E i \in 1..Len(toClient[c]) : toClient[c][i].type = "sync"
<1>0. /\ c \in DOMAIN phase /\ c \in DOMAIN toServer /\ c \in DOMAIN toClient
      /\ c \in DOMAIN whole
      /\ toServer[c] \in Seq(Requests) /\ toClient[c] \in Seq(Replies)
  BY DEF TypeOK
<1> SUFFICES ASSUME phase'[c] = "syncing"
             PROVE  asked' \/ told'
  BY DEF Awaiting
<1>1. ASSUME phase[c] = "syncing"
      PROVE  asked \/ told
  BY <1>1 DEF Awaiting
<1>2. ASSUME toServer[c] # <<>>, toServer'[c] = Tail(toServer[c]),
             Head(toServer[c]).type # "sync", asked
      PROVE  asked'
  <2>1. PICK i \in 1..Len(toServer[c]) : toServer[c][i].type = "sync"
    BY <1>2
  <2>2. /\ Head(toServer[c]) = toServer[c][1] /\ Len(toServer[c]) \in Nat
        /\ \A j \in 2..Len(toServer[c]) :
             j - 1 \in 1..Len(toServer'[c]) /\ toServer'[c][j - 1] = toServer[c][j]
    BY <1>0, <1>2, TailIs
  <2>3. i \in 2..Len(toServer[c])
    BY <1>2, <2>1, <2>2
  <2>4. i - 1 \in 1..Len(toServer'[c]) /\ toServer'[c][i - 1].type = "sync"
    BY <2>1, <2>2, <2>3
  <2> QED BY <2>4
<1>3. ASSUME toClient[c] # <<>>, toClient'[c] = Tail(toClient[c]),
             Head(toClient[c]).type # "sync", told
      PROVE  told'
  <2>1. PICK i \in 1..Len(toClient[c]) : toClient[c][i].type = "sync"
    BY <1>3
  <2>2. /\ Head(toClient[c]) = toClient[c][1] /\ Len(toClient[c]) \in Nat
        /\ \A j \in 2..Len(toClient[c]) :
             j - 1 \in 1..Len(toClient'[c]) /\ toClient'[c][j - 1] = toClient[c][j]
    BY <1>0, <1>3, TailIs
  <2>3. i \in 2..Len(toClient[c])
    BY <1>3, <2>1, <2>2
  <2>4. i - 1 \in 1..Len(toClient'[c]) /\ toClient'[c][i - 1].type = "sync"
    BY <2>1, <2>2, <2>3
  <2> QED BY <2>4
<1>4. ASSUME NEW m \in Replies, toClient'[c] = Append(toClient[c], m), told \/ m.type = "sync"
      PROVE  told'
  <2>1. /\ Len(toClient[c]) \in Nat /\ Len(toClient'[c]) = Len(toClient[c]) + 1
        /\ \A i \in 1..Len(toClient[c]) : toClient'[c][i] = toClient[c][i]
        /\ toClient'[c][Len(toClient[c]) + 1] = m
    BY <1>0, <1>4, AppendIs
  <2> QED BY <1>4, <2>1
<1>5. ASSUME NEW m \in Requests, toServer'[c] = Append(toServer[c], m), asked \/ m.type = "sync"
      PROVE  asked'
  <2>1. /\ Len(toServer[c]) \in Nat /\ Len(toServer'[c]) = Len(toServer[c]) + 1
        /\ \A i \in 1..Len(toServer[c]) : toServer'[c][i] = toServer[c][i]
        /\ toServer'[c][Len(toServer[c]) + 1] = m
    BY <1>0, <1>5, AppendIs
  <2> QED BY <1>5, <2>1
<1>6. ASSUME toServer'[c] = toServer[c] PROVE asked' <=> asked
  BY <1>6
<1>7. ASSUME toClient'[c] = toClient[c] PROVE told' <=> told
  BY <1>7
<1> HIDE DEF asked, told
<1>8. CASE Aside(c)
  BY <1>1, <1>6, <1>7, <1>8 DEF Aside
<1>9. ASSUME NEW d \in Clients, ServerActs(d)
      PROVE  asked' \/ told'
  <2>1. /\ toServer[d] # <<>> /\ Head(toServer[d]).type = "call"
        /\ toServer' = [toServer EXCEPT ![d] = Tail(@)] /\ phase' = phase
        /\ toClient' = toClient
    BY <1>9, ActIs
  <2>2. CASE d = c
    BY <1>0, <1>1, <1>2, <1>7, <2>1, <2>2
  <2>3. CASE d # c
    BY <1>0, <1>1, <1>6, <1>7, <2>1, <2>3
  <2> QED BY <2>2, <2>3
<1>10. ASSUME NEW k \in 1..Len(running), ServerFinishes(k) \/ ServerAborts(k)
       PROVE  asked' \/ told'
  <2>1. k = 1 /\ ServerFinishes(1)
    BY <1>10, RunsEndInOrder
  <2>2. UNCHANGED <<phase, toServer>>
        /\ (toClient'[c] = toClient[c]
              \/ \E m \in Replies : toClient'[c] = Append(toClient[c], m))
    BY <1>10, <2>1, FinishIs
  <2> QED BY <1>1, <1>4, <1>6, <1>7, <2>2
<1>11. CASE ServerSyncs(c)
  <2>1. toClient'[c] = Append(toClient[c], Answer("sync", 0, Newer(Head(toServer[c]).from)))
    BY <1>0, <1>11 DEF ServerSyncs, Send
  <2>2. Answer("sync", 0, Newer(Head(toServer[c]).from)).type = "sync"
    BY DEF Answer
  <2> QED BY <1>4, <2>1, <2>2, NewerIs
<1>12. CASE ServerRefuses(c)
  <2> DEFINE m == Answer("error", Head(toServer[c]).id, {})
  <2>1. /\ toServer[c] # <<>> /\ Head(toServer[c]).type = "call" /\ phase' = phase
        /\ toClient'[c] = Append(toClient[c], m) /\ toServer'[c] = Tail(toServer[c])
    BY <1>0, <1>12 DEF ServerRefuses, Send, replicas
  <2>2. m \in Replies
    BY <2>1, TakenTypes DEF Requests, Replies, Answer
  <2> QED BY <1>1, <1>2, <1>4, <2>1, <2>2
<1>13. CASE c \in Pages /\ Loads(c)
  <2>1. LastRecordTime(loaded[c]) \in Nat
    BY <1>13, LastRecordTimeIs DEF TypeOK
  <2>2. /\ SyncRequest(LastRecordTime(loaded[c])) \in Requests
        /\ SyncRequest(LastRecordTime(loaded[c])).type = "sync"
    BY <2>1 DEF SyncRequest, Requests
  <2>3. toServer'[c] = Append(toServer[c], SyncRequest(LastRecordTime(loaded[c])))
    BY <1>0, <1>13 DEF Loads, Send
  <2> QED BY <1>5, <2>2, <2>3
<1>14. CASE c \in Agents /\ AgentAsks(c)
  <2>1. SyncRequest(0) \in Requests /\ SyncRequest(0).type = "sync"
    BY DEF SyncRequest, Requests
  <2>2. toServer'[c] = Append(toServer[c], SyncRequest(0))
    BY <1>0, <1>14 DEF AgentAsks, Send
  <2> QED BY <1>5, <2>1, <2>2
<1>15. CASE Receives(c)
  <2>1. /\ toClient[c] # <<>> /\ toServer' = toServer /\ toClient'[c] = Tail(toClient[c])
        /\ Head(toClient[c]).type # "sync" /\ phase'[c] = phase[c]
    BY <1>15, ReceivesIs
  <2> QED BY <1>1, <1>3, <1>6, <2>1
<1>16. ASSUME NEW r \in Rows, NEW gone \in BOOLEAN, Calls(c, r, gone)
       PROVE  asked' \/ told'
  <2>1. /\ toServer'[c] = Append(toServer[c], Call(called', r, gone))
        /\ UNCHANGED <<toClient, phase>>
    BY <1>0, <1>16 DEF Calls, Send, replicas
  <2>2. Call(called', r, gone) \in Requests
    BY DEF Call, Requests, TypeOK
  <2> QED BY <1>1, <1>5, <1>7, <2>1, <2>2
<1>17. CASE (\E id \in pending[c] : TimesOut(c, id)) \/ Opens(c)
  <2>1. UNCHANGED <<toServer, toClient, phase>>
    BY <1>17 DEF TimesOut, Opens, links, replicas
  <2> QED BY <1>1, <1>6, <1>7, <2>1
<1>18. CASE Drops(c) \/ Reloads(c)
  BY <1>0, <1>18 DEF Drops, Reloads
<1> QED BY <1>8, <1>9, <1>10, <1>11, <1>12, <1>13, <1>14, <1>15, <1>16, <1>17, <1>18
        DEF ServerRuns, Own

-----------------------------------------------------------------------------
(* A call is in one place, and its caller awaits it: it is on its way to    *)
(* the server, runs, or is answered.                                        *)

Asked(c, i, id) ==
  i \in 1..Len(toServer[c]) /\ toServer[c][i].type = "call" /\ toServer[c][i].id = id
Run(c, i, id) ==
  /\ i \in 1..Len(running) /\ running[i].client = c /\ running[i].caller = "there"
  /\ running[i].id = id
Answered(c, i, id) ==
  /\ i \in 1..Len(toClient[c]) /\ toClient[c][i].type \in {"success", "error"}
  /\ toClient[c][i].id = id

InOnePlace(c, i, j, id) ==
  /\ Asked(c, i, id) /\ Asked(c, j, id) => i = j
  /\ Run(c, i, id) /\ Run(c, j, id) => i = j
  /\ Answered(c, i, id) /\ Answered(c, j, id) => i = j
  /\ ~(Asked(c, i, id) /\ Run(c, j, id))
  /\ ~(Asked(c, i, id) /\ Answered(c, j, id))
  /\ ~(Run(c, i, id) /\ Answered(c, j, id))

Ids(c) ==
  /\ pending[c] \subseteq 1..called
  /\ \A i, id \in Nat :
       Asked(c, i, id) \/ Run(c, i, id) \/ Answered(c, i, id) => id \in pending[c]
  /\ \A i, j, id \in Nat : InOnePlace(c, i, j, id)

\* No call moves on, but the first message of a channel may be taken.
LEMMA IdsStay ==
  ASSUME NEW c, Ids(c), pending'[c] \subseteq 1..called',
         \/ \A i, id \in Nat : Asked(c, i, id)' => Asked(c, i, id)
         \/ \A i, id \in Nat : Asked(c, i, id)' => Asked(c, i + 1, id),
         \A i, id \in Nat : Run(c, i, id)' => Run(c, i, id),
         \/ \A i, id \in Nat : Answered(c, i, id)' => Answered(c, i, id)
         \/ \A i, id \in Nat : Answered(c, i, id)' => Answered(c, i + 1, id),
         \A i, id \in Nat :
           (Asked(c, i, id) \/ Run(c, i, id) \/ Answered(c, i, id))' => id \in pending'[c]
  PROVE  Ids(c)'
<1> SUFFICES ASSUME NEW i \in Nat, NEW j \in Nat, NEW id \in Nat
             PROVE  InOnePlace(c, i, j, id)'
  BY DEF Ids
<1>1. PICK p \in {0, 1} : \A k \in Nat : Asked(c, k, id)' => Asked(c, k + p, id)
  OBVIOUS
<1>2. PICK q \in {0, 1} : \A k \in Nat : Answered(c, k, id)' => Answered(c, k + q, id)
  OBVIOUS
<1>3. i + p \in Nat /\ j + p \in Nat /\ i + q \in Nat /\ j + q \in Nat
  OBVIOUS
<1>4. /\ Asked(c, i + p, id) /\ Asked(c, j + p, id) => i + p = j + p
      /\ Run(c, i, id) /\ Run(c, j, id) => i = j
      /\ Answered(c, i + q, id) /\ Answered(c, j + q, id) => i + q = j + q
      /\ ~(Asked(c, i + p, id) /\ Run(c, j, id))
      /\ ~(Asked(c, i + p, id) /\ Answered(c, j + q, id))
      /\ ~(Run(c, i, id) /\ Answered(c, j + q, id))
  BY <1>3 DEF Ids, InOnePlace
<1> HIDE DEF Asked, Run, Answered
<1> QED BY <1>1, <1>2, <1>4 DEF InOnePlace

\* Taking the first request leaves the others; it was not yet taken.
LEMMA AskedTail ==
  ASSUME TypeOK, NEW c \in Clients, toServer[c] # <<>>, toServer'[c] = Tail(toServer[c])
  PROVE  \A i, id \in Nat : Asked(c, i, id)' => Asked(c, i + 1, id)
<1>1. \A i \in 1..Len(toServer'[c]) :
        i + 1 \in 1..Len(toServer[c]) /\ toServer'[c][i] = toServer[c][i + 1]
  BY TailIs DEF TypeOK
<1> QED BY <1>1 DEF Asked

LEMMA AnsweredTail ==
  ASSUME TypeOK, NEW c \in Clients, toClient[c] # <<>>, toClient'[c] = Tail(toClient[c])
  PROVE  \A i, id \in Nat : Answered(c, i, id)' => Answered(c, i + 1, id)
<1>1. \A i \in 1..Len(toClient'[c]) :
        i + 1 \in 1..Len(toClient[c]) /\ toClient'[c][i] = toClient[c][i + 1]
  BY TailIs DEF TypeOK
<1> QED BY <1>1 DEF Answered

LEMMA AskedGrows ==
  ASSUME TypeOK, NEW c \in Clients, NEW m \in Requests, toServer'[c] = Append(toServer[c], m)
  PROVE  \A i, id \in Nat : Asked(c, i, id)' =>
           \/ Asked(c, i, id)
           \/ i = Len(toServer[c]) + 1 /\ m.type = "call" /\ m.id = id
<1>1. \A i \in 1..Len(toServer'[c]) :
        \/ i \in 1..Len(toServer[c]) /\ toServer'[c][i] = toServer[c][i]
        \/ i = Len(toServer[c]) + 1 /\ toServer'[c][i] = m
  BY AppendIs DEF TypeOK
<1> QED BY <1>1 DEF Asked

LEMMA AnsweredGrows ==
  ASSUME TypeOK, NEW c \in Clients, NEW m \in Replies, toClient'[c] = Append(toClient[c], m)
  PROVE  \A i, id \in Nat : Answered(c, i, id)' =>
           \/ Answered(c, i, id)
           \/ i = Len(toClient[c]) + 1 /\ m.type \in {"success", "error"} /\ m.id = id
<1>1. \A i \in 1..Len(toClient'[c]) :
        \/ i \in 1..Len(toClient[c]) /\ toClient'[c][i] = toClient[c][i]
        \/ i = Len(toClient[c]) + 1 /\ toClient'[c][i] = m
  BY AppendIs DEF TypeOK
<1> QED BY <1>1 DEF Answered

LEMMA IdsStep ==
  ASSUME TypeOK, TypeOK', NEW c \in Clients, whole'[c], Callers(c), Ids(c),
         Aside(c) \/ ServerRuns \/ Own(c)
  PROVE  Ids(c)'
<1>0. /\ c \in DOMAIN pending /\ c \in DOMAIN toServer /\ c \in DOMAIN toClient
      /\ c \in DOMAIN whole /\ called \in Nat /\ called' \in Nat
      /\ Len(toServer[c]) \in Nat /\ Len(toClient[c]) \in Nat /\ Len(running) \in Nat
      /\ pending[c] \subseteq 1..called /\ pending[c] \subseteq Nat
  BY LenProperties DEF TypeOK, Ids
<1>1. /\ toServer'[c] = toServer[c] => \A i, id \in Nat : Asked(c, i, id)' => Asked(c, i, id)
      /\ toClient'[c] = toClient[c] =>
           \A i, id \in Nat : Answered(c, i, id)' => Answered(c, i, id)
      /\ running' = running => \A i, id \in Nat : Run(c, i, id)' => Run(c, i, id)
  BY DEF Asked, Answered, Run
<1>2. ASSUME pending'[c] = pending[c], called <= called',
             \/ \A i, id \in Nat : Asked(c, i, id)' => Asked(c, i, id)
             \/ \A i, id \in Nat : Asked(c, i, id)' => Asked(c, i + 1, id),
             \A i, id \in Nat : Run(c, i, id)' => Run(c, i, id),
             \/ \A i, id \in Nat : Answered(c, i, id)' => Answered(c, i, id)
             \/ \A i, id \in Nat : Answered(c, i, id)' => Answered(c, i + 1, id)
      PROVE  Ids(c)'
  <2>1. pending'[c] \subseteq 1..called'
    BY <1>0, <1>2
  <2>2. ASSUME NEW i \in Nat, NEW id \in Nat,
               (Asked(c, i, id) \/ Run(c, i, id) \/ Answered(c, i, id))'
        PROVE  id \in pending'[c]
    <3>1. i + 1 \in Nat
      OBVIOUS
    <3>2. \/ Asked(c, i, id) \/ Asked(c, i + 1, id) \/ Run(c, i, id)
          \/ Answered(c, i, id) \/ Answered(c, i + 1, id)
      BY <1>2, <2>2
    <3> QED BY <1>2, <3>1, <3>2 DEF Ids
  <2> QED BY <1>2, <2>1, <2>2, IdsStay
<1>3. CASE Aside(c)
  <2>1. \A i, id \in Nat : Run(c, i, id)' => Run(c, i, id)
    BY <1>3 DEF Aside, Run
  <2> QED BY <1>1, <1>2, <1>3, <2>1 DEF Aside
<1>4. ASSUME NEW d \in Clients, ServerActs(d)
      PROVE  Ids(c)'
  <2>1. PICK m \in Requests, k \in Runs' :
          /\ toServer[d] # <<>> /\ m = Head(toServer[d]) /\ m.type = "call" /\ m.id \in Nat
          /\ k.client = d /\ k.id = m.id /\ k.caller = "there"
          /\ Len(running') = Len(running) + 1
          /\ \A i \in 1..Len(running) : running'[i] = running[i]
          /\ running'[Len(running) + 1] = k
          /\ toServer' = [toServer EXCEPT ![d] = Tail(@)]
          /\ UNCHANGED <<toClient, pending, called>>
    BY <1>4, ActIs
  <2>2. \A i, id \in Nat : Run(c, i, id)' =>
          Run(c, i, id) \/ (i = Len(running) + 1 /\ d = c /\ id = m.id)
    BY <1>0, <2>1 DEF Run
  <2>3. CASE d # c
    <3>1. /\ pending'[c] = pending[c] /\ called <= called'
          /\ toServer'[c] = toServer[c] /\ toClient'[c] = toClient[c]
      BY <1>0, <2>1, <2>3
    <3>2. \A i, id \in Nat : Run(c, i, id)' => Run(c, i, id)
      BY <2>2, <2>3
    <3>3. /\ \A i, id \in Nat : Asked(c, i, id)' => Asked(c, i, id)
          /\ \A i, id \in Nat : Answered(c, i, id)' => Answered(c, i, id)
      BY <1>1, <3>1
    <3> QED BY <1>2, <3>1, <3>2, <3>3
  <2>4. CASE d = c
    <3>1. Asked(c, 1, m.id)
      BY <2>1, <2>4, TailIs DEF TypeOK, Asked
    <3>2. \A i, id \in Nat : Asked(c, i, id)' => Asked(c, i + 1, id)
      BY <1>0, <2>1, <2>4, AskedTail
    <3>3. \A i, id \in Nat : Answered(c, i, id)' => Answered(c, i, id)
      BY <1>1, <2>1
    <3>4. \A i, id \in Nat : (Asked(c, i, id) \/ Run(c, i, id) \/ Answered(c, i, id))' =>
            id \in pending'[c]
      <4> SUFFICES ASSUME NEW i \in Nat, NEW id \in Nat,
                          Asked(c, i, id)' \/ Run(c, i, id)' \/ Answered(c, i, id)'
                   PROVE  id \in pending'[c]
        OBVIOUS
      <4>1. i + 1 \in Nat
        OBVIOUS
      <4>2. Asked(c, i + 1, id) \/ Run(c, i, id) \/ Answered(c, i, id) \/ Asked(c, 1, id)
        BY <2>2, <3>1, <3>2, <3>3
      <4> QED BY <2>1, <4>1, <4>2 DEF Ids
    <3>5. ASSUME NEW i \in Nat, NEW j \in Nat, NEW id \in Nat
          PROVE  InOnePlace(c, i, j, id)'
      <4>1. /\ ~Asked(c, 0, id)' /\ (i # 0 => i + 1 # 1) /\ (j # 0 => j + 1 # 1)
        BY DEF Asked
      <4>2. /\ Asked(c, i + 1, id) /\ Asked(c, j + 1, id) => i + 1 = j + 1
            /\ Asked(c, i + 1, id) /\ Asked(c, 1, id) => i + 1 = 1
            /\ Run(c, i, id) /\ Run(c, j, id) => i = j
            /\ Answered(c, i, id) /\ Answered(c, j, id) => i = j
            /\ ~(Asked(c, i + 1, id) /\ Run(c, j, id))
            /\ ~(Asked(c, 1, id) /\ Run(c, i, id)) /\ ~(Asked(c, 1, id) /\ Run(c, j, id))
            /\ ~(Asked(c, i + 1, id) /\ Answered(c, j, id))
            /\ ~(Asked(c, 1, id) /\ Answered(c, j, id))
            /\ ~(Run(c, i, id) /\ Answered(c, j, id))
        <5>1. i + 1 \in Nat /\ 1 \in Nat /\ j + 1 \in Nat
          OBVIOUS
        <5> QED BY <5>1 DEF Ids, InOnePlace
      <4> QED BY <2>2, <3>1, <3>2, <3>3, <4>1, <4>2 DEF InOnePlace
    <3>6. (pending[c] \subseteq 1..called)'
      BY <1>0, <2>1
    <3> QED BY <3>4, <3>5, <3>6 DEF Ids
  <2> QED BY <2>3, <2>4
<1>5. ASSUME NEW k \in 1..Len(running), ServerFinishes(k) \/ ServerAborts(k)
      PROVE  Ids(c)'
  <2>1. k = 1 /\ ServerFinishes(1)
    BY <1>5, RunsEndInOrder
  <2>2. /\ UNCHANGED <<pending, called, toServer>>
        /\ \/ toClient'[c] = toClient[c]
           \/ \E m \in Replies :
                /\ toClient'[c] = Append(toClient[c], m)
                /\ \/ running[1].client = c /\ running[1].caller = "there"
                      /\ m.type = "success" /\ m.id = running[1].id
                   \/ m.type = "update"
    BY <1>5, <2>1, FinishIs
  <2>3. \A i, id \in Nat : Run(c, i, id)' => Run(c, i + 1, id)
    <3>1. \A j \in 1..Len(running') :
            j + 1 \in 1..Len(running) /\ running'[j] = running[j + 1]
      BY <1>5, <2>1, FirstEnds DEF ServerFinishes
    <3> QED BY <3>1 DEF Run
  <2>4. \A i, id \in Nat : Answered(c, i, id)' =>
          Answered(c, i, id) \/ (i = Len(toClient[c]) + 1 /\ Run(c, 1, id))
    <3>1. CASE toClient'[c] = toClient[c]
      BY <1>1, <3>1
    <3>2. ASSUME NEW m \in Replies, toClient'[c] = Append(toClient[c], m),
                 \/ running[1].client = c /\ running[1].caller = "there"
                      /\ m.type = "success" /\ m.id = running[1].id
                 \/ m.type = "update"
          PROVE  \A i, id \in Nat : Answered(c, i, id)' =>
                   Answered(c, i, id) \/ (i = Len(toClient[c]) + 1 /\ Run(c, 1, id))
      <4>1. m.type \in {"success", "error"} => \A id \in Nat : m.id = id => Run(c, 1, id)
        BY <1>5, <2>1, <3>2 DEF Run
      <4> QED BY <3>2, <4>1, AnsweredGrows
    <3> QED BY <2>2, <3>1, <3>2
  <2>5. \A i, id \in Nat : Asked(c, i, id)' => Asked(c, i, id)
    BY <1>1, <2>2
  <2>6. \A i, id \in Nat : (Asked(c, i, id) \/ Run(c, i, id) \/ Answered(c, i, id))' =>
          id \in pending'[c]
    <3> SUFFICES ASSUME NEW i \in Nat, NEW id \in Nat,
                        Asked(c, i, id)' \/ Run(c, i, id)' \/ Answered(c, i, id)'
                 PROVE  id \in pending'[c]
      OBVIOUS
    <3>1. i + 1 \in Nat
      OBVIOUS
    <3>2. Asked(c, i, id) \/ Run(c, i + 1, id) \/ Answered(c, i, id) \/ Run(c, 1, id)
      BY <2>3, <2>4, <2>5
    <3> QED BY <2>2, <3>1, <3>2 DEF Ids
  <2>7. ASSUME NEW i \in Nat, NEW j \in Nat, NEW id \in Nat
        PROVE  InOnePlace(c, i, j, id)'
    <3>1. /\ ~Run(c, 0, id)' /\ (i # 0 => i + 1 # 1) /\ (j # 0 => j + 1 # 1)
      BY DEF Run
    <3>2. /\ Asked(c, i, id) /\ Asked(c, j, id) => i = j
          /\ Run(c, i + 1, id) /\ Run(c, j + 1, id) => i + 1 = j + 1
          /\ Run(c, i + 1, id) /\ Run(c, 1, id) => i + 1 = 1
          /\ Answered(c, i, id) /\ Answered(c, j, id) => i = j
          /\ ~(Asked(c, i, id) /\ Run(c, j + 1, id)) /\ ~(Asked(c, i, id) /\ Run(c, 1, id))
          /\ ~(Asked(c, i, id) /\ Answered(c, j, id))
          /\ ~(Run(c, i + 1, id) /\ Answered(c, j, id))
          /\ ~(Run(c, 1, id) /\ Answered(c, j, id)) /\ ~(Run(c, 1, id) /\ Answered(c, i, id))
      <4>1. i + 1 \in Nat /\ 1 \in Nat /\ j + 1 \in Nat
        OBVIOUS
      <4> QED BY <4>1 DEF Ids, InOnePlace
    <3> QED BY <2>3, <2>4, <2>5, <3>1, <3>2 DEF InOnePlace
  <2>8. (pending[c] \subseteq 1..called)'
    BY <1>0, <2>2
  <2> QED BY <2>6, <2>7, <2>8 DEF Ids
<1>6. CASE ServerSyncs(c)
  <2> DEFINE m == Answer("sync", 0, Newer(Head(toServer[c]).from))
  <2>1. /\ toServer[c] # <<>> /\ UNCHANGED <<running, pending, called>>
        /\ toClient'[c] = Append(toClient[c], m) /\ toServer'[c] = Tail(toServer[c])
    BY <1>0, <1>6 DEF ServerSyncs, Send, server
  <2>2. m \in Replies /\ m.type = "sync"
    BY NewerIs DEF Answer
  <2> HIDE DEF m
  <2>3. \A i, id \in Nat : Answered(c, i, id)' => Answered(c, i, id)
    BY <2>1, <2>2, AnsweredGrows
  <2>4. \A i, id \in Nat : Asked(c, i, id)' => Asked(c, i + 1, id)
    BY <2>1, AskedTail
  <2> QED BY <1>0, <1>1, <1>2, <2>1, <2>3, <2>4
<1>7. CASE ServerRefuses(c)
  <2> DEFINE m == Answer("error", Head(toServer[c]).id, {})
  <2>1. /\ toServer[c] # <<>> /\ Head(toServer[c]).type = "call"
        /\ UNCHANGED <<running, pending, called>>
        /\ toClient'[c] = Append(toClient[c], m) /\ toServer'[c] = Tail(toServer[c])
    BY <1>0, <1>7 DEF ServerRefuses, Send, server
  <2>2. m \in Replies /\ m.id = Head(toServer[c]).id /\ m.id \in Nat
    BY <2>1, TakenTypes DEF Requests, Replies, Answer
  <2> HIDE DEF m
  <2>3. Asked(c, 1, m.id)
    BY <2>1, <2>2, TailIs DEF TypeOK, Asked
  <2>4. \A i, id \in Nat : Answered(c, i, id)' =>
          Answered(c, i, id) \/ (i = Len(toClient[c]) + 1 /\ Asked(c, 1, id))
    BY <2>1, <2>2, <2>3, AnsweredGrows
  <2>5. \A i, id \in Nat : Asked(c, i, id)' => Asked(c, i + 1, id)
    BY <2>1, AskedTail
  <2>6. \A i, id \in Nat : Run(c, i, id)' => Run(c, i, id)
    BY <1>1, <2>1
  <2>7. \A i, id \in Nat : (Asked(c, i, id) \/ Run(c, i, id) \/ Answered(c, i, id))' =>
          id \in pending'[c]
    <3> SUFFICES ASSUME NEW i \in Nat, NEW id \in Nat,
                        Asked(c, i, id)' \/ Run(c, i, id)' \/ Answered(c, i, id)'
                 PROVE  id \in pending'[c]
      OBVIOUS
    <3>1. i + 1 \in Nat
      OBVIOUS
    <3>2. Asked(c, i + 1, id) \/ Run(c, i, id) \/ Answered(c, i, id) \/ Asked(c, 1, id)
      BY <2>4, <2>5, <2>6
    <3> QED BY <2>1, <3>1, <3>2 DEF Ids
  <2>8. ASSUME NEW i \in Nat, NEW j \in Nat, NEW id \in Nat
        PROVE  InOnePlace(c, i, j, id)'
    <3>1. /\ ~Asked(c, 0, id)' /\ (i # 0 => i + 1 # 1) /\ (j # 0 => j + 1 # 1)
      BY DEF Asked
    <3>2. /\ Asked(c, i + 1, id) /\ Asked(c, j + 1, id) => i + 1 = j + 1
          /\ Asked(c, i + 1, id) /\ Asked(c, 1, id) => i + 1 = 1
          /\ Run(c, i, id) /\ Run(c, j, id) => i = j
          /\ Answered(c, i, id) /\ Answered(c, j, id) => i = j
          /\ ~(Asked(c, i + 1, id) /\ Run(c, j, id))
          /\ ~(Asked(c, 1, id) /\ Run(c, i, id))
          /\ ~(Asked(c, i + 1, id) /\ Answered(c, j, id))
          /\ ~(Asked(c, 1, id) /\ Answered(c, j, id))
          /\ ~(Asked(c, 1, id) /\ Answered(c, i, id))
          /\ ~(Run(c, i, id) /\ Answered(c, j, id))
      <4>1. i + 1 \in Nat /\ 1 \in Nat /\ j + 1 \in Nat
        OBVIOUS
      <4> QED BY <4>1 DEF Ids, InOnePlace
    <3> QED BY <2>4, <2>5, <2>6, <3>1, <3>2 DEF InOnePlace
  <2>9. (pending[c] \subseteq 1..called)'
    BY <1>0, <2>1
  <2> QED BY <2>7, <2>8, <2>9 DEF Ids
<1>8. ASSUME NEW m \in Requests, m.type = "sync", toServer'[c] = Append(toServer[c], m),
             UNCHANGED <<running, toClient, pending, called>>
      PROVE  Ids(c)'
  <2>1. \A i, id \in Nat : Asked(c, i, id)' => Asked(c, i, id)
    BY <1>8, AskedGrows
  <2>2. called <= called' /\ toClient'[c] = toClient[c] /\ pending'[c] = pending[c]
    BY <1>0, <1>8
  <2> QED BY <1>1, <1>2, <1>8, <2>1, <2>2
<1>9. CASE c \in Pages /\ Loads(c)
  <2>1. LastRecordTime(loaded[c]) \in Nat
    BY <1>9, LastRecordTimeIs DEF TypeOK
  <2>2. /\ SyncRequest(LastRecordTime(loaded[c])) \in Requests
        /\ SyncRequest(LastRecordTime(loaded[c])).type = "sync"
    BY <2>1 DEF SyncRequest, Requests
  <2>3. /\ toServer'[c] = Append(toServer[c], SyncRequest(LastRecordTime(loaded[c])))
        /\ UNCHANGED <<running, toClient, pending, called>>
    BY <1>0, <1>9 DEF Loads, Send, server
  <2> QED BY <1>8, <2>2, <2>3
<1>10. CASE c \in Agents /\ AgentAsks(c)
  <2>1. SyncRequest(0) \in Requests /\ SyncRequest(0).type = "sync"
    BY DEF SyncRequest, Requests
  <2>2. /\ toServer'[c] = Append(toServer[c], SyncRequest(0))
        /\ UNCHANGED <<running, toClient, pending, called>>
    BY <1>0, <1>10 DEF AgentAsks, Send, server
  <2> QED BY <1>8, <2>1, <2>2
<1>11. CASE Receives(c)
  <2> DEFINE m == Head(toClient[c])
  <2>1. /\ toClient[c] # <<>> /\ UNCHANGED <<running, toServer, called>>
        /\ toClient'[c] = Tail(toClient[c])
        /\ m.type \in {"success", "error"} => pending'[c] = pending[c] \ {m.id}
        /\ m.type \notin {"success", "error"} => pending'[c] = pending[c]
    BY <1>11, ReceivesIs
  <2>2. m \in Replies /\ m.id \in Nat /\ (m.type \in {"success", "error"} => Answered(c, 1, m.id))
    <3>1. m \in Replies /\ m = toClient[c][1] /\ 1 \in 1..Len(toClient[c])
      BY <2>1, TailIs DEF TypeOK
    <3> HIDE DEF m
    <3> QED BY <3>1 DEF Replies, Answered
  <2> HIDE DEF m
  <2>3. \A i, id \in Nat : Answered(c, i, id)' => Answered(c, i + 1, id)
    BY <2>1, AnsweredTail
  <2>4. CASE m.type \notin {"success", "error"}
    BY <1>0, <1>1, <1>2, <2>1, <2>3, <2>4
  <2>5. CASE m.type \in {"success", "error"}
    <3>1. \A i, id \in Nat : (Asked(c, i, id) \/ Run(c, i, id) \/ Answered(c, i, id))' =>
            id \in pending'[c]
      <4> SUFFICES ASSUME NEW i \in Nat, NEW id \in Nat,
                          Asked(c, i, id)' \/ Run(c, i, id)' \/ Answered(c, i, id)'
                   PROVE  id \in pending[c] /\ id # m.id
        BY <2>1, <2>5
      <4>1. i + 1 \in Nat /\ 1 \in Nat
        OBVIOUS
      <4>2. Asked(c, i, id) \/ Run(c, i, id) \/ (Answered(c, i + 1, id) /\ i # 0)
        <5>1. ~Answered(c, 0, id)'
          BY DEF Answered
        <5> QED BY <1>1, <2>1, <2>3, <5>1
      <4>3. id \in pending[c]
        BY <4>1, <4>2 DEF Ids
      <4>4. ASSUME id = m.id PROVE FALSE
        <5>1. Answered(c, 1, id)
          BY <2>2, <2>5, <4>4
        <5>2. ~Asked(c, i, id) /\ ~Run(c, i, id) /\ (Answered(c, i + 1, id) => i + 1 = 1)
          BY <4>1, <5>1 DEF Ids, InOnePlace
        <5> QED BY <4>2, <5>2
      <4> QED BY <4>3, <4>4
    <3>2. pending'[c] \subseteq 1..called'
      BY <1>0, <2>1, <2>5
    <3> QED BY <1>1, <2>1, <2>3, <3>1, <3>2, IdsStay
  <2> QED BY <2>4, <2>5
<1>12. ASSUME NEW r \in Rows, NEW gone \in BOOLEAN, Calls(c, r, gone)
       PROVE  Ids(c)'
  <2>1. /\ toServer'[c] = Append(toServer[c], Call(called', r, gone))
        /\ UNCHANGED <<running, toClient>> /\ called' = called + 1
        /\ pending'[c] = pending[c] \cup {called'}
    BY <1>0, <1>12 DEF Calls, Send, server
  <2>2. Call(called', r, gone) \in Requests /\ Call(called', r, gone).id = called'
    BY <1>0 DEF Call, Requests
  <2>3. \A i, id \in Nat : Asked(c, i, id)' =>
          Asked(c, i, id) \/ (i = Len(toServer[c]) + 1 /\ id = called')
    BY <2>1, <2>2, AskedGrows
  <2>4. \A i \in Nat : ~Asked(c, i, called') /\ ~Run(c, i, called') /\ ~Answered(c, i, called')
    <3>1. called' \notin pending[c]
      BY <1>0, <2>1
    <3> QED BY <1>0, <3>1 DEF Ids
  <2>5. \A i, id \in Nat : (Asked(c, i, id) \/ Run(c, i, id) \/ Answered(c, i, id))' =>
          id \in pending'[c]
    BY <1>1, <2>1, <2>3 DEF Ids
  <2>6. ASSUME NEW i \in Nat, NEW j \in Nat, NEW id \in Nat
        PROVE  InOnePlace(c, i, j, id)'
    <3>1. InOnePlace(c, i, j, id)
      BY DEF Ids
    <3> QED BY <1>1, <2>1, <2>3, <2>4, <3>1 DEF InOnePlace
  <2>7. pending'[c] \subseteq 1..called'
    BY <1>0, <2>1
  <2> QED BY <2>5, <2>6, <2>7 DEF Ids
<1>13. CASE Opens(c)
  <2>1. UNCHANGED <<toServer, toClient, running, pending, called>>
    BY <1>13 DEF Opens, server
  <2>2. /\ \A i, id \in Nat : Asked(c, i, id)' => Asked(c, i, id)
        /\ \A i, id \in Nat : Run(c, i, id)' => Run(c, i, id)
        /\ \A i, id \in Nat : Answered(c, i, id)' => Answered(c, i, id)
    BY <1>1, <2>1
  <2>3. pending'[c] = pending[c] /\ called <= called'
    BY <1>0, <2>1
  <2> QED BY <1>2, <2>2, <2>3
<1>14. CASE Reloads(c)
  <2>1. /\ toServer'[c] = <<>> /\ toClient'[c] = <<>> /\ pending'[c] = {}
        /\ running' = Lost(c, "reloaded") /\ running \in Seq(Runs)
    BY <1>0, <1>14 DEF Reloads, TypeOK
  <2>2. \A i, id \in Nat : ~Asked(c, i, id)' /\ ~Answered(c, i, id)'
    BY <2>1 DEF Asked, Answered
  <2>3. \A i, id \in Nat : ~Run(c, i, id)'
    BY <2>1, LostIs DEF Run
  <2> QED BY <2>1, <2>2, <2>3 DEF Ids, InOnePlace
<1>15. CASE (\E id \in pending[c] : TimesOut(c, id)) \/ Drops(c)
  BY <1>0, <1>15 DEF TimesOut, Drops
<1> QED BY <1>3, <1>4, <1>5, <1>6, <1>7, <1>9, <1>10, <1>11, <1>12, <1>13, <1>14, <1>15
        DEF ServerRuns, Own

-----------------------------------------------------------------------------
(* Nothing of a live row gets lost on the way.                              *)

LEMMA ComingGrows ==
  ASSUME TypeOK, TypeOK', NEW c \in Clients, NEW r \in Rows, table'[r] = table[r],
         InRunning(r) => InRunning(r)',
         \/ toClient'[c] = toClient[c]
         \/ \E m \in Replies' : toClient'[c] = Append(toClient[c], m)
  PROVE  \A i \in 0..Len(toClient[c]) : Coming(c, i, r) => Coming(c, i, r)'
<1>1. /\ Len(toClient[c]) \in Nat /\ Len(toClient[c]) <= Len(toClient'[c])
      /\ Len(toClient'[c]) \in Nat
      /\ \A i \in 1..Len(toClient[c]) : toClient'[c][i] = toClient[c][i]
  <2>1. toClient[c] \in Seq(Replies) /\ Len(toClient[c]) \in Nat
    BY LenProperties DEF TypeOK
  <2>2. CASE toClient'[c] = toClient[c]
    BY <2>1, <2>2
  <2>3. ASSUME NEW m, toClient'[c] = Append(toClient[c], m)
        PROVE  /\ Len(toClient'[c]) = Len(toClient[c]) + 1
               /\ \A i \in 1..Len(toClient[c]) : toClient'[c][i] = toClient[c][i]
    BY <2>1, <2>3
  <2> QED BY <2>1, <2>2, <2>3
<1>2. ASSUME NEW i \in 0..Len(toClient[c]), Coming(c, i, r)
      PROVE  Coming(c, i, r)'
  <2>1. CASE InRunning(r)
    BY <2>1 DEF Coming
  <2>2. CASE ~InRunning(r)
    <3>1. PICK j \in (i + 1)..Len(toClient[c]) :
            Change(r, table[r]) \in toClient[c][j].changes
      BY <1>2, <2>2 DEF Coming
    <3>2. j \in 1..Len(toClient[c]) /\ j \in (i + 1)..Len(toClient'[c])
      BY <1>1
    <3>3. toClient'[c][j] = toClient[c][j]
      BY <1>1, <3>2
    <3> QED BY <3>1, <3>2, <3>3 DEF Coming
  <2> QED BY <2>1, <2>2
<1> QED BY <1>2

\* What is asked for is still asked for when other requests come and go.
LEMMA ToBeAskedStays ==
  ASSUME TypeOK, NEW c \in Clients, NEW r \in Rows, ToBeAsked(c, r),
         table'[r] = table[r], phase'[c] = phase[c], c \in Pages => loaded'[c] = loaded[c],
         \/ toServer'[c] = toServer[c]
         \/ \E m \in Requests : toServer'[c] = Append(toServer[c], m)
         \/ /\ toServer[c] # <<>> /\ toServer'[c] = Tail(toServer[c])
            /\ Head(toServer[c]).type = "sync" => ~(Head(toServer[c]).from < table[r].at)
  PROVE  ToBeAsked(c, r)'
<1>1. toServer[c] \in Seq(Requests) /\ DOMAIN toServer[c] = 1..Len(toServer[c])
      /\ Len(toServer[c]) \in Nat
  BY LenProperties DEF TypeOK
<1>2. CASE phase[c] = "idle"
  BY <1>2 DEF ToBeAsked
<1>3. CASE phase[c] = "loading" /\ LastRecordTime(loaded[c]) < table[r].at
  <2>1. c \in Pages
    BY <1>3 DEF TypeOK, Clients
  <2>2. LastRecordTime(loaded[c])' = LastRecordTime(loaded[c])
    BY <2>1
  <2> QED BY <1>3, <2>2 DEF ToBeAsked
<1>4. ASSUME NEW i \in 1..Len(toServer[c]), toServer[c][i].type = "sync",
             toServer[c][i].from < table[r].at
      PROVE  ToBeAsked(c, r)'
  <2>1. CASE toServer'[c] = toServer[c]
    BY <1>1, <1>4, <2>1 DEF ToBeAsked
  <2>2. ASSUME NEW m \in Requests, toServer'[c] = Append(toServer[c], m)
        PROVE  ToBeAsked(c, r)'
    <3>1. i \in DOMAIN toServer'[c] /\ toServer'[c][i] = toServer[c][i]
      BY <1>1, <2>2
    <3> QED BY <1>4, <3>1 DEF ToBeAsked
  <2>3. CASE /\ toServer[c] # <<>> /\ toServer'[c] = Tail(toServer[c])
             /\ Head(toServer[c]).type = "sync" => ~(Head(toServer[c]).from < table[r].at)
    <3>1. Head(toServer[c]) = toServer[c][1]
          /\ \A j \in 2..Len(toServer[c]) :
               j - 1 \in 1..Len(toServer'[c]) /\ toServer'[c][j - 1] = toServer[c][j]
      BY <1>1, <2>3, TailIs
    <3>2. i \in 2..Len(toServer[c])
      BY <1>1, <1>4, <2>3, <3>1
    <3>3. i - 1 \in 1..Len(toServer'[c]) /\ toServer'[c][i - 1] = toServer[c][i]
      BY <3>1, <3>2
    <3>4. DOMAIN toServer'[c] = 1..Len(toServer'[c])
      BY <1>1, <2>3
    <3> QED BY <1>4, <3>3, <3>4 DEF ToBeAsked
  <2> QED BY <2>1, <2>2, <2>3
<1> QED BY <1>1, <1>2, <1>3, <1>4 DEF ToBeAsked

LEMMA FlowAside ==
  ASSUME TypeOK, TypeOK', NEW c \in Clients, Flow(c), Aside(c)
  PROVE  Flow(c)'
<1>1. \A r \in Rows : InRunning(r) => InRunning(r)'
  BY DEF Aside, InRunning
<1>2. \A r \in Rows : \A i \in 0..Len(toClient[c]) : Coming(c, i, r) => Coming(c, i, r)'
  BY <1>1, ComingGrows DEF Aside
<1>3. \A r \in Rows : ToBeAsked(c, r) => ToBeAsked(c, r)'
  BY ToBeAskedStays DEF Aside
<1> QED BY <1>2, <1>3, FlowGrows DEF Aside

LEMMA FlowActs ==
  ASSUME TypeOK, TypeOK', NEW c \in Clients, Flow(c), NEW d \in Clients, ServerActs(d)
  PROVE  Flow(c)'
<1>1. PICK m \in Requests, k \in Runs' :
        /\ toServer[d] # <<>> /\ m = Head(toServer[d]) /\ m.type = "call" /\ m.row \in Rows
        /\ k.change = Change(m.row, table'[m.row])
        /\ \A r \in Rows : r # m.row => table'[r] = table[r]
        /\ Len(running') = Len(running) + 1
        /\ \A i \in 1..Len(running) : running'[i] = running[i]
        /\ running'[Len(running) + 1] = k
        /\ toServer' = [toServer EXCEPT ![d] = Tail(@)]
        /\ UNCHANGED <<up, toClient, phase, loaded, value, disk>>
  BY ActIs
<1>2. Len(running) \in Nat /\ c \in DOMAIN toServer
  BY LenProperties DEF TypeOK
<1>3. \A r \in Rows : table'[r] # table[r] => InRunning(r)'
  <2>1. Len(running) + 1 \in 1..Len(running')
    BY <1>1, <1>2
  <2> QED BY <1>1, <2>1 DEF InRunning
<1>4. ASSUME NEW r \in Rows, table'[r] = table[r]
      PROVE  InRunning(r) => InRunning(r)'
  BY <1>1, <1>2, <1>4 DEF InRunning
<1>5. ASSUME NEW r \in Rows, table'[r] = table[r]
      PROVE  /\ \A i \in 0..Len(toClient[c]) : Coming(c, i, r) => Coming(c, i, r)'
             /\ ToBeAsked(c, r) => ToBeAsked(c, r)'
  <2>1. \A i \in 0..Len(toClient[c]) : Coming(c, i, r) => Coming(c, i, r)'
    BY <1>1, <1>4, <1>5, ComingGrows
  <2>2. CASE d = c
    BY <1>1, <1>2, <1>5, <2>1, <2>2, ToBeAskedStays
  <2>3. CASE d # c
    BY <1>1, <1>2, <1>5, <2>1, <2>3, ToBeAskedStays
  <2> QED BY <2>2, <2>3
<1> QED BY <1>1, <1>3, <1>5, FlowGrows

LEMMA FlowFinishes ==
  ASSUME TypeOK, TypeOK', NEW c \in Clients, Callers(c), Down(c), RunningEnds, Flow(c),
         1 \in 1..Len(running), ServerFinishes(1)
  PROVE  Flow(c)'
<1>1. /\ UNCHANGED <<table, clock, up, toServer, phase, loaded, value, disk>>
      /\ running[1] \in Runs
  BY FinishIs
<1>2. CASE ~up[c]
  <2>1. toClient'[c] = <<>>
    BY <1>2, FinishIs DEF Down
  <2> QED BY <1>1, <1>2, <2>1 DEF Flow, LastWord, ToldAll
<1>3. ASSUME NEW m \in Replies, up[c], toClient'[c] = Append(toClient[c], m),
             m.changes = {running[1].change}, m.type # "sync"
      PROVE  Flow(c)'
  <2>1. /\ Len(running) \in Nat /\ Len(running') = Len(running) - 1
        /\ \A j \in 1..Len(running') :
             j + 1 \in 1..Len(running) /\ running'[j] = running[j + 1]
    BY FirstEnds DEF ServerFinishes
  <2>2. m \in Replies'
    BY <1>1, WrittenStays
  <2>3. ASSUME NEW r \in Rows, NEW k \in 2..Len(running),
               running[k].change = Change(r, table[r])
        PROVE  InRunning(r)'
    <3>1. k - 1 \in 1..Len(running') /\ (k - 1) + 1 = k
      BY <2>1
    <3>2. running'[k - 1] = running[k]
      BY <2>1, <3>1
    <3> QED BY <1>1, <2>3, <3>1, <3>2 DEF InRunning
  <2>4. PICK row \in Rows : row = running[1].change.row
    BY <1>1 DEF Runs, Written
  <2>5. \A x \in m.changes : x.version = table'[x.row] \/ InRunning(x.row)'
    <3>1. CASE running[1].change.version = table[running[1].change.row]
      BY <1>1, <1>3, <3>1
    <3>2. CASE running[1].change.version # table[running[1].change.row]
      <4>1. PICK j \in 2..Len(running) : running[j].change = Change(row, table[row])
        BY <2>4, <3>2 DEF RunningEnds
      <4>2. InRunning(row)'
        BY <2>3, <4>1
      <4> QED BY <1>3, <2>4, <4>2
    <3> QED BY <3>1, <3>2
  <2>6. ASSUME NEW r \in Rows, NEW i \in 0..Len(toClient[c]), Coming(c, i, r)
        PROVE  Coming(c, i, r)'
    <3>1. /\ Len(toClient[c]) \in Nat /\ Len(toClient'[c]) = Len(toClient[c]) + 1
          /\ \A j \in 1..Len(toClient[c]) : toClient'[c][j] = toClient[c][j]
          /\ toClient'[c][Len(toClient[c]) + 1] = m
      BY <1>3, AppendIs DEF TypeOK
    <3>2. CASE running[1].change = Change(r, table[r])
      <4>1. Len(toClient[c]) + 1 \in (i + 1)..Len(toClient'[c])
        BY <3>1
      <4> QED BY <1>1, <1>3, <3>1, <3>2, <4>1 DEF Coming
    <3>3. ASSUME NEW k \in 2..Len(running), running[k].change = Change(r, table[r])
          PROVE  Coming(c, i, r)'
      BY <2>3, <3>3 DEF Coming
    <3>4. ASSUME NEW j \in (i + 1)..Len(toClient[c]),
                 Change(r, table[r]) \in toClient[c][j].changes
          PROVE  Coming(c, i, r)'
      <4>1. j \in 1..Len(toClient[c]) /\ j \in (i + 1)..Len(toClient'[c])
        BY <3>1
      <4> QED BY <1>1, <3>1, <3>4, <4>1 DEF Coming
    <3>5. \A k \in 1..Len(running) : k = 1 \/ k \in 2..Len(running)
      BY <2>1
    <3> QED BY <2>6, <3>2, <3>3, <3>4, <3>5 DEF Coming, InRunning
  <2>7. \A r \in Rows : ToBeAsked(c, r) => ToBeAsked(c, r)'
    BY <1>1, ToBeAskedStays
  <2> QED BY <1>1, <1>3, <2>2, <2>5, <2>6, <2>7, FlowGrows
<1> QED BY <1>2, <1>3, FinishIs

LEMMA FlowAnswers ==
  ASSUME TypeOK, TypeOK', NEW c \in Clients, AsksOnce(c), Flow(c),
         ServerSyncs(c) \/ ServerRefuses(c)
  PROVE  Flow(c)'
<1>0. c \in DOMAIN toServer /\ c \in DOMAIN toClient
      /\ toServer[c] \in Seq(Requests) /\ toClient[c] \in Seq(Replies)
  BY DEF TypeOK
<1>1. /\ UNCHANGED <<table, clock, running, up, phase, loaded, value, disk>>
      /\ toServer[c] # <<>> /\ toServer'[c] = Tail(toServer[c])
  BY <1>0 DEF ServerSyncs, ServerRefuses, server, replicas
<1>2. \A r \in Rows : InRunning(r) => InRunning(r)'
  BY <1>1 DEF InRunning
<1>3. UNCHANGED <<Written, Copies, Runs, Replies>>
  BY <1>1, WrittenStays
<1>4. ASSUME NEW m \in Replies, toClient'[c] = Append(toClient[c], m)
      PROVE  \A r \in Rows : \A i \in 0..Len(toClient[c]) : Coming(c, i, r) => Coming(c, i, r)'
  BY <1>1, <1>2, <1>3, <1>4, ComingGrows
<1>5. CASE ServerSyncs(c)
  <2> DEFINE from == Head(toServer[c]).from
             m == Answer("sync", 0, Newer(from))
  <2>1. /\ Head(toServer[c]).type = "sync" /\ toClient'[c] = Append(toClient[c], m)
    BY <1>0, <1>5 DEF ServerSyncs, Send
  <2>2. /\ m \in Replies /\ m.type = "sync" /\ m.changes = Newer(from)
    BY NewerIs DEF Answer
  <2>3. /\ \A x \in m.changes : x.version = table[x.row]
        /\ \A r \in Rows : Live(table[r]) /\ table[r].at > from =>
             Change(r, table[r]) \in m.changes
    BY <2>2, NewerIs
  <2>4. c \in Agents => from = 0
    <3>1. Head(toServer[c]) = toServer[c][1] /\ 1 \in 1..Len(toServer[c])
      BY <1>0, <1>1, TailIs
    <3> QED BY <2>1, <3>1, SyncAssumption DEF AsksOnce, From
  <2> HIDE DEF m
  <2>5. c \in Agents => \A r \in Rows : Live(table[r]) => Change(r, table[r]) \in m.changes
    BY <2>3, <2>4 DEF Live
  <2>6. ASSUME NEW r \in Rows, Live(table[r]), ToBeAsked(c, r)
        PROVE  ToBeAsked(c, r)' \/ Coming(c, 0, r)'
    <3>0. table[r].at \in Nat /\ from \in Nat
      <4>1. table[r] \in Versions /\ Head(toServer[c]) \in Requests
        BY <1>1, TakenTypes DEF TypeOK, Copies
      <4> QED BY <2>1, <4>1 DEF Versions, None, Requests
    <3>1. CASE from < table[r].at
      <4>1. Change(r, table[r]) \in m.changes
        BY <2>3, <2>6, <3>0, <3>1
      <4>2. /\ Len(toClient[c]) \in Nat /\ Len(toClient'[c]) = Len(toClient[c]) + 1
            /\ toClient'[c][Len(toClient[c]) + 1] = m
        BY <1>0, <2>1, <2>2, AppendIs
      <4>3. Len(toClient[c]) + 1 \in (0 + 1)..Len(toClient'[c])
        BY <4>2
      <4> QED BY <1>1, <4>1, <4>2, <4>3 DEF Coming
    <3>2. CASE ~(from < table[r].at)
      BY <1>1, <2>6, <3>2, ToBeAskedStays
    <3> QED BY <3>1, <3>2
  <2>7. \A r \in Rows : \A i \in 0..Len(toClient[c]) : Coming(c, i, r) => Coming(c, i, r)'
    BY <1>4, <2>1, <2>2
  <2>8. /\ m \in Replies' /\ \A x \in m.changes : x.version = table'[x.row]
        /\ c \in Agents => \A r \in Rows : Live(table'[r]) => Change(r, table'[r]) \in m.changes
    BY <1>1, <1>3, <2>2, <2>3, <2>5
  <2> QED BY <1>1, <2>1, <2>6, <2>7, <2>8, FlowGrows
<1>6. CASE ServerRefuses(c)
  <2> DEFINE m == Answer("error", Head(toServer[c]).id, {})
  <2>1. /\ Head(toServer[c]).type = "call" /\ toClient'[c] = Append(toClient[c], m)
    BY <1>0, <1>6 DEF ServerRefuses, Send
  <2>2. m \in Replies /\ m.type # "sync" /\ m.changes = {}
    BY <1>1, <2>1, TakenTypes DEF Requests, Replies, Answer
  <2> HIDE DEF m
  <2>3. \A r \in Rows : \A i \in 0..Len(toClient[c]) : Coming(c, i, r) => Coming(c, i, r)'
    BY <1>4, <2>1, <2>2
  <2>4. \A r \in Rows : ToBeAsked(c, r) => ToBeAsked(c, r)'
    BY <1>1, <2>1, ToBeAskedStays
  <2>5. m \in Replies'
    BY <1>3, <2>2
  <2> QED BY <1>1, <2>1, <2>2, <2>3, <2>4, <2>5, FlowGrows
<1> QED BY <1>5, <1>6

LEMMA FlowAsks ==
  ASSUME TypeOK, TypeOK', NEW c \in Clients, Base(c), Flow(c),
         \/ c \in Pages /\ Loads(c)
         \/ c \in Agents /\ AgentAsks(c)
         \/ \E r \in Rows, gone \in BOOLEAN : Calls(c, r, gone)
  PROVE  Flow(c)'
<1>0. /\ c \in DOMAIN toServer /\ c \in DOMAIN phase /\ c \in DOMAIN value
      /\ c \in Agents => c \notin Pages
      /\ UNCHANGED <<table, running, up, toClient, loaded, disk>>
      /\ \A r \in Rows : \A i \in 0..Len(toClient[c]) : Coming(c, i, r) => Coming(c, i, r)'
  <2>1. UNCHANGED <<table, running, up, toClient, loaded, disk>>
    BY DEF Loads, AgentAsks, Calls, server, replicas
  <2>2. \A r \in Rows : InRunning(r) => InRunning(r)'
    BY <2>1 DEF InRunning
  <2>3. \A r \in Rows : \A i \in 0..Len(toClient[c]) : Coming(c, i, r) => Coming(c, i, r)'
    BY <2>1, <2>2, ComingGrows
  <2> QED BY <2>1, <2>3, SyncAssumption DEF TypeOK
<1>1. LastWord(c)' /\ (c \in Agents => ToldAll(c)')
  BY <1>0 DEF Flow, LastWord, ToldAll, Coming, InRunning
<1>2. CASE c \in Pages /\ Loads(c)
  <2> DEFINE from == LastRecordTime(loaded[c])
  <2>1. /\ toServer'[c] = Append(toServer[c], SyncRequest(from))
        /\ value'[c] = Shown(loaded[c]) /\ phase[c] = "loading" /\ phase'[c] = "syncing"
    BY <1>0, <1>2 DEF Loads, Send, Shown
  <2>2. loaded[c] \in Copies /\ from \in Nat
    BY <1>2, LastRecordTimeIs DEF TypeOK
  <2> HIDE DEF from
  <2>3. SyncRequest(from) \in Requests /\ SyncRequest(from).type = "sync"
        /\ SyncRequest(from).from = from
    BY <2>2 DEF SyncRequest, Requests
  <2>4. /\ toServer[c] \in Seq(Requests) /\ Len(toServer[c]) \in Nat
        /\ DOMAIN toServer'[c] = 1..(Len(toServer[c]) + 1)
        /\ toServer'[c][Len(toServer[c]) + 1] = SyncRequest(from)
        /\ DOMAIN toServer[c] = 1..Len(toServer[c])
        /\ \A i \in 1..Len(toServer[c]) : toServer'[c][i] = toServer[c][i]
    <3>1. toServer[c] \in Seq(Requests) /\ Len(toServer[c]) \in Nat
      BY LenProperties DEF TypeOK
    <3> HIDE DEF from
    <3> QED BY <2>1, <2>3, <3>1
  <2>5. ASSUME NEW r \in Rows, from < table[r].at
        PROVE  ToBeAsked(c, r)'
    <3>1. Len(toServer[c]) + 1 \in DOMAIN toServer'[c]
      BY <2>4
    <3>2. SyncRequest(from).from < table'[r].at
      BY <1>0, <2>3, <2>5
    <3> QED BY <2>3, <2>4, <3>1, <3>2 DEF ToBeAsked
  <2>6. Kept(c, value[c])'
    <3> SUFFICES ASSUME NEW r \in Rows, Live(table'[r]), value'[c][r] # table'[r]
                 PROVE  ToBeAsked(c, r)'
      BY DEF Kept
    <3>1. Live(table[r]) /\ Shown(loaded[c])[r] # table[r]
      BY <1>0, <2>1
    <3>2. loaded[c][r] # table[r]
      BY <2>2, <3>1, ShownGives
    <3> QED BY <1>2, <2>1, <2>5, <3>1, <3>2 DEF Base, from
  <2>7. up[c] => Kept(c, disk[c])'
    <3> SUFFICES ASSUME up[c], NEW r \in Rows, Live(table'[r]), disk'[c][r] # table'[r]
                 PROVE  Coming(c, 0, r)' \/ ToBeAsked(c, r)'
      BY DEF Kept
    <3>1. Live(table[r]) /\ disk[c][r] # table[r]
      BY <1>0
    <3>2. Coming(c, 0, r) \/ ToBeAsked(c, r)
      BY <1>2, <3>1 DEF Flow, Kept
    <3>3. 0 \in 0..Len(toClient[c])
      BY LenProperties DEF TypeOK
    <3>4. CASE ToBeAsked(c, r)
      <4>1. CASE from < table[r].at
        BY <2>5, <4>1
      <4>2. ASSUME NEW i \in 1..Len(toServer[c]), toServer[c][i].type = "sync",
                   toServer[c][i].from < table[r].at
            PROVE  ToBeAsked(c, r)'
        <5>1. i \in DOMAIN toServer'[c] /\ toServer'[c][i] = toServer[c][i]
          BY <2>4
        <5> QED BY <1>0, <4>2, <5>1 DEF ToBeAsked
      <4> QED BY <2>1, <2>4, <3>4, <4>1, <4>2 DEF ToBeAsked, from
    <3> QED BY <1>0, <3>2, <3>3, <3>4
  <2>8. loaded[c] = NoRows => Replaced(c, value[c])'
    BY <2>1, <2>2, NoneTypes, ShownGives DEF Replaced
  <2>9. (loaded[c] = NoRows)' = (loaded[c] = NoRows)
    BY <1>0 DEF NoRows
  <2> QED BY <1>0, <1>1, <1>2, <2>6, <2>7, <2>8, <2>9 DEF Flow
<1>3. CASE c \in Agents /\ AgentAsks(c)
  <2>1. phase'[c] = "syncing"
    BY <1>0, <1>3 DEF AgentAsks
  <2> QED BY <1>0, <1>1, <1>3, <2>1 DEF Flow, Showing
<1>4. ASSUME NEW s \in Rows, NEW gone \in BOOLEAN, Calls(c, s, gone)
      PROVE  Flow(c)'
  <2>1. /\ toServer'[c] = Append(toServer[c], Call(called', s, gone))
        /\ UNCHANGED <<phase, value>>
    BY <1>0, <1>4 DEF Calls, Send, replicas
  <2>2. Call(called', s, gone) \in Requests
    BY DEF Call, Requests, TypeOK
  <2>3. \A r \in Rows : ToBeAsked(c, r) => ToBeAsked(c, r)'
    BY <1>0, <2>1, <2>2, ToBeAskedStays
  <2> QED BY <1>0, <2>1, <2>3, FlowGrows
<1> QED BY <1>2, <1>3, <1>4

\* A socket that opens has nothing on its way; what the page did not load it
\* asks for, or has asked for.
LEMMA FlowOpens ==
  ASSUME TypeOK, TypeOK', NEW c \in Clients, AsksOnce(c), Awaiting(c), Base(c), Down(c),
         Opens(c)
  PROVE  Flow(c)'
<1>1. /\ c \in Pages /\ c \notin Agents /\ ~up[c]
      /\ UNCHANGED <<table, running, toServer, toClient, phase, loaded, value, disk>>
  BY SyncAssumption DEF Opens, server, replicas
<1>2. /\ toClient[c] = <<>> /\ phase[c] \in {"loading", "syncing"}
      /\ disk[c] = loaded[c] /\ loaded[c] \in Copies
      /\ phase[c] = "syncing" => value[c] = Shown(loaded[c])
  BY <1>1 DEF Down, TypeOK
<1>3. ASSUME NEW r \in Rows, Live(table[r]), loaded[c][r] # table[r]
      PROVE  ToBeAsked(c, r)
  <2>1. LastRecordTime(loaded[c]) < table[r].at
    BY <1>1, <1>3 DEF Base
  <2>2. CASE phase[c] = "loading"
    BY <2>1, <2>2 DEF ToBeAsked
  <2>3. CASE phase[c] = "syncing"
    <3>1. PICK i \in 1..Len(toServer[c]) : toServer[c][i].type = "sync"
      BY <1>2, <2>3 DEF Awaiting
    <3>2. toServer[c][i].from = LastRecordTime(loaded[c])
      BY <1>1, <3>1 DEF AsksOnce, From
    <3>3. DOMAIN toServer[c] = 1..Len(toServer[c])
      BY LenProperties DEF TypeOK
    <3> QED BY <2>1, <3>1, <3>2, <3>3 DEF ToBeAsked
  <2> QED BY <1>2, <2>2, <2>3
<1>4. \A r \in Rows : ToBeAsked(c, r) => ToBeAsked(c, r)'
  BY <1>1, ToBeAskedStays
<1>5. Kept(c, disk[c])'
  BY <1>1, <1>2, <1>3, <1>4 DEF Kept
<1>6. CASE phase[c] = "loading"
  BY <1>1, <1>2, <1>5, <1>6 DEF Flow, LastWord, Showing
<1>7. CASE phase[c] = "syncing"
  <2>1. Kept(c, value[c])'
    <3> SUFFICES ASSUME NEW r \in Rows, Live(table[r]), value[c][r] # table[r]
                 PROVE  ToBeAsked(c, r)'
      BY <1>1 DEF Kept
    <3>1. loaded[c][r] # table[r]
      BY <1>2, <1>7, ShownGives
    <3> QED BY <1>3, <1>4, <3>1
  <2>2. (loaded[c] = NoRows)' => Replaced(c, value[c])'
    <3>1. (loaded[c] = NoRows)' => loaded[c] = NoRows
      BY <1>1 DEF NoRows
    <3>2. Shown(NoRows) = NoRows
      BY DEF Shown, NoRows
    <3>3. (loaded[c] = NoRows)' => value'[c] = NoRows
      BY <1>1, <1>2, <1>7, <3>1, <3>2
    <3> QED BY <3>3, NoneTypes DEF Replaced
  <2>3. LastWord(c)'
    BY <1>1, <1>2 DEF LastWord
  <2> QED BY <1>1, <1>5, <2>1, <2>2, <2>3 DEF Flow
<1> QED BY <1>2, <1>6, <1>7

\* What a client takes from a message it takes whole: its answers are awaited.
LEMMA TakenIs ==
  ASSUME TypeOK, NEW c \in Clients, Ids(c), toClient[c] # <<>>
  PROVE  /\ Taken(c) = Head(toClient[c]).changes
         /\ Head(toClient[c]) = toClient[c][1] /\ 1 \in 1..Len(toClient[c])
         /\ Taken(c) \subseteq Written
<1> DEFINE m == Head(toClient[c])
<1>1. m \in Replies /\ m = toClient[c][1] /\ 1 \in 1..Len(toClient[c])
      /\ m.changes \subseteq Written
  BY TailIs, TakenTypes DEF TypeOK
<1> HIDE DEF m
<1>2. m.id \in Nat /\ (m.type = "error" => m.changes = {})
  BY <1>1 DEF Replies
<1>3. m.type = "success" => m.id \in pending[c]
  <2>1. m.type = "success" => Answered(c, 1, m.id)
    BY <1>1 DEF Answered
  <2> QED BY <1>2, <2>1 DEF Ids
<1>4. Taken(c) = m.changes
  BY <1>2, <1>3 DEF Taken, Settles, m
<1> QED BY <1>1, <1>4 DEF m

LEMMA FlowReceives ==
  ASSUME TypeOK, TypeOK', NEW c \in Clients, AsksOnce(c), Ids(c), Flow(c), Receives(c)
  PROVE  Flow(c)'
<1> DEFINE m == Head(toClient[c])
           ch == Taken(c)
<1>1. /\ up[c] /\ toClient[c] # <<>> /\ toClient'[c] = Tail(toClient[c])
      /\ UNCHANGED <<table, running, up, toServer, loaded>>
      /\ c \in Agents => c \notin Pages
  BY ReceivesIs, SyncAssumption
<1>2. /\ m = toClient[c][1] /\ ch = m.changes /\ ch \subseteq Written
      /\ 1 \in 1..Len(toClient[c])
  BY <1>1, TakenIs
<1>3. /\ Len(toClient[c]) \in Nat /\ Len(toClient'[c]) = Len(toClient[c]) - 1
      /\ \A i \in 1..Len(toClient'[c]) :
           i + 1 \in 1..Len(toClient[c]) /\ toClient'[c][i] = toClient[c][i + 1]
      /\ \A i \in 2..Len(toClient[c]) :
           i - 1 \in 1..Len(toClient'[c]) /\ toClient'[c][i - 1] = toClient[c][i]
  BY <1>1, TailIs DEF TypeOK
<1>4. \A r \in Rows : InRunning(r) => InRunning(r)'
  BY <1>1 DEF InRunning
<1>5. ASSUME NEW r \in Rows, NEW i \in Nat, Coming(c, i + 1, r)
      PROVE  Coming(c, i, r)'
  <2>1. ASSUME NEW j \in ((i + 1) + 1)..Len(toClient[c]),
               Change(r, table[r]) \in toClient[c][j].changes
        PROVE  Coming(c, i, r)'
    <3>1. j \in 2..Len(toClient[c]) /\ j - 1 \in (i + 1)..Len(toClient'[c])
      BY <1>3
    <3>2. toClient'[c][j - 1] = toClient[c][j]
      BY <1>3, <3>1
    <3> QED BY <1>1, <2>1, <3>1, <3>2 DEF Coming
  <2> QED BY <1>4, <1>5, <2>1 DEF Coming
<1>6. ASSUME NEW r \in Rows, Coming(c, 0, r), Change(r, table[r]) \notin ch
      PROVE  Coming(c, 0, r)'
  <2>1. Coming(c, 0 + 1, r)
    BY <1>2, <1>3, <1>6 DEF Coming
  <2> QED BY <1>5, <2>1
<1>7. LastWord(c)'
  <2> SUFFICES ASSUME NEW i \in 1..Len(toClient'[c]), NEW x \in toClient'[c][i].changes,
                      x.version # table'[x.row]
               PROVE  Coming(c, i, x.row)'
    BY DEF LastWord
  <2>1. i + 1 \in 1..Len(toClient[c]) /\ x \in toClient[c][i + 1].changes
        /\ x.version # table[x.row]
    BY <1>1, <1>3
  <2>2. Coming(c, i + 1, x.row)
    BY <2>1 DEF Flow, LastWord
  <2>3. x.row \in Rows
    <3>1. toClient[c][i + 1] \in Replies
      BY <2>1, ElementOfSeq DEF TypeOK
    <3> QED BY <2>1, <3>1 DEF Replies, Written
  <2> QED BY <1>5, <2>2, <2>3
<1>8. ASSUME c \in Agents
      PROVE  ToldAll(c)'
  <2> SUFFICES ASSUME NEW i \in 1..Len(toClient'[c]), toClient'[c][i].type = "sync",
                      NEW r \in Rows, Live(table'[r]),
                      Change(r, table'[r]) \notin toClient'[c][i].changes
               PROVE  Coming(c, i, r)'
    BY DEF ToldAll
  <2>1. /\ i + 1 \in 1..Len(toClient[c]) /\ toClient[c][i + 1].type = "sync"
        /\ Live(table[r]) /\ Change(r, table[r]) \notin toClient[c][i + 1].changes
    BY <1>1, <1>3
  <2>2. Coming(c, i + 1, r)
    BY <1>8, <2>1 DEF Flow, ToldAll
  <2> QED BY <1>5, <2>2
<1>9. ASSUME NEW held, NEW r \in Rows
      PROVE  \/ Merge(held, ch)[r] = table[r]
             \/ Coming(c, 0, r)'
             \/ /\ \A x \in ch : x.row # r
                /\ Merge(held, ch)[r] = held[r]
                /\ Coming(c, 0, r) => Coming(c, 0, r)'
  <2>1. CASE \E x \in ch : x.row = r
    <3>1. PICK x \in ch : x.row = r /\ Merge(held, ch)[r] = x.version
      BY <2>1, MergeGives
    <3>2. x.version = table[r] \/ Coming(c, 0 + 1, r)
      BY <1>2, <3>1 DEF Flow, LastWord
    <3> QED BY <1>5, <3>1, <3>2
  <2>2. CASE \A x \in ch : x.row # r
    <3>1. Change(r, table[r]) \notin ch
      BY <2>2 DEF Change
    <3>2. Merge(held, ch)[r] = held[r]
      BY <2>2, MergeGives
    <3> QED BY <1>6, <2>2, <3>1, <3>2
  <2> QED BY <2>1, <2>2
<1> HIDE DEF m, ch
<1>10. ASSUME NEW r \in Rows, ToBeAsked(c, r)
       PROVE  ToBeAsked(c, r)'
  <2>1. CASE m.type # "sync"
    <3>1. phase'[c] = phase[c]
      BY <2>1, ReceivesIs DEF m
    <3> QED BY <1>1, <1>10, <3>1, ToBeAskedStays
  <2>2. CASE m.type = "sync"
    <3>1. phase[c] = "syncing"
      BY <1>2, <2>2 DEF AsksOnce
    <3> QED BY <1>1, <1>10, <3>1 DEF ToBeAsked
  <2> QED BY <2>1, <2>2
<1>11. ASSUME NEW held, Kept(c, held)
       PROVE  \A r \in Rows : Live(table[r]) =>
                Merge(held, ch)[r] = table[r] \/ Coming(c, 0, r)' \/ ToBeAsked(c, r)'
  BY <1>9, <1>10, <1>11 DEF Kept
<1>12. ASSUME NEW held, Replaced(c, held)
       PROVE  \A r \in Rows : Merge(held, ch)[r] # None =>
                Merge(held, ch)[r] = table[r] \/ Coming(c, 0, r)'
  BY <1>9, <1>12 DEF Replaced
<1>13. CASE c \in Pages
  <2>1. /\ value'[c] = Shown(Merge(value[c], ch)) /\ disk'[c] = Merge(disk[c], ch)
        /\ c \notin Agents
    BY <1>1, <1>13, ReceivesIs DEF ch
  <2>2. Merge(value[c], ch) \in Copies
    BY <1>2, MergeTypes DEF TypeOK
  <2>3. Kept(c, disk[c])'
    <3>1. PICK held : held = disk[c]
      OBVIOUS
    <3>2. Kept(c, held)
      BY <1>1, <1>13, <3>1 DEF Flow
    <3> QED BY <1>1, <1>11, <2>1, <3>1, <3>2 DEF Kept
  <2>4. ASSUME Showing(c)'
        PROVE  Showing(c)
    <3>1. CASE m.type = "sync"
      BY <1>2, <1>13, <3>1 DEF AsksOnce, Showing
    <3>2. CASE m.type # "sync"
      BY <1>13, <2>4, <3>2, ReceivesIs DEF m, Showing
    <3> QED BY <3>1, <3>2
  <2>5. ASSUME Showing(c)'
        PROVE  Kept(c, value[c])'
    <3>1. PICK held : held = value[c]
      OBVIOUS
    <3>2. Kept(c, held)
      BY <1>1, <2>4, <2>5, <3>1 DEF Flow
    <3>3. \A r \in Rows : Live(table[r]) =>
            Merge(held, ch)[r] = table[r] \/ Coming(c, 0, r)' \/ ToBeAsked(c, r)'
      BY <1>11, <3>2
    <3>4. \A r \in Rows : Live(table[r]) /\ Merge(held, ch)[r] = table[r] =>
            value'[c][r] = table[r]
      BY <2>1, <2>2, <3>1, ShownGives
    <3> QED BY <1>1, <3>3, <3>4 DEF Kept
  <2>6. ASSUME Showing(c)', loaded[c] = NoRows
        PROVE  Replaced(c, value[c])'
    <3>1. PICK held : held = value[c]
      OBVIOUS
    <3>2. Replaced(c, held)
      BY <1>1, <2>4, <2>6, <3>1 DEF Flow
    <3>3. \A r \in Rows : Merge(held, ch)[r] # None =>
            Merge(held, ch)[r] = table[r] \/ Coming(c, 0, r)'
      BY <1>12, <3>2
    <3>4. \A r \in Rows : value'[c][r] # None => value'[c][r] = Merge(held, ch)[r]
      BY <2>1, <2>2, <3>1, ShownGives
    <3> QED BY <1>1, <3>3, <3>4 DEF Replaced
  <2>7. (loaded[c] = NoRows)' = (loaded[c] = NoRows)
    BY <1>1 DEF NoRows
  <2> QED BY <1>7, <1>13, <2>1, <2>3, <2>5, <2>6, <2>7 DEF Flow
<1>14. CASE c \in Agents
  <2>1. CASE m.type = "sync"
    <3>1. value'[c] = Merge(NoRows, ch)
      BY <1>14, <2>1, ReceivesIs DEF m, ch
    <3>2. Kept(c, value[c])'
      <4> SUFFICES ASSUME NEW r \in Rows, Live(table[r]), ~Coming(c, 0, r)'
                   PROVE  Merge(NoRows, ch)[r] = table[r]
        BY <1>1, <3>1 DEF Kept
      <4>1. Change(r, table[r]) \in ch \/ Coming(c, 0 + 1, r)
        BY <1>2, <1>14, <2>1 DEF Flow, ToldAll
      <4>2. \E x \in ch : x.row = r
        BY <1>5, <4>1 DEF Change
      <4> QED BY <1>9, <4>2
    <3>3. Replaced(c, value[c])'
      <4>1. Replaced(c, NoRows)
        BY NoneTypes DEF Replaced
      <4> QED BY <1>1, <1>12, <3>1, <4>1 DEF Replaced
    <3> QED BY <1>1, <1>7, <1>8, <1>14, <3>2, <3>3 DEF Flow
  <2>2. CASE m.type # "sync" /\ phase[c] = "synced"
    <3>1. value'[c] = Merge(value[c], ch)
      BY <1>14, <2>2, ReceivesIs DEF m, ch
    <3>2. PICK held : held = value[c]
      OBVIOUS
    <3>3. Kept(c, held) /\ Replaced(c, held)
      BY <1>1, <1>14, <2>2, <3>2 DEF Flow, Showing
    <3>4. Kept(c, value[c])'
      BY <1>1, <1>11, <3>1, <3>2, <3>3 DEF Kept
    <3>5. Replaced(c, value[c])'
      BY <1>1, <1>12, <3>1, <3>2, <3>3 DEF Replaced
    <3> QED BY <1>1, <1>7, <1>8, <1>14, <3>4, <3>5 DEF Flow
  <2>3. CASE m.type # "sync" /\ phase[c] # "synced"
    <3>1. phase'[c] # "synced"
      BY <2>3, ReceivesIs DEF m
    <3> QED BY <1>1, <1>7, <1>8, <1>14, <3>1 DEF Flow, Showing
  <2> QED BY <2>1, <2>2, <2>3
<1> QED BY <1>13, <1>14 DEF Clients

-----------------------------------------------------------------------------
(* The invariant, and what it is for.                                       *)

Sound(c) ==
  /\ RunningEnds /\ Callers(c) /\ Ids(c)
  /\ Awaiting(c) /\ Base(c) /\ Down(c) /\ Flow(c)

SyncInv ==
  /\ TypeOK
  /\ \A c \in Clients : AsksOnce(c) /\ (whole[c] => Sound(c))

LEMMA InitHolds == Init => SyncInv
<1> SUFFICES ASSUME Init PROVE SyncInv
  OBVIOUS
<1>1. TypeOK
  BY InitTypes
<1>2. Len(running) = 0 /\ \A c \in Clients : Len(toServer[c]) = 0 /\ Len(toClient[c]) = 0
  BY DEF Init
<1>3. ASSUME NEW c \in Clients
      PROVE  AsksOnce(c) /\ Sound(c)
  <2>0. /\ c \in Pages => c \notin Agents
        /\ c \notin Pages => c \in Agents
    BY SyncAssumption DEF Clients
  <2>1. /\ \A r \in Rows : ~Live(table[r]) /\ value[c][r] = None
        /\ toClient[c] = <<>> /\ value[c] = NoRows /\ pending[c] = {}
        /\ c \in Pages => ~up[c] /\ phase[c] = "loading" /\ disk[c] = loaded[c]
        /\ c \in Agents => up[c] /\ phase[c] = "idle"
    <3>1. /\ toClient[c] = <<>> /\ value[c] = NoRows /\ pending[c] = {}
          /\ up[c] = (c \in Agents)
          /\ phase[c] = IF c \in Agents THEN "idle" ELSE "loading"
          /\ c \in Pages => disk[c] = loaded[c]
      BY DEF Init
    <3>2. \A r \in Rows : ~Live(table[r]) /\ NoRows[r] = None
      BY DEF Init, NoRows, None, Live
    <3> QED BY <2>0, <3>1, <3>2
  <2>2. AsksOnce(c)
    BY <1>2, <2>1 DEF AsksOnce
  <2>3. RunningEnds /\ Callers(c)
    BY <1>2 DEF RunningEnds, Callers
  <2>4. Ids(c)
    BY <1>2, <2>1 DEF Ids, InOnePlace, Asked, Run, Answered
  <2>5. Awaiting(c) /\ Base(c) /\ Down(c)
    BY <2>0, <2>1 DEF Awaiting, Base, Down
  <2>6. Flow(c)
    BY <1>2, <2>0, <2>1 DEF Flow, LastWord, ToldAll, Showing
  <2> QED BY <2>2, <2>3, <2>4, <2>5, <2>6 DEF Sound
<1> QED BY <1>1, <1>3 DEF SyncInv

\* What a client has lost stays lost, but for a page that asks for all of it.
LEMMA WholeFalls ==
  ASSUME TypeOK, [Next]_vars, NEW c \in Clients, whole'[c]
  PROVE  whole[c] \/ (Reloads(c) /\ AsksForAll(c))
<1>1. CASE Aside(c)
  BY <1>1 DEF Aside
<1>2. CASE ServerRuns
  BY <1>2 DEF ServerRuns, ServerActs, ServerFinishes, ServerAborts
<1>3. CASE Own(c)
  <2>1. CASE Receives(c)
    BY <2>1, ReceivesIs
  <2>2. CASE ~Receives(c)
    BY <1>3, <2>2 DEF TypeOK, Own, ServerSyncs, ServerRefuses, Loads, AgentAsks, Calls,
           TimesOut, Drops, Opens, Reloads
  <2> QED BY <2>1, <2>2
<1> QED BY <1>1, <1>2, <1>3, StepIs

LEMMA FlowStep ==
  ASSUME TypeOK, TypeOK', NEW c \in Clients, whole'[c], AsksOnce(c), Sound(c),
         Aside(c) \/ ServerRuns \/ Own(c)
  PROVE  Flow(c)'
<1>0. /\ RunningEnds /\ Callers(c) /\ Ids(c)
      /\ Awaiting(c) /\ Base(c) /\ Down(c) /\ Flow(c)
  BY DEF Sound
<1>1. CASE Aside(c)
  BY <1>0, <1>1, FlowAside
<1>2. ASSUME NEW d \in Clients, ServerActs(d)
      PROVE  Flow(c)'
  BY <1>0, <1>2, FlowActs
<1>3. ASSUME NEW i \in 1..Len(running), ServerFinishes(i) \/ ServerAborts(i)
      PROVE  Flow(c)'
  <2>1. i = 1 /\ ServerFinishes(1)
    BY <1>3, RunsEndInOrder
  <2> QED BY <1>0, <2>1, FlowFinishes
<1>4. CASE ServerSyncs(c) \/ ServerRefuses(c)
  BY <1>0, <1>4, FlowAnswers
<1>5. CASE \/ c \in Pages /\ Loads(c)
           \/ c \in Agents /\ AgentAsks(c)
           \/ \E r \in Rows, gone \in BOOLEAN : Calls(c, r, gone)
  BY <1>0, <1>5, FlowAsks
<1>6. CASE Receives(c)
  BY <1>0, <1>6, FlowReceives
<1>7. CASE Opens(c)
  BY <1>0, <1>7, FlowOpens
<1>8. CASE Reloads(c)
  <2>1. toClient'[c] = <<>> /\ ~up'[c]
    BY <1>8 DEF Reloads, TypeOK
  <2> QED BY <2>1 DEF Flow, LastWord, ToldAll
<1>9. CASE (\E id \in pending[c] : TimesOut(c, id)) \/ Drops(c)
  BY <1>9 DEF TimesOut, Drops, TypeOK
<1> QED BY <1>1, <1>2, <1>3, <1>4, <1>5, <1>6, <1>7, <1>8, <1>9 DEF ServerRuns, Own

\* Such a page starts from what is sound: it has asked for nothing yet.
LEMMA AsksForAllStep ==
  ASSUME TypeOK, TypeOK', NEW c \in Clients, Reloads(c), AsksForAll(c)
  PROVE  Sound(c)'
<1>1. /\ c \in Pages /\ running = <<>> /\ table' = table /\ running' = Lost(c, "reloaded")
      /\ ~up'[c] /\ toServer'[c] = <<>> /\ toClient'[c] = <<>> /\ phase'[c] = "loading"
      /\ loaded'[c] = disk[c] /\ disk'[c] = disk[c] /\ pending'[c] = {}
  BY DEF Reloads, AsksForAll, TypeOK
<1>2. Len(running') = 0
  BY <1>1, LostIs DEF TypeOK
<1>3. Len(toServer'[c]) = 0 /\ Len(toClient'[c]) = 0
  BY <1>1
<1>4. RunningEnds' /\ Callers(c)' /\ Awaiting(c)'
  BY <1>1, <1>2 DEF RunningEnds, Callers, Awaiting
<1>5. Ids(c)'
  BY <1>1, <1>2, <1>3 DEF Ids, InOnePlace, Asked, Run, Answered
<1>6. Base(c)'
  <2>1. LastRecordTime(loaded[c])' = LastRecordTime(disk[c])
    BY <1>1
  <2> QED BY <1>1, <2>1 DEF Base, AsksForAll
<1>7. Down(c)'
  BY <1>1 DEF Down
<1>8. Flow(c)'
  BY <1>1, <1>3 DEF Flow, LastWord, ToldAll
<1> QED BY <1>4, <1>5, <1>6, <1>7, <1>8 DEF Sound

LEMMA SyncStep ==
  ASSUME SyncInv, [Next]_vars
  PROVE  SyncInv'
<1>1. TypeOK /\ TypeOK'
  BY TypeStep DEF SyncInv
<1>2. ASSUME NEW c \in Clients
      PROVE  AsksOnce(c)' /\ (whole'[c] => Sound(c)')
  <2>1. Aside(c) \/ ServerRuns \/ Own(c)
    BY <1>1, StepIs
  <2>2. AsksOnce(c) /\ (whole[c] => Sound(c))
    BY DEF SyncInv
  <2>3. AsksOnce(c)'
    BY <1>1, <2>1, <2>2, AsksOnceStep
  <2>4. CASE Reloads(c) /\ AsksForAll(c)
    BY <1>1, <2>3, <2>4, AsksForAllStep
  <2>5. ASSUME whole'[c], ~(Reloads(c) /\ AsksForAll(c))
        PROVE  Sound(c)'
    <3>1. /\ Sound(c) /\ RunningEnds /\ Callers(c) /\ Ids(c)
          /\ Awaiting(c) /\ Base(c) /\ Down(c) /\ Flow(c)
      BY <1>1, <2>2, <2>5, WholeFalls DEF Sound
    <3>2. RunningEnds'
      BY <1>1, <2>1, <2>5, <3>1, RunningEndsStep
    <3>3. Callers(c)'
      BY <1>1, <2>1, <2>5, <3>1, CallersStep
    <3>4. Ids(c)'
      BY <1>1, <2>1, <2>5, <3>1, IdsStep
    <3>5. Awaiting(c)'
      BY <1>1, <2>1, <2>5, <3>1, AwaitingStep
    <3>6. Base(c)'
      BY <1>1, <2>1, <2>2, <2>5, <3>1, BaseStep
    <3>7. Down(c)'
      BY <1>1, <2>1, <2>5, <3>1, DownStep
    <3>8. Flow(c)'
      BY <1>1, <2>1, <2>2, <2>5, <3>1, FlowStep
    <3> QED BY <3>2, <3>3, <3>4, <3>5, <3>6, <3>7, <3>8 DEF Sound
  <2> QED BY <2>3, <2>4, <2>5
<1> QED BY <1>1, <1>2 DEF SyncInv

LEMMA SyncInvHolds == Spec => []SyncInv
<1>1. Init => SyncInv
  BY InitHolds
<1>2. SyncInv /\ [Next]_vars => SyncInv'
  BY SyncStep
<1> QED BY <1>1, <1>2, PTL DEF Spec

\* While its sync is asked for, a live row is asked for or comes after the
\* answer.
LEMMA AgentIsTold ==
  ASSUME SyncInv, NEW c \in Agents, whole[c], NEW r \in Rows, Live(table[r]),
         phase[c] = "syncing"
  PROVE  OnItsWay(c, r) \/ ToBeAsked(c, r)
<1>0. /\ TypeOK /\ c \in Clients /\ c \notin Pages
      /\ AsksOnce(c) /\ Awaiting(c) /\ Flow(c)
  BY SyncAssumption DEF SyncInv, Sound, Clients
<1>1. CASE \E i \in 1..Len(toServer[c]) : toServer[c][i].type = "sync"
  <2>1. PICK i \in 1..Len(toServer[c]) : toServer[c][i].type = "sync"
    BY <1>1
  <2>2. toServer[c][i].from = 0 /\ 0 < table[r].at
    <3>1. toServer[c][i].from = 0
      BY <1>0, <2>1 DEF AsksOnce, From
    <3>2. table[r] \in Versions
      BY <1>0 DEF TypeOK, Copies
    <3> QED BY <3>1, <3>2 DEF Live, Versions, None
  <2>3. DOMAIN toServer[c] = 1..Len(toServer[c])
    BY <1>0, LenProperties DEF TypeOK
  <2> QED BY <2>1, <2>2, <2>3 DEF ToBeAsked
<1>2. CASE \E i \in 1..Len(toClient[c]) : toClient[c][i].type = "sync"
  <2>1. PICK i \in 1..Len(toClient[c]) : toClient[c][i].type = "sync"
    BY <1>2
  <2>2. Change(r, table[r]) \in toClient[c][i].changes \/ Coming(c, i, r)
    BY <1>0, <2>1 DEF Flow, ToldAll
  <2>3. /\ i \in (0 + 1)..Len(toClient[c]) /\ Len(toClient[c]) \in Nat
        /\ \A j \in (i + 1)..Len(toClient[c]) : j \in (0 + 1)..Len(toClient[c])
    BY <1>0, LenProperties DEF TypeOK
  <2>4. Coming(c, 0, r)
    BY <2>2, <2>3 DEF Coming
  <2> QED BY <1>0, <2>4, ComingIsOnItsWay
<1> QED BY <1>0, <1>1, <1>2 DEF Awaiting

\* So does what a page did not load, before its socket opens.
LEMMA PageWillAsk ==
  ASSUME SyncInv, NEW c \in Pages, whole[c], NEW r \in Rows, Live(table[r]),
         loaded[c][r] # table[r], phase[c] = "loading" \/ ~up[c]
  PROVE  ToBeAsked(c, r)
<1>0. /\ TypeOK /\ c \in Clients
      /\ AsksOnce(c) /\ Awaiting(c) /\ Base(c) /\ Down(c)
  BY DEF SyncInv, Sound, Clients
<1>1. LastRecordTime(loaded[c]) < table[r].at
  BY <1>0 DEF Base
<1>2. CASE phase[c] = "loading"
  BY <1>1, <1>2 DEF ToBeAsked
<1>3. CASE phase[c] # "loading"
  <2>1. phase[c] = "syncing" /\ toClient[c] = <<>>
    BY <1>0, <1>3 DEF Down
  <2>2. PICK i \in 1..Len(toServer[c]) : toServer[c][i].type = "sync"
    BY <1>0, <2>1 DEF Awaiting
  <2>3. toServer[c][i].from = LastRecordTime(loaded[c])
    BY <1>0, <2>2 DEF AsksOnce, From
  <2>4. DOMAIN toServer[c] = 1..Len(toServer[c])
    BY <1>0, LenProperties DEF TypeOK
  <2> QED BY <1>1, <2>2, <2>3, <2>4 DEF ToBeAsked
<1> QED BY <1>2, <1>3

LEMMA SyncInvArrives == SyncInv => LiveRowsArrive
<1> SUFFICES ASSUME SyncInv, NEW c \in Clients, NEW r \in Rows, whole[c], Live(table[r]),
                    ~OnItsWay(c, r), ~ToBeAsked(c, r)
             PROVE  \/ value[c][r] = table[r]
                    \/ c \in Pages /\ phase[c] = "loading" /\ loaded[c][r] = table[r]
  BY DEF LiveRowsArrive
<1>1. TypeOK /\ Flow(c) /\ Down(c) /\ ~Coming(c, 0, r)
  BY ComingIsOnItsWay DEF SyncInv, Sound
<1>2. CASE up[c] /\ Showing(c)
  BY <1>1, <1>2 DEF Flow, Kept
<1>3. CASE c \in Agents /\ ~(up[c] /\ Showing(c))
  <2>1. c \notin Pages /\ up[c] /\ phase[c] # "idle" /\ phase[c] # "synced"
    BY <1>1, <1>3, SyncAssumption DEF Down, ToBeAsked, Showing
  <2>2. phase[c] = "syncing"
    BY <1>1, <1>3, <2>1 DEF TypeOK
  <2> QED BY <1>3, <2>2, AgentIsTold
<1>4. CASE c \in Pages /\ ~(up[c] /\ Showing(c))
  <2>1. loaded[c][r] = table[r]
    BY <1>4, PageWillAsk DEF Showing
  <2>2. CASE phase[c] # "loading"
    <3>1. value[c] = Shown(loaded[c]) /\ loaded[c] \in Copies
      BY <1>1, <1>4, <2>2 DEF Down, Showing, TypeOK
    <3> QED BY <2>1, <3>1, ShownGives
  <2> QED BY <1>4, <2>1, <2>2
<1> QED BY <1>2, <1>3, <1>4 DEF Clients

LEMMA SyncInvReplaces == SyncInv => OldRowsGo
<1> SUFFICES ASSUME SyncInv, NEW c \in Clients, NEW r \in Rows, whole[c],
                    c \in Pages => loaded[c] = NoRows, value[c][r] # None
             PROVE  value[c][r] = table[r] \/ OnItsWay(c, r) \/ ToBeAsked(c, r)
  BY DEF OldRowsGo
<1>1. TypeOK /\ Flow(c) /\ Down(c) /\ AsksOnce(c)
  BY DEF SyncInv, Sound
<1>2. CASE up[c] /\ Showing(c)
  BY <1>1, <1>2, ComingIsOnItsWay DEF Flow, Replaced
<1>3. CASE c \in Agents /\ ~(up[c] /\ Showing(c))
  <2>1. c \notin Pages
    BY <1>3, SyncAssumption
  <2>2. phase[c] # "synced"
    BY <1>1, <1>3, <2>1 DEF Down, Showing
  <2>3. value[c] = NoRows
    BY <1>1, <1>3, <2>2 DEF AsksOnce
  <2> QED BY <2>3, NoneTypes
<1>4. CASE c \in Pages /\ ~(up[c] /\ Showing(c))
  <2>1. CASE phase[c] = "loading"
    <3>1. LastRecordTime(loaded[c]) = 0
      BY <1>1, <1>4, NoneTypes, LastRecordTimeIs DEF TypeOK
    <3>2. table[r] # None /\ table[r] \in Versions
      <4>1. value[c] \in Copies /\ table \in Copies
        BY <1>1 DEF TypeOK
      <4>2. Change(r, value[c][r]) \in Written
        BY <4>1 DEF Copies
      <4> QED BY <4>1, <4>2 DEF Written, Change, Copies
    <3>3. 0 < table[r].at
      BY <3>2 DEF Versions
    <3> QED BY <2>1, <3>1, <3>3 DEF ToBeAsked
  <2>2. CASE phase[c] # "loading"
    <3>1. value[c] = Shown(NoRows)
      BY <1>1, <1>4, <2>2 DEF Down, Showing
    <3> QED BY <3>1, NoneTypes, ShownGives
  <2> QED BY <2>1, <2>2
<1> QED BY <1>2, <1>3, <1>4 DEF Clients

(* A client that has lost nothing holds every live row at its present       *)
(* version, or will be sent it: every sync starts after the newest row a    *)
(* page loaded, and until it has asked no live row it lacks is of that time *)
(* or older, also when writes share their second; the answer tells all that *)
(* is newer, and the broadcasts of what was written since come after.       *)
THEOREM NoLiveRowIsMissed == Spec => []LiveRowsArrive
<1>1. SyncInv => LiveRowsArrive
  BY SyncInvArrives
<1> QED BY <1>1, SyncInvHolds, PTL

(* Such a client holds no version that was replaced or deleted without the  *)
(* change on its way, unless it is a page that was loaded again: the last   *)
(* message about a row has its present version, and a caller is sent the    *)
(* answer that the broadcast leaves out.                                    *)
THEOREM NoOldRowStays == Spec => []OldRowsGo
<1>1. SyncInv => OldRowsGo
  BY SyncInvReplaces
<1> QED BY <1>1, SyncInvHolds, PTL
=============================================================================
