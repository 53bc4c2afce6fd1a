----------------------------- MODULE PartySync -----------------------------
(***************************************************************************)
(* partysync: the rows of one channel, kept in a table of a SyncServer and *)
(* replicated to clients.  A page (useSync) shows the rows it persisted,   *)
(* asks once for what is newer than the newest of them, and then follows   *)
(* the server's broadcasts; an agent (Agent) does the same from nothing.   *)
(* A change is an RPC (partyfn): its caller learns of it from the answer,  *)
(* everyone else from the broadcast.                                       *)
(*                                                                         *)
(* A version of a row is the time of its last write, whether that was a    *)
(* delete, and the call that made it: the times are whole seconds          *)
(* (CURRENT_TIMESTAMP), and several writes may share one.  Deleted rows    *)
(* stay in the table, and their ids are not reused.                        *)
(***************************************************************************)
EXTENDS Integers, Sequences, FiniteSets, SequencesExt

CONSTANTS
  Pages, Agents,  \* the clients
  Rows,
  MaxWrites,      \* bound: calls made
  MaxFaults       \* bound: connections lost, timeouts, rejections, and reloads
                  \* of a page that has lost nothing

ASSUME SyncAssumption ==
  /\ Pages \cap Agents = {} /\ Rows # {}
  /\ MaxWrites \in Nat /\ MaxFaults \in Nat

VARIABLES
  table,     \* the version of every row, None before it is created
  clock,     \* the time of the last write
  running,   \* actions whose onAction has written but not returned yet
  up,        \* the client's socket is open
  phase,     \* idle (an agent), loading, syncing, synced
  loaded,    \* the rows persist.getAll() read when the page was mounted
  value,     \* the rows a client holds
  disk,      \* the rows a page has persisted
  pending,   \* rpcCache: the calls that have not timed out
  toServer, toClient,  \* messages on their way
  called,    \* bound: calls made so far, and the id of the next one
  faults,    \* bound: faults so far
  whole      \* history: clients that have lost nothing they count on

server == <<table, clock, running>>
links == <<up, toServer, toClient>>
replicas == <<phase, loaded, value, disk>>
vars == <<server, links, replicas, pending, called, faults, whole>>

Clients == Pages \cup Agents
None == [at |-> 0, gone |-> FALSE, by |-> 0]
Live(v) == v.at > 0 /\ ~v.gone
NoRows == [r \in Rows |-> None]

Change(r, v) == [row |-> r, version |-> v]
SyncRequest(from) == [type |-> "sync", from |-> from]
Call(id, r, gone) == [type |-> "call", id |-> id, row |-> r, gone |-> gone]
Answer(type, id, changes) == [type |-> type, id |-> id, changes |-> changes]

Send(channels, c, m) == [channels EXCEPT ![c] = Append(@, m)]
Fault == faults < MaxFaults /\ faults' = faults + 1

\* The time of the newest row, deleted or not; 0 asks for everything.
LastRecordTime_Fault(rows) == IF rows = NoRows THEN 0 ELSE clock
LastRecordTime(rows) ==
  LET times == {rows[r].at : r \in Rows}
  IN  CHOOSE t \in times : \A s \in times : s <= t

\* A change of row r to its present version will reach the client.
OnItsWay(c, r) ==
  \/ \E i \in DOMAIN toClient[c] :
       Change(r, table[r]) \in toClient[c][i].changes
  \/ \E i \in DOMAIN running : running[i].change = Change(r, table[r])

-----------------------------------------------------------------------------
(* The server's onMessage.                                                  *)

\* SELECT ... WHERE deleted_at IS NULL AND updated_at > from
Newer(from) == {Change(r, table[r]) :
                r \in {s \in Rows : Live(table[s]) /\ table[s].at > from}}

ServerSyncs(c) ==
  /\ up[c] /\ toServer[c] # <<>> /\ Head(toServer[c]).type = "sync"
  /\ toClient' = Send(toClient, c,
                      Answer("sync", 0, Newer(Head(toServer[c]).from)))
  /\ toServer' = [toServer EXCEPT ![c] = Tail(@)]
  /\ UNCHANGED <<server, up, replicas, pending, called, faults, whole>>

\* A page that has not asked yet, or is not connected, is not told of a write
\* in the second of the newest row it loaded: `updated_at > from' skips it.
Skips(c, now) ==
  /\ c \in Pages /\ (phase[c] = "loading" \/ ~up[c])
  /\ now <= LastRecordTime(loaded[c])

\* onAction writes; until its promise settles other messages are handled.
Writable(m) == ~table[m.row].gone /\ (m.gone => Live(table[m.row]))

ServerActs(c) ==
  /\ up[c] /\ toServer[c] # <<>>
  /\ LET m == Head(toServer[c])
     IN  /\ m.type = "call" /\ Writable(m)
         /\ clock' \in {clock, clock + 1} \ {0}
         /\ table' = [table EXCEPT ![m.row] =
                        [at |-> clock', gone |-> m.gone, by |-> m.id]]
         /\ running' = Append(running,
              [client |-> c, id |-> m.id, caller |-> "there",
               change |-> Change(m.row, table'[m.row])])
  /\ toServer' = [toServer EXCEPT ![c] = Tail(@)]
  /\ whole' = [d \in Clients |-> whole[d] /\ ~Skips(d, clock')]
  /\ UNCHANGED <<up, toClient, replicas, pending, called, faults>>

\* onAction throws, or changes no row: the caller is told that.
ServerRefuses(c) ==
  /\ up[c] /\ toServer[c] # <<>>
  /\ LET m == Head(toServer[c])
     IN  /\ m.type = "call"
         /\ IF Writable(m) THEN Fault ELSE UNCHANGED faults
         /\ toClient' = Send(toClient, c, Answer("error", m.id, {}))
  /\ toServer' = [toServer EXCEPT ![c] = Tail(@)]
  /\ UNCHANGED <<server, up, replicas, pending, called, whole>>

\* onAction returns: answer the caller, then broadcast to all connections but
\* those with the caller's id: a socket that reconnects keeps its id, a page
\* that is loaded again has a new one.
Broadcast_Fault(k) == Send(toClient, k.client,
                           Answer("success", k.id, {k.change}))
Broadcast(k) ==
  [c \in Clients |->
     CASE c = k.client /\ k.caller = "there" ->
            Append(toClient[c], Answer("success", k.id, {k.change}))
       [] up[c] /\ (c = k.client => k.caller = "reloaded") ->
            Append(toClient[c], Answer("update", 0, {k.change}))
       [] OTHER -> toClient[c]]

\* An action that overtakes an earlier one shows the clients an old version
\* after a new one: they replace whatever they have.
ServerFinishes(i) ==
  /\ toClient' = Broadcast(running[i])
  /\ running' = RemoveAt(running, i)
  /\ whole' = IF i = 1 THEN whole ELSE [c \in Clients |-> FALSE]
  /\ UNCHANGED <<table, clock, up, toServer, replicas, pending, called, faults>>

\* The caller's connection is closed: send() throws, so does the error
\* answer, and the broadcast is never reached.
ServerAborts(i) ==
  /\ running[i].caller # "there"
  /\ running' = RemoveAt(running, i)
  /\ whole' = [c \in Clients |-> FALSE]
  /\ UNCHANGED <<table, clock, links, replicas, pending, called, faults>>

-----------------------------------------------------------------------------
(* The clients.                                                             *)

\* persist.getAll() answers: show what is live, ask for what is newer.
Loads(c) ==
  /\ phase[c] = "loading"
  /\ value' = [value EXCEPT ![c] = [r \in Rows |->
                 IF Live(loaded[c][r]) THEN loaded[c][r] ELSE None]]
  /\ toServer' = Send(toServer, c, SyncRequest(LastRecordTime(loaded[c])))
  /\ phase' = [phase EXCEPT ![c] = "syncing"]
  /\ UNCHANGED <<server, up, toClient, loaded, disk, pending, called, faults, whole>>

\* Agent.sync()
AgentAsks(c) ==
  /\ phase[c] = "idle" /\ up[c]
  /\ toServer' = Send(toServer, c, SyncRequest(0))
  /\ phase' = [phase EXCEPT ![c] = "syncing"]
  /\ UNCHANGED <<server, up, toClient, loaded, value, disk, pending, called,
                 faults, whole>>

Merge_Fault(rows, changes) ==
  [r \in Rows |-> IF rows[r] = None /\ (\E x \in changes : x.row = r)
                  THEN (CHOOSE x \in changes : x.row = r).version ELSE rows[r]]
Merge(rows, changes) ==
  [r \in Rows |-> IF \E x \in changes : x.row = r
                  THEN (CHOOSE x \in changes : x.row = r).version ELSE rows[r]]

\* The next message of the server is one of these.
Takes(c, types) ==
  /\ up[c] /\ toClient[c] # <<>> /\ Head(toClient[c]).type \in types
  /\ toClient' = [toClient EXCEPT ![c] = Tail(@)]
  /\ UNCHANGED <<server, up, toServer, loaded, called, faults, whole>>

\* RPCClient: an answer counts only while it is awaited.
Settles(c, m) ==
  IF m.type = "success" /\ m.id \in pending[c] THEN m.changes ELSE {}
Answers(c) == pending' = [pending EXCEPT ![c] = @ \ {Head(toClient[c]).id}]

\* A page does not show deleted rows; it keeps them on disk.
Shown(rows) == [r \in Rows |-> IF Live(rows[r]) THEN rows[r] ELSE None]

Shows(c, changes) == value' = [value EXCEPT ![c] = Shown(Merge(@, changes))]
Persists(c, changes) == disk' = [disk EXCEPT ![c] = Merge(@, changes)]

PageIsSynced(c) ==
  /\ Takes(c, {"sync"})
  /\ Shows(c, Head(toClient[c]).changes) /\ Persists(c, Head(toClient[c]).changes)
  /\ phase' = [phase EXCEPT ![c] = "synced"]
  /\ UNCHANGED pending

PageFollows(c) ==
  /\ Takes(c, {"update"})
  /\ Shows(c, Head(toClient[c]).changes) /\ Persists(c, Head(toClient[c]).changes)
  /\ UNCHANGED <<phase, pending>>

PageIsAnswered(c) ==
  /\ Takes(c, {"success", "error"}) /\ Answers(c)
  /\ LET changes == Settles(c, Head(toClient[c]))
     IN  Shows(c, changes) /\ Persists(c, changes)
  /\ UNCHANGED phase

\* An agent has nothing to merge into until its sync was answered.
AgentIsSynced(c) ==
  /\ Takes(c, {"sync"})
  /\ value' = [value EXCEPT ![c] = Merge(NoRows, Head(toClient[c]).changes)]
  /\ phase' = [phase EXCEPT ![c] = "synced"]
  /\ UNCHANGED <<disk, pending>>

AgentFollows(c) ==
  /\ Takes(c, {"update"})
  /\ value' = IF phase[c] = "synced"
              THEN [value EXCEPT ![c] = Merge(@, Head(toClient[c]).changes)]
              ELSE value
  /\ UNCHANGED <<phase, disk, pending>>

AgentIsAnswered(c) ==
  /\ Takes(c, {"success", "error"}) /\ Answers(c)
  /\ value' = IF phase[c] = "synced"
              THEN [value EXCEPT ![c] = Merge(@, Settles(c, Head(toClient[c])))]
              ELSE value
  /\ UNCHANGED <<phase, disk>>

PageReceives(c) == PageIsSynced(c) \/ PageFollows(c) \/ PageIsAnswered(c)
AgentReceives(c) == AgentIsSynced(c) \/ AgentFollows(c) \/ AgentIsAnswered(c)

\* rpc.call(); an agent's sendAction() has sent its sync request before.
Calls(c, r, gone) ==
  /\ called < MaxWrites
  /\ c \in Agents => up[c] /\ phase[c] # "idle" /\ pending[c] = {}
  /\ called' = called + 1
  /\ pending' = [pending EXCEPT ![c] = @ \cup {called'}]
  /\ toServer' = Send(toServer, c, Call(called', r, gone))
  /\ UNCHANGED <<server, up, toClient, replicas, faults, whole>>

\* A call that times out forgets its resolver: the change, which the caller
\* is not sent in a broadcast, never reaches it.
TimesOut(c, id) ==
  /\ Fault
  /\ pending' = [pending EXCEPT ![c] = @ \ {id}]
  /\ whole' = [whole EXCEPT ![c] = FALSE]
  /\ UNCHANGED <<server, links, replicas, called>>

\* The socket breaks with all that is on its way.  It comes back by itself,
\* but nothing is asked for again.
Lost(c, why) ==
  [i \in DOMAIN running |->
     IF running[i].client = c THEN [running[i] EXCEPT !.caller = why]
     ELSE running[i]]

Drops(c) ==
  /\ up[c] /\ Fault
  /\ up' = [up EXCEPT ![c] = FALSE]
  /\ toServer' = [toServer EXCEPT ![c] = <<>>]
  /\ toClient' = [toClient EXCEPT ![c] = <<>>]
  /\ running' = Lost(c, "dropped")
  /\ whole' = [whole EXCEPT ![c] = FALSE]
  /\ UNCHANGED <<table, clock, replicas, pending, called>>

\* The socket of a page opens, for the first time or again.
Opens(c) ==
  /\ c \in Pages /\ ~up[c]
  /\ up' = [up EXCEPT ![c] = TRUE]
  /\ UNCHANGED <<server, toServer, toClient, replicas, pending, called, faults,
                 whole>>

\* The page is loaded again, and its rows are read from disk.  The next sync
\* starts after the newest of them: an older row that is not among them is not
\* asked for any more.  It is left out when a broadcast was persisted before
\* the sync was answered, and when its change was still on its way.
SyncGap(c) ==
  \/ phase[c] # "synced" /\ disk[c] # loaded[c]
  \/ \E r \in Rows : /\ Live(table[r]) /\ OnItsWay(c, r)
                     /\ table[r].at <= LastRecordTime(disk[c])
                     /\ disk[c][r] # table[r]

\* A page that had lost something asks for all of it now: its disk lacks no row
\* as old as its newest, and no action runs that could return out of order.
AsksForAll(c) ==
  /\ running = <<>>
  /\ \A r \in Rows : Live(table[r]) =>
       disk[c][r] = table[r] \/ LastRecordTime(disk[c]) < table[r].at

Reloads(c) ==
  /\ c \in Pages /\ (IF whole[c] THEN Fault ELSE UNCHANGED faults)
  /\ up' = [up EXCEPT ![c] = FALSE]
  /\ toServer' = [toServer EXCEPT ![c] = <<>>]
  /\ toClient' = [toClient EXCEPT ![c] = <<>>]
  /\ running' = Lost(c, "reloaded")
  /\ phase' = [phase EXCEPT ![c] = "loading"]
  /\ loaded' = [loaded EXCEPT ![c] = disk[c]]
  /\ value' = [value EXCEPT ![c] = NoRows]
  /\ pending' = [pending EXCEPT ![c] = {}]
  /\ whole' = [whole EXCEPT ![c] = (@ /\ ~SyncGap(c)) \/ AsksForAll(c)]
  /\ UNCHANGED <<table, clock, disk, called>>

-----------------------------------------------------------------------------

Init ==
  /\ table = NoRows /\ clock = 0 /\ running = <<>>
  /\ up = [c \in Clients |-> c \in Agents]
  /\ phase = [c \in Clients |-> IF c \in Agents THEN "idle" ELSE "loading"]
  /\ loaded = [c \in Pages |-> NoRows]
  /\ value = [c \in Clients |-> NoRows]
  /\ disk = [c \in Pages |-> NoRows]
  /\ pending = [c \in Clients |-> {}]
  /\ toServer = [c \in Clients |-> <<>>]
  /\ toClient = [c \in Clients |-> <<>>]
  /\ called = 0 /\ faults = 0
  /\ whole = [c \in Clients |-> TRUE]

Handles(c) == ServerSyncs(c) \/ ServerActs(c) \/ ServerRefuses(c)

Next ==
  \/ \E c \in Clients : Handles(c)
  \/ \E i \in DOMAIN running : ServerFinishes(i) \/ ServerAborts(i)
  \/ \E c \in Pages : Loads(c) \/ PageReceives(c)
  \/ \E c \in Agents : AgentAsks(c) \/ AgentReceives(c)
  \/ \E c \in Clients, r \in Rows, gone \in BOOLEAN : Calls(c, r, gone)
  \/ \E c \in Clients : \E id \in pending[c] : TimesOut(c, id)
  \/ \E c \in Clients : Drops(c) \/ Opens(c) \/ Reloads(c)

Spec == Init /\ [][Next]_vars

(* Messages are delivered, disks are read, and onAction returns.  No client *)
(* has to call, and no agent has to sync.                                   *)
Fairness ==
  /\ \A c \in Clients : WF_vars(Handles(c))
  /\ \A c \in Pages : WF_vars(Opens(c)) /\ WF_vars(Loads(c)) /\ WF_vars(PageReceives(c))
  /\ \A c \in Agents : WF_vars(AgentReceives(c))
  /\ WF_vars(\E i \in DOMAIN running : ServerFinishes(i) \/ ServerAborts(i))

FairSpec == Spec /\ Fairness

-----------------------------------------------------------------------------

\* The client will still ask for it, from a time before it.
ToBeAsked(c, r) ==
  \/ phase[c] = "idle"
  \/ phase[c] = "loading" /\ LastRecordTime(loaded[c]) < table[r].at
  \/ \E i \in DOMAIN toServer[c] :
       toServer[c][i].type = "sync" /\ toServer[c][i].from < table[r].at

(* A client that has lost nothing holds every live row at its present       *)
(* version, or will be sent it: the order of the sync answer and the        *)
(* broadcasts leaves no gap, and the time of the newest persisted row none  *)
(* but those `whole' names: a row written in the same second while the page *)
(* is not connected (Skips), a row of that time or older that is not        *)
(* persisted with it (SyncGap), and what breaks with a connection, a        *)
(* timed-out call or an action that overtakes another.  A page that had     *)
(* lost something counts again when it is loaded from a disk without gaps.  *)
LiveRowsArrive ==
  \A c \in Clients, r \in Rows :
    whole[c] /\ Live(table[r]) =>
      \/ value[c][r] = table[r] \/ OnItsWay(c, r) \/ ToBeAsked(c, r)
      \/ c \in Pages /\ phase[c] = "loading" /\ loaded[c][r] = table[r]

(* Such a client never holds a version that was replaced or deleted without *)
(* the change being on its way, as long as a page was not loaded again: a   *)
(* sync answer tells nothing of deleted rows.                               *)
OldRowsGo ==
  \A c \in Clients, r \in Rows :
    whole[c] /\ (c \in Pages => loaded[c] = NoRows) /\ value[c][r] # None =>
      value[c][r] = table[r] \/ OnItsWay(c, r) \/ ToBeAsked(c, r)

(* Once nobody calls any more, the clients that have lost nothing, in the   *)
(* sense of LiveRowsArrive, all come to hold the rows of the table: also a  *)
(* page that lost its connection and was loaded again without a gap.        *)
Converges ==
  \A c \in Clients :
    <>[](whole[c] /\ phase[c] # "idle") =>
      <>[](\A r \in Rows : Live(table[r]) => value[c][r] = table[r])
=============================================================================
