------------------------------- MODULE YSync --------------------------------
(***************************************************************************)
(* y-partyserver: how a YServer and its WebsocketProviders bring a Yjs     *)
(* document together.  Each side sends its state vector (sync step 1) and  *)
(* is answered with what it lacks (step 2); afterwards updates are sent as *)
(* they are made, and the server relays them to every connection.  The     *)
(* server's document is in memory only between wakes: hibernation keeps    *)
(* the connections and forgets it, a crash loses both, and onSave(), which *)
(* is debounced, may or may not have stored it.                            *)
(*                                                                         *)
(* A document is the set of the updates it was given; <<c, n>> is the n-th *)
(* update client c made.                                                   *)
(***************************************************************************)
EXTENDS Integers, Sequences, SequencesExt

CONSTANTS
  Clients,
  Limited,     \* clients that isReadOnly() may be true of
  MaxEdits,    \* bound: the number of updates each client makes
  MaxFaults    \* bound: connections lost, hibernations and crashes

ASSUME SyncAssumption ==
  /\ Limited \subseteq Clients
  /\ MaxEdits \in [Clients -> Nat] /\ MaxFaults \in Nat

VARIABLES
  readOnly,  \* clients that isReadOnly() is true of; it never changes
  awake,     \* the server is in memory, and has started
  sdoc,      \* this.document of the server, when awake
  disk,      \* what onLoad() returns
  dirty,     \* the debounced save is pending
  conn,      \* "closed", accepted by the server but not "open" at the client
  docs,      \* provider.doc
  synced,    \* provider.synced
  toServer,  \* messages of the client on their way
  toClient,  \* messages to the client on their way
  faults     \* how many of them there were

server == <<awake, sdoc, disk, dirty>>
links == <<conn, toServer, toClient>>
vars == <<readOnly, server, links, docs, synced, faults>>

Updates == UNION {{c} \X (1..MaxEdits[c]) : c \in Clients}

\* A document integrates an update once it has all the earlier ones of its
\* author, and keeps it pending until then; the state vector names the former.
Integrated(doc) == {u \in doc : \A n \in 1..u[2] : <<u[1], n>> \in doc}

Step1(doc) == [type |-> "step1", content |-> Integrated(doc)]
Step2_Empty(doc, sv) == [type |-> "step2", content |-> doc \cap sv]
Step2(doc, sv) == [type |-> "step2", content |-> doc \ sv]
Update(s) == [type |-> "update", content |-> s]
Messages == [type : {"step1", "step2", "update"}, content : SUBSET Updates]

Connected(c) == conn[c] # "closed"

\* The updates in the messages of a channel, and those a state vector on the
\* channel says are missing.
Carried(channel) ==
  UNION {m.content : m \in {x \in ToSet(channel) : x.type # "step1"}}
Asked(channel) ==
  UNION {Updates \ m.content : m \in {x \in ToSet(channel) : x.type = "step1"}}

\* The channels to the clients after `m' is sent to every connection.
ToAll(channels, m) ==
  [c \in Clients |-> IF Connected(c) THEN Append(channels[c], m) ELSE channels[c]]

-----------------------------------------------------------------------------
(* The server.                                                              *)

\* onStart() loads the document and asks every connection for what it has;
\* on an awake server nothing happens.
StartedDoc_NoLoad == IF awake THEN sdoc ELSE {}
StartedDoc == IF awake THEN sdoc ELSE disk
StartedChannels_NoResync == toClient
StartedChannels == IF awake THEN toClient ELSE ToAll(toClient, Step1(disk))

\* applyUpdate() of `s', whose `update' event relays what was integrated to
\* every connection and has the document saved later.
ApplyUpdate_NoRelay(doc, channels, s) ==
  LET new == Integrated(doc \cup s) \ Integrated(doc)
  IN  /\ sdoc' = doc \cup s
      /\ toClient' = channels
      /\ dirty' = (dirty \/ new # {})
ApplyUpdate(doc, channels, s) ==
  LET new == Integrated(doc \cup s) \ Integrated(doc)
  IN  /\ sdoc' = doc \cup s
      /\ toClient' = IF new = {} THEN channels ELSE ToAll(channels, Update(new))
      /\ dirty' = (dirty \/ new # {})

\* handleMessage(), for sync messages; a message wakes a hibernated server.
Reads_ReadOnly(c, m) == m.type # "step1"
Reads(c, m) == m.type # "step1" /\ c \notin readOnly

ServerReceives(c) ==
  /\ Connected(c) /\ toServer[c] # <<>>
  /\ toServer' = [toServer EXCEPT ![c] = Tail(@)]
  /\ awake' = TRUE
  /\ LET m == Head(toServer[c]) IN
     \/ /\ m.type = "step1"
        /\ toClient' = [StartedChannels EXCEPT
                          ![c] = Append(@, Step2(StartedDoc, m.content))]
        /\ sdoc' = StartedDoc /\ UNCHANGED dirty
     \/ /\ Reads(c, m)
        /\ ApplyUpdate(StartedDoc, StartedChannels, m.content)
     \/ /\ m.type # "step1" /\ ~Reads(c, m)
        /\ toClient' = StartedChannels
        /\ sdoc' = StartedDoc /\ UNCHANGED dirty
  /\ UNCHANGED <<readOnly, disk, conn, docs, synced, faults>>

\* The upgrade of a client: onConnect() sends the server's state vector.
Accept(c) ==
  /\ conn[c] = "closed"
  /\ conn' = [conn EXCEPT ![c] = "accepted"]
  /\ awake' = TRUE /\ sdoc' = StartedDoc
  /\ toClient' = [StartedChannels EXCEPT ![c] = <<Step1(StartedDoc)>>]
  /\ UNCHANGED <<readOnly, disk, dirty, toServer, docs, synced, faults>>

\* The debounced onSave(); when it fails, or is not implemented, nothing is
\* stored and nothing is tried again.
Save ==
  /\ dirty /\ dirty' = FALSE
  /\ disk' \in {sdoc, disk}
  /\ UNCHANGED <<readOnly, awake, sdoc, links, docs, synced, faults>>

\* The platform forgets an idle server (no timer is pending) and keeps its
\* connections.
Hibernate ==
  /\ awake /\ ~dirty /\ faults < MaxFaults
  /\ awake' = FALSE /\ sdoc' = {}
  /\ faults' = faults + 1
  /\ UNCHANGED <<readOnly, disk, dirty, links, docs, synced>>

\* The server goes, with all its connections.
Crash ==
  /\ awake /\ faults < MaxFaults
  /\ awake' = FALSE /\ sdoc' = {} /\ dirty' = FALSE
  /\ conn' = [c \in Clients |-> "closed"]
  /\ synced' = [c \in Clients |-> FALSE]
  /\ toServer' = [c \in Clients |-> <<>>] /\ toClient' = [c \in Clients |-> <<>>]
  /\ faults' = faults + 1
  /\ UNCHANGED <<readOnly, disk, docs>>

-----------------------------------------------------------------------------
(* The provider.                                                            *)

\* The open event: step 1 is sent.
Open_NoStep1(c) ==
  /\ conn[c] = "accepted"
  /\ conn' = [conn EXCEPT ![c] = "open"]
  /\ UNCHANGED <<readOnly, server, toServer, toClient, docs, synced, faults>>
Open(c) ==
  /\ conn[c] = "accepted"
  /\ conn' = [conn EXCEPT ![c] = "open"]
  /\ toServer' = [toServer EXCEPT ![c] = Append(@, Step1(docs[c]))]
  /\ UNCHANGED <<readOnly, server, toClient, docs, synced, faults>>

\* The next local update; it is sent when the provider is connected.
Edit(c) ==
  \E u \in Updates :
    /\ u[1] = c /\ u \notin docs[c] /\ \A n \in 1..(u[2] - 1) : <<c, n>> \in docs[c]
    /\ docs' = [docs EXCEPT ![c] = @ \cup {u}]
    /\ toServer' = IF conn[c] = "open"
                   THEN [toServer EXCEPT ![c] = Append(@, Update({u}))]
                   ELSE toServer
    /\ UNCHANGED <<readOnly, server, conn, toClient, synced, faults>>

\* readMessage(): a state vector is answered, anything else is applied, with
\* the provider as its origin, so that it is not sent again.
ClientReceives(c) ==
  /\ conn[c] = "open" /\ toClient[c] # <<>>
  /\ toClient' = [toClient EXCEPT ![c] = Tail(@)]
  /\ LET m == Head(toClient[c]) IN
     \/ /\ m.type = "step1"
        /\ toServer' = [toServer EXCEPT ![c] =
                          Append(@, Step2(docs[c], m.content))]
        /\ UNCHANGED <<docs, synced>>
     \/ /\ m.type # "step1"
        /\ docs' = [docs EXCEPT ![c] = @ \cup m.content]
        /\ synced' = [synced EXCEPT ![c] = @ \/ m.type = "step2"]
        /\ UNCHANGED toServer
  /\ UNCHANGED <<readOnly, server, conn, faults>>

\* The connection is lost, with what was on its way.
Drop(c) ==
  /\ Connected(c) /\ faults < MaxFaults
  /\ conn' = [conn EXCEPT ![c] = "closed"]
  /\ synced' = [synced EXCEPT ![c] = FALSE]
  /\ toServer' = [toServer EXCEPT ![c] = <<>>]
  /\ toClient' = [toClient EXCEPT ![c] = <<>>]
  /\ faults' = faults + 1
  /\ UNCHANGED <<readOnly, server, docs>>

-----------------------------------------------------------------------------

Init ==
  /\ readOnly \in SUBSET Limited
  /\ awake = FALSE /\ sdoc = {} /\ disk = {} /\ dirty = FALSE
  /\ conn = [c \in Clients |-> "closed"]
  /\ docs = [c \in Clients |-> {}]
  /\ synced = [c \in Clients |-> FALSE]
  /\ toServer = [c \in Clients |-> <<>>]
  /\ toClient = [c \in Clients |-> <<>>]
  /\ faults = 0

Next ==
  \/ \E c \in Clients :
       \/ Accept(c) \/ Open(c) \/ Edit(c) \/ Drop(c)
       \/ ServerReceives(c) \/ ClientReceives(c)
  \/ Save \/ Hibernate \/ Crash

Spec == Init /\ [][Next]_vars

(* The provider reconnects for ever, and the platform delivers messages.    *)
Fairness ==
  \A c \in Clients :
    /\ WF_vars(Accept(c)) /\ WF_vars(Open(c))
    /\ WF_vars(ServerReceives(c)) /\ WF_vars(ClientReceives(c))

FairSpec == Spec /\ Fairness

-----------------------------------------------------------------------------

TypeOK ==
  /\ readOnly \subseteq Limited
  /\ awake \in BOOLEAN /\ dirty \in BOOLEAN
  /\ sdoc \subseteq Updates /\ disk \subseteq Updates
  /\ ~awake => sdoc = {} /\ ~dirty
  /\ conn \in [Clients -> {"closed", "accepted", "open"}]
  /\ docs \in [Clients -> SUBSET Updates]
  /\ synced \in [Clients -> BOOLEAN]
  /\ toServer \in [Clients -> Seq(Messages)]
  /\ toClient \in [Clients -> Seq(Messages)]
  /\ faults \in 0..MaxFaults

(* A provider that says it is synced has, or is being sent, all that the    *)
(* server has: also what the server learns later, through hibernation and   *)
(* with the relays that crossed the handshake.                              *)
SyncedMissesNothing ==
  \A c \in Clients :
    synced[c] => Integrated(sdoc) \subseteq docs[c] \cup Carried(toClient[c])

(* What a connected client has is on the server, on its way to it, or will  *)
(* be asked for by a state vector on its way to the client: nothing made    *)
(* offline, while connecting or before the server slept is left behind.     *)
ServerMissesNothing ==
  \A c \in Clients \ readOnly :
    awake /\ conn[c] = "open" =>
      docs[c] \subseteq sdoc \cup Carried(toServer[c]) \cup Asked(toClient[c])

(* Nothing a read-only client makes gets into the document.                 *)
ReadOnlyKeptOut ==
  \A u \in sdoc \cup disk \cup UNION {docs[c] : c \in Clients \ readOnly} :
    u[1] \notin readOnly

(* What was saved stays: a server that wakes never saves less than it was   *)
(* given by onLoad().                                                       *)
SavedStays == [][disk \subseteq disk']_disk

(* When connections and the server stop failing, all the clients that may   *)
(* write have the same document for good, and the others have all of it.    *)
Converges ==
  <>[](\A c \in Clients \ readOnly, d \in Clients :
         docs[c] \subseteq docs[d])
=============================================================================
