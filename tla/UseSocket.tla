------------------------------ MODULE UseSocket ------------------------------
(***************************************************************************)
(* partysocket's React hooks, usePartySocket and useWebSocket: one         *)
(* component that renders with some options and `enabled', and the sockets *)
(* useStableSocket (use-socket.ts) makes for it.  A socket is seen as its  *)
(* Link: connecting by itself while it is wanted, buffering while it is    *)
(* not up.                                                                 *)
(*                                                                         *)
(* React commits a render, runs the effects of that render some time       *)
(* later, but before the next one, and renders again when an effect called *)
(* setSocket(); the component may get new props in that same render.       *)
(* Effects also run again for the same render (StrictMode, Fast Refresh).  *)
(***************************************************************************)
EXTENDS Integers, Sequences

CONSTANTS
  Hook,         \* "usePartySocket" or "useWebSocket"
  Options,      \* what createSocketMemoKey tells apart: destination,
                \* credentials, startClosed
  Messages,     \* payloads, each sent at most once
  Transfer,     \* options.transferEnqueuedMessages
  MaxChanges,   \* bound: renders with other props
  MaxRefreshes, \* bound: effects run again without a render
  MaxDrops      \* bound: connections lost

Nowhere == "nowhere"

ASSUME OptionsAssumption ==
  \A o \in Options : o.startClosed \in BOOLEAN /\ o.destination # Nowhere
ASSUME BoundsAssumption ==
  /\ Hook \in {"usePartySocket", "useWebSocket"}
  /\ Transfer \in {"undefined", "true", "false"}
  /\ MaxChanges \in Nat /\ MaxRefreshes \in Nat /\ MaxDrops \in Nat

VARIABLES
  mounted,       \* the component is there
  rendered,      \* the last commit: socket, options, enabled
  dirty,         \* its effects have not run yet
  socket,        \* the state of useState: the socket of the next render
  cleanup,       \* the socket the last effect's cleanup will close
  initialized,   \* socketInitializedRef, 0 for null
  prevEnabled,   \* prevEnabledRef
  prevOptions,   \* prevSocketOptionsRef
  drifted,       \* optionsChangedWhileDisabledRef
  createdWith,   \* socketCreatedWithOptionsRef
  sockets,       \* every socket made
  attached,      \* the socket the consumer's handlers are attached to, or 0
  heard,         \* the last thing the consumer heard was onOpen
  sentTo,        \* history: the destination of the socket m was passed to
  reached,       \* history: the destinations m was transmitted to
  missed,        \* history: options changed under a socket not yet set up
  changes, refreshes, drops

refs == <<cleanup, initialized, prevEnabled, prevOptions, drifted, createdWith>>
handlers == <<attached, heard>>
histories == <<sentTo, reached>>
bounds == <<changes, refreshes, drops>>
vars == <<mounted, rendered, dirty, socket, refs, sockets, handlers, histories,
          missed, bounds>>

NewSocket(options, buffer) ==
  [options |-> options, wanted |-> FALSE, up |-> FALSE, buffer |-> buffer]

-----------------------------------------------------------------------------
(* The sockets.  close() and reconnect() dispatch the close event of a      *)
(* connection that is up at once.                                           *)

Closed(ss, s) == [ss EXCEPT ![s].wanted = FALSE, ![s].up = FALSE]
Reconnected(ss, s) == [ss EXCEPT ![s].wanted = TRUE, ![s].up = FALSE]

Destination(s) == sockets[s].options.destination

\* The handshake ends: the buffer goes out before the open event.
Opens(s) ==
  /\ sockets[s].wanted /\ ~sockets[s].up
  /\ sockets' = [sockets EXCEPT ![s].up = TRUE, ![s].buffer = <<>>]
  /\ reached' = [m \in Messages |->
       IF \E i \in DOMAIN sockets[s].buffer : sockets[s].buffer[i] = m
       THEN Append(reached[m], Destination(s)) ELSE reached[m]]
  /\ heard' = (heard \/ s = attached)
  /\ UNCHANGED <<mounted, rendered, dirty, socket, refs, attached, sentTo,
                 missed, bounds>>

Drops(s) ==
  /\ sockets[s].up /\ drops < MaxDrops
  /\ drops' = drops + 1
  /\ sockets' = [sockets EXCEPT ![s].up = FALSE]
  /\ heard' = (heard /\ s # attached)
  /\ UNCHANGED <<mounted, rendered, dirty, socket, refs, attached, histories,
                 missed, changes, refreshes>>

\* The consumer has the socket of the last render.
Send(m) ==
  /\ mounted /\ sentTo[m] = Nowhere
  /\ LET s == rendered.socket
     IN  /\ sentTo' = [sentTo EXCEPT ![m] = Destination(s)]
         /\ IF sockets[s].up
            THEN /\ reached' = [reached EXCEPT ![m] = Append(@, Destination(s))]
                 /\ UNCHANGED sockets
            ELSE /\ sockets' = [sockets EXCEPT ![s].buffer = Append(@, m)]
                 /\ UNCHANGED reached
  /\ UNCHANGED <<mounted, rendered, dirty, socket, refs, handlers, missed,
                 bounds>>

-----------------------------------------------------------------------------
(* createReplacementSocket()                                                *)

\* Against the options the socket was made with: those of the last effect may
\* have drifted while it was disabled.
\* useWebSocket's key is that of the present render, whatever it is asked for.
DestinationKey(options) ==
  IF Hook = "useWebSocket" THEN rendered.options.destination
                           ELSE options.destination

SameDestination_Fault ==
  DestinationKey(prevOptions) = DestinationKey(rendered.options)
SameDestination ==
  DestinationKey(createdWith) = DestinationKey(rendered.options)

ShouldTransfer ==
  Transfer = "true" \/ (Transfer = "undefined" /\ SameDestination)

\* The old socket is drained in any case.
Replaced(ss, s) ==
  Append([ss EXCEPT ![s].buffer = <<>>],
         NewSocket(rendered.options,
                   IF ShouldTransfer THEN ss[s].buffer ELSE <<>>))

-----------------------------------------------------------------------------
(* The effect of useStableSocket, after its cleanup left the sockets ss.    *)

OptionsChanged == prevOptions # rendered.options
SettingUp ==
  rendered.enabled /\ prevEnabled /\ initialized # rendered.socket

Keeps(ss) ==
  /\ sockets' = ss
  /\ cleanup' = rendered.socket
  /\ UNCHANGED <<socket, createdWith>>
  /\ missed' = (missed \/ (OptionsChanged /\ SettingUp))

Replaces(ss) ==
  /\ sockets' = Replaced(ss, rendered.socket)
  /\ socket' = Len(sockets')
  /\ cleanup' = socket'
  /\ createdWith' = rendered.options
  /\ missed' = FALSE

Disabled(ss) ==
  /\ ~rendered.enabled
  /\ Keeps(Closed(ss, rendered.socket))
  /\ drifted' = (drifted \/ OptionsChanged)
  /\ UNCHANGED initialized

NeedsNewSocket_Fault == OptionsChanged
NeedsNewSocket == OptionsChanged \/ drifted

Reenabled(ss) ==
  /\ rendered.enabled /\ ~prevEnabled
  /\ drifted' = FALSE
  /\ IF NeedsNewSocket THEN Replaces(ss)
     ELSE Keeps(Reconnected(ss, rendered.socket))
  /\ UNCHANGED initialized

\* The socket is set up: it is replaced when the options changed, and
\* otherwise reconnected after the effects ran again.
Rerun(ss) ==
  /\ rendered.enabled /\ prevEnabled /\ initialized = rendered.socket
  /\ IF OptionsChanged THEN Replaces(ss)
     ELSE Keeps(IF rendered.options.startClosed THEN ss
                ELSE Reconnected(ss, rendered.socket))
  /\ UNCHANGED <<initialized, drifted>>

\* The first mount, or a replacement, whatever the options are by now.
SetUp(ss) ==
  /\ SettingUp
  /\ Keeps(IF initialized = 0 /\ rendered.options.startClosed THEN ss
           ELSE Reconnected(ss, rendered.socket))
  /\ initialized' = rendered.socket
  /\ UNCHANGED drifted

\* All cleanups run, then all effects: useStableSocket's first, and those of
\* useAttachWebSocketEventHandlers second.
HeardAfter_Fault(closed) == heard
HeardAfter(closed) ==
  heard /\ ~(closed = attached /\ attached # 0 /\ sockets[closed].up)

CleanedUp == IF cleanup = 0 THEN sockets ELSE Closed(sockets, cleanup)

Flush ==
  /\ LET ss == CleanedUp
     IN  Disabled(ss) \/ Reenabled(ss) \/ Rerun(ss) \/ SetUp(ss)
  /\ prevEnabled' = rendered.enabled
  /\ prevOptions' = rendered.options
  /\ heard' = HeardAfter(cleanup)
  /\ attached' = rendered.socket
  /\ UNCHANGED <<mounted, rendered, histories, changes, drops>>

RunEffects ==
  /\ mounted /\ dirty
  /\ dirty' = FALSE
  /\ Flush
  /\ UNCHANGED refreshes

Refresh ==
  /\ mounted /\ ~dirty /\ socket = rendered.socket
  /\ refreshes < MaxRefreshes /\ refreshes' = refreshes + 1
  /\ Flush
  /\ UNCHANGED dirty

-----------------------------------------------------------------------------
(* React.                                                                   *)

\* The state changed, or the parent renders with other props, or both.
Render(options, enabled) ==
  /\ mounted /\ ~dirty
  /\ rendered' = [socket |-> socket, options |-> options, enabled |-> enabled]
  /\ rendered' # rendered
  /\ IF options = rendered.options /\ enabled = rendered.enabled
     THEN UNCHANGED changes
     ELSE changes < MaxChanges /\ changes' = changes + 1
  /\ dirty' = TRUE
  /\ UNCHANGED <<mounted, socket, refs, sockets, handlers, histories, missed,
                 refreshes, drops>>

Unmount ==
  /\ mounted /\ ~dirty
  /\ mounted' = FALSE
  /\ sockets' = CleanedUp
  /\ heard' = HeardAfter(cleanup)
  /\ attached' = 0
  /\ UNCHANGED <<rendered, dirty, socket, refs, histories, missed, bounds>>

\* The first render made a socket that does not connect.
Init ==
  /\ mounted = TRUE /\ dirty = TRUE
  /\ rendered \in [socket : {1}, options : Options, enabled : BOOLEAN]
  /\ socket = 1
  /\ cleanup = 0 /\ initialized = 0
  /\ prevEnabled = rendered.enabled /\ prevOptions = rendered.options
  /\ drifted = FALSE /\ createdWith = rendered.options
  /\ sockets = <<NewSocket(rendered.options, <<>>)>>
  /\ attached = 0 /\ heard = FALSE
  /\ sentTo = [m \in Messages |-> Nowhere]
  /\ reached = [m \in Messages |-> <<>>]
  /\ missed = FALSE
  /\ changes = 0 /\ refreshes = 0 /\ drops = 0

Next ==
  \/ \E o \in Options, on \in BOOLEAN : Render(o, on)
  \/ RunEffects \/ Refresh \/ Unmount
  \/ \E m \in Messages : Send(m)
  \/ \E s \in DOMAIN sockets : Opens(s) \/ Drops(s)

Spec == Init /\ [][Next]_vars

-----------------------------------------------------------------------------

SocketRecords ==
  [options : Options, wanted : BOOLEAN, up : BOOLEAN, buffer : Seq(Messages)]

\* The socket of the last render, that of the state, and the others.
RefsOK ==
  /\ rendered \in [socket : DOMAIN sockets, options : Options, enabled : BOOLEAN]
  /\ socket \in DOMAIN sockets
  /\ {cleanup, initialized, attached} \subseteq {0} \cup DOMAIN sockets
  /\ prevEnabled \in BOOLEAN /\ prevOptions \in Options
  /\ drifted \in BOOLEAN /\ createdWith \in Options

HistoriesOK ==
  /\ sentTo \in [Messages -> {Nowhere} \cup {o.destination : o \in Options}]
  /\ reached \in [Messages -> Seq({o.destination : o \in Options})]
  /\ missed \in BOOLEAN

TypeOK ==
  /\ mounted \in BOOLEAN /\ dirty \in BOOLEAN /\ heard \in BOOLEAN
  /\ sockets \in Seq(SocketRecords)
  /\ RefsOK /\ HistoriesOK

Settled == mounted /\ ~dirty /\ socket = rendered.socket

(* Once React has come to rest, the only socket that connects is the one    *)
(* the component has, while it is enabled; it was made for the options in   *)
(* force, unless they changed while its effect had not run with it yet.     *)
(* Meanwhile there is never more than one, and after unmounting none.       *)
ConnectsAsRendered ==
  /\ \A s, t \in DOMAIN sockets : sockets[s].wanted /\ sockets[t].wanted => s = t
  /\ ~mounted => \A s \in DOMAIN sockets : ~sockets[s].wanted
  /\ Settled =>
       /\ \A s \in DOMAIN sockets :
            sockets[s].wanted => s = rendered.socket /\ rendered.enabled
       /\ rendered.enabled /\ ~rendered.options.startClosed =>
            sockets[rendered.socket].wanted
       /\ rendered.enabled /\ ~missed =>
            sockets[rendered.socket].options = rendered.options

(* A message is transmitted at most once, and unless told otherwise only to *)
(* the destination of the socket it was passed to, however often the socket *)
(* was replaced, disabled and connected again before.                       *)
Waiting(m, s) == \E i \in DOMAIN sockets[s].buffer : sockets[s].buffer[i] = m
MessagesKeepTheirDestination ==
  \A m \in Messages :
    /\ Len(reached[m]) <= 1
    /\ reached[m] # <<>> =>
         /\ \A s \in DOMAIN sockets : ~Waiting(m, s)
         /\ Transfer = "true" \/ reached[m] = <<sentTo[m]>>

(* The consumer, whose handlers follow the socket, was told last of an open *)
(* connection exactly while its socket has one: it hears the close of the   *)
(* socket a cleanup takes down, although its handlers are removed next.     *)
KnowsWhenDown == heard <=> attached # 0 /\ sockets[attached].up
=============================================================================
