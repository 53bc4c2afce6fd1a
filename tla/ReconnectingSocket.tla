------------------------- MODULE ReconnectingSocket -------------------------
(***************************************************************************)
(* partysocket/src/ws.ts: a WebSocket that reconnects.  One instance of    *)
(* ReconnectingWebSocket owns an inner WebSocket (this._ws), which it      *)
(* replaces after a failure.  JavaScript runs one task at a time, so a     *)
(* handler is one step up to the point where it calls the consumer: there  *)
(* the consumer may call back into the socket, and `suspended' says what   *)
(* the handler has left to do.  One cell is enough: a handler that has     *)
(* something left to do has just taken the inner socket down, and only a   *)
(* call on a socket that is up suspends (SuspendedWhenDown).               *)
(*                                                                         *)
(* Callbacks after which the handler has nothing left to do (open, the     *)
(* native close, close()) are not recorded: a call made from them is a     *)
(* consumer's call between two tasks.                                      *)
(***************************************************************************)
EXTENDS Integers, Sequences

CONSTANTS
  Messages,        \* payloads, each accepted by send() at most once
  MaxRetries,      \* options.maxRetries
  MaxQueue,        \* options.maxEnqueuedMessages
  StartClosed,     \* options.startClosed
  Vetoes,          \* options.shouldReconnectOnClose may return false
  VisibleClosing,  \* the platform shows readyState CLOSING to the consumer
                   \* before it dispatches the close or error event
  InvalidCodes,    \* the consumer may pass a code WebSocket.close() throws on
  HandlersThrow    \* the consumer's onerror may throw

ASSUME ConstantsAssumption ==
  /\ MaxRetries \in Nat /\ MaxQueue \in Nat
  /\ StartClosed \in BOOLEAN /\ Vetoes \in BOOLEAN
  /\ VisibleClosing \in BOOLEAN /\ InvalidCodes \in BOOLEAN
  /\ HandlersThrow \in BOOLEAN

VARIABLES
  ws,              \* readyState of this._ws, "none" before there is one
  listening,       \* this._ws has our four listeners
  lock,            \* _connectLock
  waiting,         \* promise chains of _connect inside _wait()
  resolving,       \* promise chains awaiting the URL and protocol providers
  retryCount,      \* _retryCount
  shouldReconnect, \* _shouldReconnect
  closeCalled,     \* _closeCalled
  connectTimer,    \* the timer _connectTimeout refers to is running
  uptimeTimer,     \* the timer _uptimeTimeout refers to is running
  strayConnect,    \* a connect timer whose handle was overwritten is running
  strayUptime,     \* an uptime timer whose handle was overwritten is running
  queue,           \* _messageQueue
  suspended,       \* the handler waiting for a consumer's callback
  accepted,        \* history: messages send() took, in order
  out,             \* history: messages transmitted or drained, in order
  closeEvents      \* history: close events dispatched for this._ws (2 = more)

attemptVars == <<lock, waiting, resolving, retryCount>>
strayVars   == <<strayConnect, strayUptime>>
timerVars   == <<connectTimer, uptimeTimer, strayVars>>
queueVars   == <<queue, accepted, out>>
vars == <<ws, listening, attemptVars, shouldReconnect, closeCalled, timerVars,
          queueVars, suspended, closeEvents>>

Up   == {"connecting", "open"}
Down == {"none", "closing", "closed"}

\* reconnect: reconnect() in the close callback, _connect() to come;
\* disconnect: _handleError in the close callback, the error event to come;
\* error: _handleError in the error callback, _connect() to come.
Handlers == {"none", "reconnect", "disconnect", "error"}

Idle == suspended = "none"
Elems(s) == {s[i] : i \in 1..Len(s)}

-----------------------------------------------------------------------------
(* Pieces of handlers: each fixes the next value of the variables it names. *)

\* _clearTimeouts() reaches the two timers whose handles are still held.
ClearTimeouts_Fault == connectTimer' = FALSE /\ UNCHANGED uptimeTimer
ClearTimeouts == connectTimer' = FALSE /\ uptimeTimer' = FALSE

\* The early returns of _connect().
MayConnect_OffByOne(locked, should, rc) ==
  ~locked /\ should /\ rc + 1 < MaxRetries
MayConnect(locked, should, rc) == ~locked /\ should /\ rc < MaxRetries

\* _connect() up to its first await, entered with the given field values.
Connect(locked, should, rc, heard) ==
  LET starts == MayConnect(locked, should, rc)
  IN  /\ lock' = (locked \/ starts)
      /\ waiting' = IF starts THEN waiting + 1 ELSE waiting
      /\ retryCount' = IF starts THEN rc + 1 ELSE rc
      /\ listening' = (heard /\ ~starts)

DispatchClose_Fault ==
  closeEvents' = IF shouldReconnect' THEN closeEvents ELSE 1
DispatchClose == closeEvents' = IF closeEvents = 0 THEN 1 ELSE 2

\* _handleClose(): ask shouldReconnectOnClose, connect, dispatch close.
HandleClose(locked, should, rc, heard) ==
  /\ ClearTimeouts
  /\ \E agreed \in (IF Vetoes THEN BOOLEAN ELSE {TRUE}) :
       /\ shouldReconnect' = (should /\ agreed)
       /\ Connect(locked, should /\ agreed, rc, heard)
  /\ DispatchClose

\* _disconnect() calls WebSocket.close() on a socket that is up.
CloseInner_Fault(w) == IF w = "open" THEN "closing" ELSE w
CloseInner(w) == IF w \in Up THEN "closing" ELSE w

\* _handleError() with the inner socket in state w: _disconnect() (a close
\* event if there is a socket), then the error event, then _connect().
HandleError(locked, w) ==
  IF w = "none"
  THEN /\ ClearTimeouts
       /\ lock' = locked
       /\ suspended' = "error"
       /\ UNCHANGED <<ws, listening, waiting, retryCount, shouldReconnect,
                      closeEvents>>
  ELSE /\ ws' = CloseInner(w)
       /\ HandleClose(locked, shouldReconnect, retryCount, FALSE)
       /\ suspended' = "disconnect"

-----------------------------------------------------------------------------
(* The consumer's calls: between tasks, or from inside a callback.          *)

ValidCodes == IF InvalidCodes THEN BOOLEAN ELSE {TRUE}

\* close(code): with an invalid code WebSocket.close() throws inside
\* _disconnect(), whose catch swallows it after the listeners are gone.
Close(valid) ==
  /\ closeCalled' = TRUE
  /\ IF ws \in Up /\ valid
     THEN /\ ws' = "closing"
          /\ HandleClose(lock, FALSE, retryCount, FALSE)
     ELSE /\ shouldReconnect' = FALSE
          /\ ClearTimeouts
          /\ listening' = (listening /\ ws \in Down)
          /\ UNCHANGED <<ws, lock, waiting, retryCount, closeEvents>>
  /\ UNCHANGED <<resolving, strayVars, queueVars, suspended>>

Reconnect(valid) ==
  /\ closeCalled' = FALSE
  /\ \/ /\ ws \in Up /\ valid
        /\ ws' = "closing"
        /\ HandleClose(lock, TRUE, -1, FALSE)
        /\ suspended' = "reconnect"
     \/ /\ ws \in Up /\ ~valid
        /\ shouldReconnect' = TRUE
        /\ ClearTimeouts
        /\ Connect(lock, TRUE, -1, FALSE)
        /\ UNCHANGED <<ws, suspended, closeEvents>>
     \/ /\ ws \in Down
        /\ shouldReconnect' = TRUE
        /\ Connect(lock, TRUE, -1, listening)
        /\ UNCHANGED <<ws, connectTimer, uptimeTimer, suspended, closeEvents>>
  /\ UNCHANGED <<resolving, strayVars, queueVars>>

HasRoom == Len(queue) < MaxQueue

Send(m) ==
  /\ m \notin Elems(accepted)
  /\ IF ws = "open"
     THEN /\ out' = Append(out, m)
          /\ accepted' = Append(accepted, m)
          /\ UNCHANGED queue
     ELSE /\ HasRoom
          /\ queue' = Append(queue, m)
          /\ accepted' = Append(accepted, m)
          /\ UNCHANGED out
  /\ UNCHANGED <<ws, listening, attemptVars, shouldReconnect, closeCalled,
                 timerVars, suspended, closeEvents>>

DrainQueuedMessages ==
  /\ queue # <<>>
  /\ queue' = <<>>
  /\ out' = out \o queue
  /\ UNCHANGED <<ws, listening, attemptVars, shouldReconnect, closeCalled,
                 timerVars, accepted, suspended, closeEvents>>

\* The consumer's callback returns (or throws inside _disconnect's catch).
Return ==
  /\ \/ /\ suspended = "disconnect"
        /\ suspended' = "error"
        /\ UNCHANGED <<lock, waiting, retryCount, listening>>
     \/ /\ suspended \in {"reconnect", "error"}
        /\ suspended' = "none"
        /\ Connect(lock, shouldReconnect, retryCount, listening)
  /\ UNCHANGED <<ws, resolving, shouldReconnect, closeCalled, timerVars,
                 queueVars, closeEvents>>

\* onerror throws: the exception leaves _handleError before its _connect().
ErrorHandlerThrows ==
  /\ HandlersThrow
  /\ suspended = "error"
  /\ suspended' = "none"
  /\ UNCHANGED <<ws, listening, attemptVars, shouldReconnect, closeCalled,
                 timerVars, queueVars, closeEvents>>

-----------------------------------------------------------------------------
(* Tasks of the event loop: they start only when no handler is suspended.   *)

WaitElapses ==
  /\ Idle /\ waiting > 0
  /\ waiting' = waiting - 1
  /\ resolving' = resolving + 1
  /\ UNCHANGED <<ws, listening, lock, retryCount, shouldReconnect, closeCalled,
                 timerVars, queueVars, suspended, closeEvents>>

\* Every way out of an attempt releases _connectLock.
ReleaseLock_Fault == lock' = closeCalled
ReleaseLock == lock' = FALSE

GivesUp_Fault == closeCalled /\ lock /\ ws = "none"
GivesUp == closeCalled

ArmConnectTimer_Fault == UNCHANGED <<connectTimer, strayConnect>>
ArmConnectTimer ==
  /\ connectTimer' = TRUE
  /\ strayConnect' = (strayConnect \/ connectTimer)

\* The providers resolved: create the inner socket unless close() was called.
AttemptConnects ==
  /\ Idle /\ resolving > 0
  /\ resolving' = resolving - 1
  /\ ReleaseLock
  /\ IF GivesUp
     THEN UNCHANGED <<ws, listening, closeEvents, timerVars>>
     ELSE /\ ws' = "connecting"
          /\ listening' = TRUE
          /\ closeEvents' = 0
          /\ ArmConnectTimer
          /\ UNCHANGED <<uptimeTimer, strayUptime>>
  /\ UNCHANGED <<waiting, retryCount, shouldReconnect, closeCalled, queueVars,
                 suspended>>

\* A provider rejected, or the WebSocket constructor threw.
AttemptFails ==
  /\ Idle /\ resolving > 0
  /\ resolving' = resolving - 1
  /\ HandleError(FALSE, ws)
  /\ UNCHANGED <<closeCalled, strayVars, queueVars>>

\* A stray timer cannot be told from the current one: _handleTimeout() treats
\* whatever socket is there now as the one that timed out.
ConnectTimeoutFires ==
  /\ Idle
  /\ \/ connectTimer /\ UNCHANGED strayConnect
     \/ strayConnect /\ strayConnect' \in BOOLEAN
  /\ HandleError(lock, ws)
  /\ UNCHANGED <<resolving, closeCalled, strayUptime, queueVars>>

\* _acceptOpen()
UptimeTimerFires ==
  /\ Idle
  /\ \/ uptimeTimer /\ uptimeTimer' = FALSE /\ UNCHANGED strayUptime
     \/ strayUptime /\ strayUptime' \in BOOLEAN /\ UNCHANGED uptimeTimer
  /\ retryCount' = 0
  /\ UNCHANGED <<ws, listening, lock, waiting, resolving, shouldReconnect,
                 closeCalled, connectTimer, strayConnect, queueVars, suspended,
                 closeEvents>>

\* The buffered messages go out and the buffer is reset.
Flush_Fault == out' = out \o queue /\ UNCHANGED queue
Flush == out' = out \o queue /\ queue' = <<>>

\* The inner socket opens: _handleOpen() flushes the queue before onopen.
WsOpens ==
  /\ Idle /\ ws = "connecting"
  /\ ws' = "open"
  /\ IF listening
     THEN /\ connectTimer' = FALSE
          /\ uptimeTimer' = TRUE
          /\ strayUptime' = (strayUptime \/ uptimeTimer)
          /\ Flush
     ELSE UNCHANGED <<connectTimer, uptimeTimer, strayUptime, out, queue>>
  /\ UNCHANGED <<listening, attemptVars, shouldReconnect, closeCalled,
                 strayConnect, accepted, suspended, closeEvents>>

\* The platform starts closing the socket and has not said so yet.
WsStartsClosing ==
  /\ VisibleClosing
  /\ Idle /\ ws \in Up
  /\ ws' = "closing"
  /\ UNCHANGED <<listening, attemptVars, shouldReconnect, closeCalled,
                 timerVars, queueVars, suspended, closeEvents>>

\* The connection fails; its error event runs _handleError().
WsFails ==
  /\ Idle /\ ws \in {"connecting", "open", "closing"}
  /\ IF listening
     THEN HandleError(lock, "closed")
     ELSE /\ ws' = "closed"
          /\ UNCHANGED <<listening, lock, waiting, retryCount, shouldReconnect,
                         connectTimer, uptimeTimer, suspended, closeEvents>>
  /\ UNCHANGED <<resolving, closeCalled, strayVars, queueVars>>

\* The closing handshake ends; the close event runs _handleClose().
WsCloses ==
  /\ Idle /\ ws \in {"open", "closing"}
  /\ ws' = "closed"
  /\ IF listening
     THEN HandleClose(lock, shouldReconnect, retryCount, TRUE)
     ELSE UNCHANGED <<listening, lock, waiting, retryCount, shouldReconnect,
                      connectTimer, uptimeTimer, closeEvents>>
  /\ UNCHANGED <<resolving, closeCalled, strayVars, queueVars, suspended>>

-----------------------------------------------------------------------------

\* The constructor: _connect() unless startClosed.
Init ==
  /\ ws = "none" /\ listening = FALSE
  /\ shouldReconnect = ~StartClosed
  /\ lock = MayConnect(FALSE, ~StartClosed, -1)
  /\ waiting = IF lock THEN 1 ELSE 0
  /\ retryCount = IF lock THEN 0 ELSE -1
  /\ resolving = 0
  /\ closeCalled = FALSE
  /\ connectTimer = FALSE /\ uptimeTimer = FALSE
  /\ strayConnect = FALSE /\ strayUptime = FALSE
  /\ queue = <<>> /\ accepted = <<>> /\ out = <<>>
  /\ suspended = "none"
  /\ closeEvents = 0

Consumer ==
  \/ \E valid \in ValidCodes : Close(valid) \/ Reconnect(valid)
  \/ \E m \in Messages : Send(m)
  \/ DrainQueuedMessages

Next ==
  \/ Consumer
  \/ Return \/ ErrorHandlerThrows
  \/ WaitElapses \/ AttemptConnects \/ AttemptFails
  \/ ConnectTimeoutFires \/ UptimeTimerFires
  \/ WsOpens \/ WsStartsClosing \/ WsFails \/ WsCloses

Spec == Init /\ [][Next]_vars

(* Callbacks return, timers fire, the providers settle, and a closing       *)
(* handshake ends.  Nothing is assumed of the network's willingness to open *)
(* a connection or of what the consumer calls.                              *)
Fairness ==
  /\ WF_vars(Return \/ ErrorHandlerThrows)
  /\ WF_vars(WaitElapses)
  /\ WF_vars(AttemptConnects \/ AttemptFails)
  /\ WF_vars(ConnectTimeoutFires)
  /\ WF_vars(UptimeTimerFires)
  /\ WF_vars(ws = "closing" /\ (WsCloses \/ WsFails))

FairSpec == Spec /\ Fairness

-----------------------------------------------------------------------------

FlagsOK ==
  /\ ws \in Up \cup Down
  /\ suspended \in Handlers
  /\ listening \in BOOLEAN
  /\ lock \in BOOLEAN
  /\ shouldReconnect \in BOOLEAN
  /\ closeCalled \in BOOLEAN
  /\ connectTimer \in BOOLEAN /\ uptimeTimer \in BOOLEAN
  /\ strayConnect \in BOOLEAN /\ strayUptime \in BOOLEAN

CountersOK ==
  /\ waiting \in Nat
  /\ resolving \in Nat
  /\ retryCount \in -1..MaxRetries
  /\ closeEvents \in 0..2

BufferOK ==
  /\ queue \in Seq(Messages) /\ Len(queue) <= MaxQueue
  /\ accepted \in Seq(Messages)
  /\ out \in Seq(Messages)

TypeOK == FlagsOK /\ CountersOK /\ BufferOK

(* At most one connection attempt is ever in flight, and _connectLock is    *)
(* held exactly while one is: no path through _connect(), its catch, or a   *)
(* close() during the wait leaves the lock behind.                          *)
AttemptHoldsLock == waiting + resolving = IF lock THEN 1 ELSE 0

(* A socket that should reconnect is never stranded: between tasks it has   *)
(* an attempt in flight, or a live inner socket whose end it will hear of,  *)
(* or has used up maxRetries.                                               *)
NeverStranded ==
  Idle /\ shouldReconnect =>
    \/ lock
    \/ ws \in {"connecting", "open", "closing"} /\ listening
    \/ retryCount >= MaxRetries

(* What was transmitted or drained, followed by what is still buffered, is  *)
(* exactly what send() accepted, in order: reconnections lose, repeat and   *)
(* reorder nothing of the buffer.                                           *)
NothingLostOrReordered == out \o queue = accepted

(* While an attempt is in flight the previous inner socket is down, so the  *)
(* socket it creates never orphans a live one.                              *)
AttemptOnlyWhenDown == lock => ws \in Down

(* A consumer's callback that interrupts a handler always finds the inner   *)
(* socket down, so a nested reconnect() never interrupts a second one.      *)
SuspendedWhenDown == ~Idle => ws \in Down

(* The timers a handler still knows about belong to the socket that is      *)
(* there: a timeout only hits a socket still connecting, and the retry      *)
(* counter is only reset on behalf of one that is open.                     *)
TimersMatchSocket ==
  /\ connectTimer => ws = "connecting"
  /\ uptimeTimer => ws = "open"
  /\ ~strayConnect /\ ~strayUptime

(* A socket is replaced only after the consumer got its close event.        *)
ReplacedOnlyAfterClose == lock /\ ws # "none" => closeEvents > 0

(* After close() no inner socket is created until reconnect() is called:    *)
(* an attempt that was in its wait or its providers gives up.               *)
NoSocketAfterClose ==
  [][closeCalled /\ closeCalled' =>
       \/ ws' = ws
       \/ ws' \in {"closing", "closed"}
       \/ ws = "connecting" /\ ws' = "open"]_vars

(* A dropped connection that should come back gets a new inner socket,      *)
(* unless it is told to stop or the retries run out.  (A consumer calling   *)
(* reconnect() for ever resets the count for ever, so it must cease.)       *)
KeepsTrying ==
  <>[][~\E valid \in ValidCodes : Reconnect(valid)]_vars =>
    (shouldReconnect /\ ws = "closed"
       ~> ws # "closed" \/ ~shouldReconnect \/ retryCount = MaxRetries)

(* close() tears everything down: the attempt in flight ends, and the inner *)
(* socket gets to CLOSED, unless reconnect() is called.                     *)
CloseCompletes ==
  closeCalled ~> ~closeCalled \/ (~lock /\ ws \in {"none", "closed"})

(* The socket implements the abstract Link, which is all its consumer needs *)
(* to know: up while the inner socket is open, trying while there is or     *)
(* will be a new one, wanted until close().                                 *)
Promise == INSTANCE Link WITH
  state <- IF ws = "open" THEN "up"
           ELSE IF ws = "connecting" \/ lock THEN "trying" ELSE "down",
  wanted <- ~closeCalled,
  sent <- accepted,
  delivered <- out
ImplementsLink == Promise!Spec

(* No inner socket stays connecting for ever: the connection timeout ends   *)
(* an attempt that the network never answers.                               *)
ConnectingEnds == ws = "connecting" ~> ws # "connecting"
=============================================================================
