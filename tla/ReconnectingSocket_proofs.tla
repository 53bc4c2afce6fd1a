---------------------- MODULE ReconnectingSocket_proofs ----------------------
(***************************************************************************)
(* Safety of ReconnectingSocket for every buffer bound, retry bound and    *)
(* set of messages.  The invariants are layered: TypeOK and                *)
(* AttemptHoldsLock hold on every platform; Exclusive (a socket that is up *)
(* excludes attempts and suspended handlers) needs valid close codes;      *)
(* Supervised (the timers and flags that keep a socket from being          *)
(* stranded) needs a platform that does not show CLOSING early and an      *)
(* onerror that does not throw.                                            *)
(***************************************************************************)
EXTENDS ReconnectingSocket, SequenceTheorems, TLAPS

(* The definitions every step proof expands.                                *)
USE DEF Up, Down, Handlers, Idle, attemptVars, strayVars, timerVars, queueVars

LEMMA InitTypeOK == Init => TypeOK
<1>1. Init => FlagsOK
  BY ConstantsAssumption DEF ConstantsAssumption, Init, MayConnect, FlagsOK
<1>2. Init => CountersOK
  BY ConstantsAssumption DEF ConstantsAssumption, Init, MayConnect, CountersOK
<1>3. Init => BufferOK
  BY ConstantsAssumption DEF ConstantsAssumption, Init, MayConnect, BufferOK
<1>4. QED
  BY <1>1, <1>2, <1>3 DEF TypeOK

(* _connect() from well-typed arguments. *)
LEMMA ConnectTypes ==
  ASSUME CountersOK, NEW locked \in BOOLEAN, NEW should \in BOOLEAN,
         NEW rc \in -1..MaxRetries, NEW heard \in BOOLEAN,
         Connect(locked, should, rc, heard)
  PROVE  /\ lock' \in BOOLEAN /\ listening' \in BOOLEAN
         /\ waiting' \in Nat /\ retryCount' \in -1..MaxRetries
BY ConstantsAssumption DEF ConstantsAssumption, CountersOK, Connect, MayConnect

(* _handleClose() from well-typed arguments. *)
LEMMA HandleCloseTypes ==
  ASSUME CountersOK, NEW locked \in BOOLEAN, NEW should \in BOOLEAN,
         NEW rc \in -1..MaxRetries, NEW heard \in BOOLEAN,
         HandleClose(locked, should, rc, heard)
  PROVE  /\ lock' \in BOOLEAN /\ listening' \in BOOLEAN
         /\ waiting' \in Nat /\ retryCount' \in -1..MaxRetries
         /\ shouldReconnect' \in BOOLEAN /\ closeEvents' \in 0..2
         /\ connectTimer' = FALSE /\ uptimeTimer' = FALSE
<1>1. PICK agreed \in BOOLEAN :
        /\ shouldReconnect' = (should /\ agreed)
        /\ Connect(locked, should /\ agreed, rc, heard)
  BY DEF HandleClose
<1>2. (should /\ agreed) \in BOOLEAN
  OBVIOUS
<1>3. /\ lock' \in BOOLEAN /\ listening' \in BOOLEAN
      /\ waiting' \in Nat /\ retryCount' \in -1..MaxRetries
  BY <1>1, <1>2, ConnectTypes
<1>4. closeEvents' \in 0..2 /\ connectTimer' = FALSE /\ uptimeTimer' = FALSE
  BY DEF HandleClose, DispatchClose, ClearTimeouts, CountersOK
<1>5. QED BY <1>1, <1>2, <1>3, <1>4

(* _handleError() leaves the inner socket down and a callback pending. *)
LEMMA HandleErrorTypes ==
  ASSUME TypeOK, NEW locked \in BOOLEAN, NEW w \in Up \cup Down,
         HandleError(locked, w), w = "none" => ws = "none"
  PROVE  /\ ws' \in Down /\ suspended' \in {"error", "disconnect"}
         /\ lock' \in BOOLEAN /\ listening' \in BOOLEAN
         /\ waiting' \in Nat /\ retryCount' \in -1..MaxRetries
         /\ shouldReconnect' \in BOOLEAN /\ closeEvents' \in 0..2
         /\ connectTimer' = FALSE /\ uptimeTimer' = FALSE
<1>1. CASE w = "none"
  BY <1>1 DEF HandleError, ClearTimeouts, TypeOK, FlagsOK, CountersOK
<1>2. CASE w # "none"
  <2>1. HandleClose(locked, shouldReconnect, retryCount, FALSE)
    BY <1>2 DEF HandleError
  <2>2. ws' \in Down /\ suspended' = "disconnect"
    BY <1>2 DEF HandleError, CloseInner
  <2>3. QED
    BY <2>1, <2>2, HandleCloseTypes DEF TypeOK, FlagsOK, CountersOK
<1>3. QED BY <1>1, <1>2


LEMMA StepTypeOK == TypeOK /\ [Next]_vars => TypeOK'
<1> SUFFICES ASSUME TypeOK, [Next]_vars
             PROVE  FlagsOK' /\ CountersOK' /\ BufferOK'
  BY DEF TypeOK
<1> USE ConstantsAssumption DEF ConstantsAssumption, TypeOK, FlagsOK,
                                CountersOK, BufferOK
<1>1. ASSUME NEW valid \in BOOLEAN, Close(valid)
      PROVE  FlagsOK' /\ CountersOK' /\ BufferOK'
  <2>1. CASE ws \in Up /\ valid
    <3>1. HandleClose(lock, FALSE, retryCount, FALSE) /\ ws' = "closing"
      BY <1>1, <2>1 DEF Close
    <3>2. /\ lock' \in BOOLEAN /\ listening' \in BOOLEAN
          /\ waiting' \in Nat /\ retryCount' \in -1..MaxRetries
          /\ shouldReconnect' \in BOOLEAN /\ closeEvents' \in 0..2
          /\ connectTimer' = FALSE /\ uptimeTimer' = FALSE
      BY <3>1, HandleCloseTypes
    <3>3. QED
      BY <1>1, <3>1, <3>2 DEF Close
  <2>2. CASE ~(ws \in Up /\ valid)
    BY <1>1, <2>2 DEF Close, ClearTimeouts
  <2>3. QED
    BY <2>1, <2>2
<1>2. ASSUME NEW valid \in BOOLEAN, Reconnect(valid)
      PROVE  FlagsOK' /\ CountersOK' /\ BufferOK'
  <2>0. -1 \in -1..MaxRetries
    OBVIOUS
  <2>1. CASE ws \in Up /\ valid
    <3>1. HandleClose(lock, TRUE, -1, FALSE) /\ ws' = "closing"
      BY <1>2, <2>1 DEF Reconnect
    <3>2. /\ lock' \in BOOLEAN /\ listening' \in BOOLEAN
          /\ waiting' \in Nat /\ retryCount' \in -1..MaxRetries
          /\ shouldReconnect' \in BOOLEAN /\ closeEvents' \in 0..2
          /\ connectTimer' = FALSE /\ uptimeTimer' = FALSE
      BY <3>1, <2>0, HandleCloseTypes
    <3>3. QED
      BY <1>2, <2>1, <3>1, <3>2 DEF Reconnect
  <2>2. ASSUME NEW heard \in BOOLEAN, Connect(lock, TRUE, -1, heard)
        PROVE  /\ lock' \in BOOLEAN /\ listening' \in BOOLEAN
               /\ waiting' \in Nat /\ retryCount' \in -1..MaxRetries
    BY <2>0, <2>2, ConnectTypes
  <2>3. CASE ws \in Up /\ ~valid
    BY <1>2, <2>2, <2>3 DEF Reconnect, ClearTimeouts
  <2>4. CASE ws \in Down
    BY <1>2, <2>2, <2>4 DEF Reconnect
  <2>5. QED
    BY <2>1, <2>3, <2>4
<1>3. ASSUME NEW m \in Messages, Send(m)
      PROVE  FlagsOK' /\ CountersOK' /\ BufferOK'
  <2>1. FlagsOK' /\ CountersOK'
    BY <1>3 DEF Send
  <2>2. /\ Append(out, m) \in Seq(Messages)
        /\ Append(accepted, m) \in Seq(Messages)
        /\ Append(queue, m) \in Seq(Messages)
        /\ Len(Append(queue, m)) = Len(queue) + 1
    OBVIOUS
  <2>3. CASE ws = "open"
    BY <1>3, <2>2, <2>3, <2>1 DEF Send
  <2>4. CASE ws # "open"
    <3>1. Len(queue) \in Nat /\ Len(queue) < MaxQueue
      BY <1>3, <2>4 DEF Send, HasRoom
    <3>2. Len(queue)+1 <= MaxQueue
      BY <3>1
    <3>3. queue' = Append(queue, m) /\ accepted' = Append(accepted, m)
          /\ out' = out
      BY <1>3, <2>4 DEF Send
    <3>4. QED
      BY <2>1, <2>2, <3>2, <3>3
  <2>5. QED
    BY <2>3, <2>4
<1>4. CASE DrainQueuedMessages
  <2>1. out \o queue \in Seq(Messages)
    BY ConcatProperties
  <2>2. QED
    BY <1>4, <2>1 DEF DrainQueuedMessages
<1>5. CASE Return
  <2>1. CASE suspended = "disconnect"
    BY <1>5, <2>1 DEF Return
  <2>2. CASE suspended # "disconnect"
    <3>1. Connect(lock, shouldReconnect, retryCount, listening)
      BY <1>5, <2>2 DEF Return
    <3>2. /\ lock' \in BOOLEAN /\ listening' \in BOOLEAN
          /\ waiting' \in Nat /\ retryCount' \in -1..MaxRetries
      BY <3>1, ConnectTypes
    <3>3. QED
      BY <1>5, <2>2, <3>2 DEF Return
  <2>3. QED
    BY <2>1, <2>2
<1>6. CASE ErrorHandlerThrows
  BY <1>6 DEF ErrorHandlerThrows
<1>7. CASE WaitElapses
  BY <1>7 DEF WaitElapses
<1>8. CASE AttemptConnects
  <2>1. FlagsOK'
    BY <1>8 DEF AttemptConnects, ReleaseLock, GivesUp, ArmConnectTimer
  <2>2. CountersOK' /\ BufferOK'
    BY <1>8 DEF AttemptConnects, ReleaseLock, GivesUp, ArmConnectTimer
  <2>3. QED
    BY <2>1, <2>2
<1>9. CASE AttemptFails
  <2>1. HandleError(FALSE, ws)
    BY <1>9 DEF AttemptFails
  <2>2. /\ ws' \in Down /\ suspended' \in {"error", "disconnect"}
        /\ lock' \in BOOLEAN /\ listening' \in BOOLEAN
        /\ waiting' \in Nat /\ retryCount' \in -1..MaxRetries
        /\ shouldReconnect' \in BOOLEAN /\ closeEvents' \in 0..2
        /\ connectTimer' = FALSE /\ uptimeTimer' = FALSE
    BY <2>1, HandleErrorTypes
  <2>3. FlagsOK' /\ BufferOK'
    BY <1>9, <2>2 DEF AttemptFails
  <2>4. resolving' \in Nat
    BY <1>9 DEF AttemptFails
  <2>5. QED
    BY <2>2, <2>3, <2>4
<1>10. CASE ConnectTimeoutFires
  <2>1. HandleError(lock, ws) /\ strayConnect' \in BOOLEAN
    BY <1>10 DEF ConnectTimeoutFires
  <2>2. /\ ws' \in Down /\ suspended' \in {"error", "disconnect"}
        /\ lock' \in BOOLEAN /\ listening' \in BOOLEAN
        /\ waiting' \in Nat /\ retryCount' \in -1..MaxRetries
        /\ shouldReconnect' \in BOOLEAN /\ closeEvents' \in 0..2
        /\ connectTimer' = FALSE /\ uptimeTimer' = FALSE
    BY <2>1, HandleErrorTypes
  <2>3. QED
    BY <1>10, <2>1, <2>2 DEF ConnectTimeoutFires
<1>11. CASE UptimeTimerFires
  <2>1. FlagsOK'
    BY <1>11 DEF UptimeTimerFires
  <2>2. CountersOK' /\ BufferOK'
    BY <1>11 DEF UptimeTimerFires
  <2>3. QED
    BY <2>1, <2>2
<1>12. CASE WsOpens
  <2>1. FlagsOK' /\ CountersOK'
    BY <1>12 DEF WsOpens
  <2>2. out \o queue \in Seq(Messages)
    BY ConcatProperties
  <2>3. BufferOK'
    <3>1. CASE listening
      <4>1. queue' = <<>> /\ out' = out \o queue /\ accepted' = accepted
        BY <1>12, <3>1 DEF WsOpens, Flush
      <4>2. QED
        BY <4>1, <2>2
    <3>2. CASE ~listening
      BY <1>12, <3>2 DEF WsOpens
    <3>3. QED
      BY <3>1, <3>2
  <2>4. QED
    BY <2>1, <2>3
<1>13. CASE WsStartsClosing
  BY <1>13 DEF WsStartsClosing
<1>14. CASE WsFails
  <2>1. CASE listening
    <3>1. HandleError(lock, "closed")
      BY <1>14, <2>1 DEF WsFails
    <3>2. /\ ws' \in Down /\ suspended' \in {"error", "disconnect"}
          /\ lock' \in BOOLEAN /\ listening' \in BOOLEAN
          /\ waiting' \in Nat /\ retryCount' \in -1..MaxRetries
          /\ shouldReconnect' \in BOOLEAN /\ closeEvents' \in 0..2
          /\ connectTimer' = FALSE /\ uptimeTimer' = FALSE
      BY <3>1, HandleErrorTypes
    <3>3. QED
      BY <1>14, <3>2 DEF WsFails
  <2>2. CASE ~listening
    BY <1>14, <2>2 DEF WsFails
  <2>3. QED
    BY <2>1, <2>2
<1>15. CASE WsCloses
  <2>1. CASE listening
    <3>1. HandleClose(lock, shouldReconnect, retryCount, TRUE)
      BY <1>15, <2>1 DEF WsCloses
    <3>2. /\ lock' \in BOOLEAN /\ listening' \in BOOLEAN
          /\ waiting' \in Nat /\ retryCount' \in -1..MaxRetries
          /\ shouldReconnect' \in BOOLEAN /\ closeEvents' \in 0..2
          /\ connectTimer' = FALSE /\ uptimeTimer' = FALSE
      BY <3>1, HandleCloseTypes
    <3>3. QED
      BY <1>15, <3>2 DEF WsCloses
  <2>2. CASE ~listening
    BY <1>15, <2>2 DEF WsCloses
  <2>3. QED
    BY <2>1, <2>2
<1>16. CASE UNCHANGED vars
  BY <1>16 DEF vars
<1>17. QED
  BY <1>1, <1>2, <1>3, <1>4, <1>5, <1>6, <1>7, <1>8, <1>9, <1>10, <1>11,
     <1>12, <1>13, <1>14, <1>15, <1>16 DEF Next, Consumer, ValidCodes

(* Every variable keeps its type; in particular retryCount stays within     *)
(* maxRetries and the buffer within maxEnqueuedMessages.                    *)
THEOREM TypeCorrect == Spec => []TypeOK
BY InitTypeOK, StepTypeOK, PTL DEF Spec

-----------------------------------------------------------------------------
(* The lock accounts for the attempts: r stands for the chains that already *)
(* passed their wait, which no handler touches.                             *)

LEMMA ConnectAccounts ==
  ASSUME waiting \in Nat, NEW r \in Nat, NEW locked \in BOOLEAN, NEW should,
         NEW rc, NEW heard, Connect(locked, should, rc, heard),
         waiting + r = IF locked THEN 1 ELSE 0
  PROVE  waiting' + r = IF lock' THEN 1 ELSE 0
<1>1. CASE MayConnect(locked, should, rc)
  <2>1. ~locked
    BY <1>1 DEF MayConnect
  <2>2. lock' /\ waiting' = waiting + 1
    BY <1>1 DEF Connect
  <2>3. QED
    BY <2>1, <2>2
<1>2. CASE ~MayConnect(locked, should, rc)
  <2>1. (lock' <=> locked) /\ waiting' = waiting
    BY <1>2 DEF Connect
  <2>2. QED
    BY <2>1
<1>3. QED
  BY <1>1, <1>2

LEMMA HandleCloseAccounts ==
  ASSUME waiting \in Nat, NEW r \in Nat, NEW locked \in BOOLEAN, NEW should,
         NEW rc, NEW heard, HandleClose(locked, should, rc, heard),
         waiting + r = IF locked THEN 1 ELSE 0
  PROVE  waiting' + r = IF lock' THEN 1 ELSE 0
<1>1. PICK agreed \in BOOLEAN : Connect(locked, should /\ agreed, rc, heard)
  BY DEF HandleClose
<1>2. QED
  BY <1>1, ConnectAccounts

LEMMA HandleErrorAccounts ==
  ASSUME waiting \in Nat, NEW r \in Nat, NEW locked \in BOOLEAN, NEW w,
         HandleError(locked, w),
         waiting + r = IF locked THEN 1 ELSE 0
  PROVE  waiting' + r = IF lock' THEN 1 ELSE 0
<1>1. CASE w = "none"
  BY <1>1 DEF HandleError
<1>2. CASE w # "none"
  BY <1>2, HandleCloseAccounts DEF HandleError
<1>3. QED
  BY <1>1, <1>2

LEMMA StepAttemptHoldsLock ==
  TypeOK /\ AttemptHoldsLock /\ [Next]_vars => AttemptHoldsLock'
<1> SUFFICES ASSUME TypeOK, AttemptHoldsLock, [Next]_vars
             PROVE  waiting' + resolving' = IF lock' THEN 1 ELSE 0
  BY DEF AttemptHoldsLock
<1>0. /\ waiting \in Nat /\ resolving \in Nat /\ lock \in BOOLEAN
      /\ waiting + resolving = IF lock THEN 1 ELSE 0
  BY DEF TypeOK, FlagsOK, CountersOK, AttemptHoldsLock
<1> HIDE DEF AttemptHoldsLock, TypeOK
<1>1. ASSUME NEW valid \in BOOLEAN, Close(valid)
      PROVE  waiting' + resolving' = IF lock' THEN 1 ELSE 0
  <2>1. CASE ws \in Up /\ valid
    BY <1>0, <1>1, <2>1, HandleCloseAccounts DEF Close
  <2>2. CASE ~(ws \in Up /\ valid)
    BY <1>0, <1>1, <2>2 DEF Close
  <2>3. QED
    BY <2>1, <2>2
<1>2. ASSUME NEW valid \in BOOLEAN, Reconnect(valid)
      PROVE  waiting' + resolving' = IF lock' THEN 1 ELSE 0
  <2>1. CASE HandleClose(lock, TRUE, -1, FALSE)
    BY <1>0, <1>2, <2>1, HandleCloseAccounts DEF Reconnect
  <2>2. CASE \E heard : Connect(lock, TRUE, -1, heard)
    BY <1>0, <1>2, <2>2, ConnectAccounts DEF Reconnect
  <2>3. QED
    BY <1>2, <2>1, <2>2 DEF Reconnect
<1>3. ASSUME NEW m \in Messages, Send(m)
      PROVE  waiting' + resolving' = IF lock' THEN 1 ELSE 0
  BY <1>0, <1>3 DEF Send
<1>4. CASE DrainQueuedMessages
  BY <1>0, <1>4 DEF DrainQueuedMessages
<1>5. CASE Return
  <2>1. CASE suspended = "disconnect"
    BY <1>0, <1>5, <2>1 DEF Return
  <2>2. CASE suspended # "disconnect"
    BY <1>0, <1>5, <2>2, ConnectAccounts DEF Return
  <2>3. QED
    BY <2>1, <2>2
<1>6. CASE ErrorHandlerThrows
  BY <1>0, <1>6 DEF ErrorHandlerThrows
<1>7. CASE WaitElapses
  BY <1>0, <1>7 DEF WaitElapses
<1>8. CASE AttemptConnects
  <2>1. waiting' = waiting /\ resolving' = resolving - 1 /\ resolving > 0
        /\ lock' = FALSE
    BY <1>8 DEF AttemptConnects, ReleaseLock
  <2>2. QED
    BY <1>0, <2>1
<1>9. CASE AttemptFails
  <2>1. /\ resolving > 0 /\ resolving' = resolving - 1
        /\ HandleError(FALSE, ws)
    BY <1>9 DEF AttemptFails
  <2>2. resolving - 1 \in Nat /\ waiting + (resolving - 1) = 0
    BY <1>0, <2>1
  <2>3. QED
    BY <1>0, <2>1, <2>2, HandleErrorAccounts
<1>10. CASE ConnectTimeoutFires
  BY <1>0, <1>10, HandleErrorAccounts DEF ConnectTimeoutFires
<1>11. CASE UptimeTimerFires
  BY <1>0, <1>11 DEF UptimeTimerFires
<1>12. CASE WsOpens
  BY <1>0, <1>12 DEF WsOpens
<1>13. CASE WsStartsClosing
  BY <1>0, <1>13 DEF WsStartsClosing
<1>14. CASE WsFails
  <2>1. CASE listening
    BY <1>0, <1>14, <2>1, HandleErrorAccounts DEF WsFails
  <2>2. CASE ~listening
    BY <1>0, <1>14, <2>2 DEF WsFails
  <2>3. QED
    BY <2>1, <2>2
<1>15. CASE WsCloses
  <2>1. CASE listening
    BY <1>0, <1>15, <2>1, HandleCloseAccounts DEF WsCloses
  <2>2. CASE ~listening
    BY <1>0, <1>15, <2>2 DEF WsCloses
  <2>3. QED
    BY <2>1, <2>2
<1>16. CASE UNCHANGED vars
  BY <1>0, <1>16 DEF vars
<1>17. QED
  BY <1>1, <1>2, <1>3, <1>4, <1>5, <1>6, <1>7, <1>8, <1>9, <1>10, <1>11,
     <1>12, <1>13, <1>14, <1>15, <1>16 DEF Next, Consumer, ValidCodes

(* On every platform at most one attempt is in flight and _connectLock is   *)
(* held exactly while one is.                                               *)
THEOREM LockAccountsForAttempts == Spec => []AttemptHoldsLock
<1>1. Init => AttemptHoldsLock
  <2>1. SUFFICES ASSUME Init PROVE waiting + resolving = IF lock THEN 1 ELSE 0
    BY DEF AttemptHoldsLock
  <2>2. waiting = (IF lock THEN 1 ELSE 0) /\ resolving = 0
    BY <2>1 DEF Init
  <2>3. QED
    BY <2>2
<1>2. QED
  BY <1>1, TypeCorrect, StepAttemptHoldsLock, PTL DEF Spec

-----------------------------------------------------------------------------
(* With valid close codes a socket that is up is heard and excludes an      *)
(* attempt and a suspended handler, and the buffer is empty while it is     *)
(* open, so a direct transmission overtakes nothing.                        *)
Exclusive ==
  /\ ws \in Up => listening /\ ~lock /\ Idle
  /\ ws = "open" => queue = <<>>
  /\ NothingLostOrReordered

LEMMA StepExclusive ==
  ~InvalidCodes /\ TypeOK /\ Exclusive /\ [Next]_vars => Exclusive'
<1> SUFFICES ASSUME ~InvalidCodes, TypeOK, Exclusive, [Next]_vars
             PROVE  Exclusive'
  OBVIOUS
<1>0. /\ ws \in Up \cup Down
      /\ out \in Seq(Messages) /\ queue \in Seq(Messages)
      /\ accepted \in Seq(Messages)
      /\ lock \in BOOLEAN
  BY DEF TypeOK, FlagsOK, BufferOK
<1>a. ASSUME ws' \in Down, UNCHANGED queueVars PROVE Exclusive'
  BY <1>a DEF Exclusive, NothingLostOrReordered
<1>b. ASSUME ws' = ws, listening' = listening, lock' => lock,
             UNCHANGED queueVars, suspended' = suspended
      PROVE  Exclusive'
  BY <1>b DEF Exclusive, NothingLostOrReordered
<1>1. CASE Close(TRUE)
  <2>1. CASE ws \in Up
    BY <1>1, <2>1, <1>a DEF Close
  <2>2. CASE ws \notin Up
    BY <1>0, <1>1, <2>2, <1>a DEF Close
  <2>3. QED
    BY <2>1, <2>2
<1>2. CASE Reconnect(TRUE)
  BY <1>2, <1>a DEF Reconnect
<1>3. ASSUME NEW m \in Messages, Send(m) PROVE Exclusive'
  <2>1. /\ UNCHANGED <<ws, listening, lock, suspended>>
    BY <1>3 DEF Send
  <2>2. CASE ws = "open"
    <3>1. queue = <<>> /\ accepted = out
      BY <1>0, <2>2, ConcatEmptySeq DEF Exclusive, NothingLostOrReordered
    <3>2. /\ out' = Append(out, m) /\ accepted' = Append(accepted, m)
          /\ queue' = <<>>
      BY <1>3, <2>2, <3>1 DEF Send
    <3>3. Append(out, m) \in Seq(Messages)
      BY <1>0, AppendProperties
    <3>4. out' \o queue' = accepted'
      BY <3>1, <3>2, <3>3, ConcatEmptySeq
    <3>5. QED
      BY <2>1, <3>2, <3>4 DEF Exclusive, NothingLostOrReordered
  <2>3. CASE ws # "open"
    <3>1. /\ queue' = Append(queue, m) /\ accepted' = Append(accepted, m)
          /\ out' = out
      BY <1>3, <2>3 DEF Send
    <3>2. out \o Append(queue, m) = Append(out \o queue, m)
      <4>1. /\ Append(queue, m) = queue \o <<m>>
            /\ out \o queue \in Seq(Messages)
            /\ <<m>> \in Seq(Messages)
        BY <1>0, AppendIsConcat, ConcatProperties
      <4>2. Append(out \o queue, m) = (out \o queue) \o <<m>>
        BY <4>1, AppendIsConcat
      <4>3. QED
        BY <1>0, <4>1, <4>2, ConcatAssociative
    <3>3. QED
      BY <2>1, <2>3, <3>1, <3>2 DEF Exclusive, NothingLostOrReordered
  <2>4. QED
    BY <2>2, <2>3
<1>4. CASE DrainQueuedMessages
  <2>1. /\ UNCHANGED <<ws, listening, lock, suspended, accepted>>
        /\ queue' = <<>> /\ out' = out \o queue
    BY <1>4 DEF DrainQueuedMessages
  <2>2. out' \o <<>> = out'
    BY <1>0, <2>1, ConcatProperties, ConcatEmptySeq
  <2>3. QED
    BY <2>1, <2>2 DEF Exclusive, NothingLostOrReordered
<1>5. CASE Return
  <2>1. ws \in Down /\ ws' = ws /\ UNCHANGED queueVars
    BY <1>0, <1>5 DEF Return, Exclusive
  <2>2. QED
    BY <2>1, <1>a
<1>6. CASE ErrorHandlerThrows
  <2>1. ws \in Down /\ ws' = ws /\ UNCHANGED queueVars
    BY <1>0, <1>6 DEF ErrorHandlerThrows, Exclusive
  <2>2. QED
    BY <2>1, <1>a
<1>7. CASE WaitElapses
  BY <1>7, <1>b DEF WaitElapses
<1>8. CASE AttemptConnects
  <2>1. CASE closeCalled
    BY <1>8, <2>1, <1>b DEF AttemptConnects, ReleaseLock, GivesUp
  <2>2. CASE ~closeCalled
    <3>1. /\ ws' = "connecting" /\ listening' = TRUE /\ lock' = FALSE
          /\ suspended' = "none" /\ UNCHANGED queueVars
      BY <1>8, <2>2 DEF AttemptConnects, ReleaseLock, GivesUp
    <3>2. QED
      BY <3>1 DEF Exclusive, NothingLostOrReordered
  <2>3. QED
    BY <2>1, <2>2
<1>9. CASE AttemptFails
  BY <1>0, <1>9, <1>a, HandleErrorTypes DEF AttemptFails
<1>10. CASE ConnectTimeoutFires
  BY <1>0, <1>10, <1>a, HandleErrorTypes DEF ConnectTimeoutFires
<1>11. CASE UptimeTimerFires
  BY <1>11, <1>b DEF UptimeTimerFires
<1>12. CASE WsOpens
  <2>1. /\ listening /\ ~lock /\ Idle
    BY <1>12 DEF WsOpens, Exclusive
  <2>2. /\ UNCHANGED <<listening, lock, suspended, accepted>>
        /\ ws' = "open" /\ queue' = <<>> /\ out' = out \o queue
    BY <1>12, <2>1 DEF WsOpens, Flush
  <2>3. out' \o <<>> = out'
    BY <1>0, <2>2, ConcatProperties, ConcatEmptySeq
  <2>4. QED
    BY <2>1, <2>2, <2>3 DEF Exclusive, NothingLostOrReordered
<1>13. CASE WsStartsClosing
  BY <1>13, <1>a DEF WsStartsClosing
<1>14. CASE WsFails
  <2>1. ws' \in Down /\ UNCHANGED queueVars
    BY <1>0, <1>14, HandleErrorTypes DEF WsFails
  <2>2. QED
    BY <2>1, <1>a
<1>15. CASE WsCloses
  BY <1>15, <1>a DEF WsCloses
<1>16. CASE UNCHANGED vars
  BY <1>16, <1>b DEF vars
<1>17. QED
  BY <1>1, <1>2, <1>3, <1>4, <1>5, <1>6, <1>7, <1>8, <1>9, <1>10, <1>11,
     <1>12, <1>13, <1>14, <1>15, <1>16 DEF Next, Consumer, ValidCodes

LEMMA ExclusiveInvariant == ~InvalidCodes /\ Spec => []Exclusive
<1> SUFFICES ASSUME ~InvalidCodes PROVE Spec => []Exclusive
  OBVIOUS
<1>1. Init => Exclusive
  BY DEF Init, Exclusive, NothingLostOrReordered
<1>2. TypeOK /\ Exclusive /\ [Next]_vars => Exclusive'
  BY StepExclusive
<1>3. QED
  BY <1>1, <1>2, TypeCorrect, PTL DEF Spec

(* As long as close codes are valid, what was transmitted or drained        *)
(* followed by the buffer is what send() accepted, in order.                *)
THEOREM BufferIsFifo == ~InvalidCodes /\ Spec => []NothingLostOrReordered
<1>1. Exclusive => NothingLostOrReordered
  BY DEF Exclusive
<1>2. QED
  BY <1>1, ExclusiveInvariant, PTL

(* As long as close codes are valid, an attempt in flight finds the         *)
(* previous inner socket down and orphans nothing.                          *)
THEOREM NoOrphanedSocket == ~InvalidCodes /\ Spec => []AttemptOnlyWhenDown
<1>1. TypeOK /\ Exclusive => AttemptOnlyWhenDown
  BY DEF TypeOK, FlagsOK, Exclusive, AttemptOnlyWhenDown
<1>2. QED
  BY <1>1, TypeCorrect, ExclusiveInvariant, PTL

-----------------------------------------------------------------------------

(* On every platform and for every constant, a callback that interrupts a   *)
(* handler finds the inner socket down: one suspended handler at a time is  *)
(* all there can be, which is what the variable suspended relies on.        *)
THEOREM OneSuspendedHandler == Spec => []SuspendedWhenDown
<1>1. Init => SuspendedWhenDown
  BY DEF Init, SuspendedWhenDown
<1>2. TypeOK /\ SuspendedWhenDown /\ [Next]_vars => SuspendedWhenDown'
  <2> SUFFICES ASSUME TypeOK, SuspendedWhenDown, [Next]_vars
               PROVE  suspended' # "none" => ws' \in Down
    BY DEF SuspendedWhenDown
  <2>0. /\ ws \in Up \cup Down
        /\ lock \in BOOLEAN
        /\ suspended # "none" => ws \in Down
    BY DEF TypeOK, FlagsOK, SuspendedWhenDown
  <2>1. ASSUME NEW valid \in BOOLEAN, Close(valid)
        PROVE  suspended' # "none" => ws' \in Down
    BY <2>0, <2>1 DEF Close
  <2>2. ASSUME NEW valid \in BOOLEAN, Reconnect(valid)
        PROVE  suspended' # "none" => ws' \in Down
    BY <2>0, <2>2 DEF Reconnect
  <2>3. CASE (\E m \in Messages : Send(m)) \/ DrainQueuedMessages
    BY <2>0, <2>3 DEF Send, DrainQueuedMessages
  <2>4. CASE Return \/ ErrorHandlerThrows
    BY <2>0, <2>4 DEF Return, ErrorHandlerThrows
  <2>5. CASE AttemptFails \/ ConnectTimeoutFires \/ WsFails
    <3>1. ASSUME NEW locked \in BOOLEAN, NEW w \in Up \cup Down,
                 HandleError(locked, w), w = "none" => ws = "none"
          PROVE  ws' \in Down
      BY <3>1, HandleErrorTypes
    <3>2. QED
      BY <2>0, <2>5, <3>1 DEF AttemptFails, ConnectTimeoutFires, WsFails
  <2>6. CASE \/ WaitElapses \/ AttemptConnects \/ UptimeTimerFires
             \/ WsOpens \/ WsStartsClosing \/ WsCloses
    BY <2>6 DEF WaitElapses, AttemptConnects, UptimeTimerFires, WsOpens,
                WsStartsClosing, WsCloses
  <2>7. CASE UNCHANGED vars
    BY <2>0, <2>7 DEF vars
  <2>8. QED
    BY <2>1, <2>2, <2>3, <2>4, <2>5, <2>6, <2>7
       DEF Next, Consumer, ValidCodes
<1>3. QED
  BY <1>1, <1>2, TypeCorrect, PTL DEF Spec

-----------------------------------------------------------------------------
(* Where CLOSING is not visible early and onerror does not throw: every     *)
(* running timer belongs to the socket that is there and is heard, none     *)
(* runs during an attempt or a suspended handler, and so nothing but an     *)
(* attempt, a heard socket or used-up retries lets the handlers rest.       *)
Supervised ==
  /\ closeCalled => ~shouldReconnect
  /\ connectTimer => ws = "connecting" /\ listening
  /\ uptimeTimer => ws = "open" /\ listening
  /\ lock \/ ~Idle => /\ ~connectTimer /\ ~uptimeTimer
                      /\ ~(ws \in Up /\ listening)
  /\ ~strayConnect /\ ~strayUptime
  /\ NeverStranded

(* After _connect() nothing is stranded, whatever it decided.               *)
LEMMA ConnectSupervises ==
  ASSUME NEW locked \in BOOLEAN, NEW should \in BOOLEAN,
         NEW rc \in -1..MaxRetries, NEW heard \in BOOLEAN,
         Connect(locked, should, rc, heard)
  PROVE  should => lock' \/ retryCount' >= MaxRetries
<1>1. CASE MayConnect(locked, should, rc)
  BY <1>1 DEF Connect
<1>2. CASE ~MayConnect(locked, should, rc)
  <2>1. (lock' <=> locked) /\ retryCount' = rc
    BY <1>2 DEF Connect
  <2>2. QED
    BY <1>2, <2>1, ConstantsAssumption DEF MayConnect, ConstantsAssumption
<1>3. QED
  BY <1>1, <1>2

LEMMA HandleCloseSupervises ==
  ASSUME NEW locked \in BOOLEAN, NEW should \in BOOLEAN,
         NEW rc \in -1..MaxRetries, NEW heard \in BOOLEAN,
         HandleClose(locked, should, rc, heard)
  PROVE  /\ shouldReconnect' => should
         /\ shouldReconnect' => lock' \/ retryCount' >= MaxRetries
         /\ ~connectTimer' /\ ~uptimeTimer'
<1>1. PICK agreed \in BOOLEAN :
        /\ shouldReconnect' = (should /\ agreed)
        /\ Connect(locked, should /\ agreed, rc, heard)
  BY DEF HandleClose
<1>2. (should /\ agreed) \in BOOLEAN
  OBVIOUS
<1>3. should /\ agreed => lock' \/ retryCount' >= MaxRetries
  BY <1>1, <1>2, ConnectSupervises
<1>4. QED
  BY <1>1, <1>3 DEF HandleClose, ClearTimeouts

LEMMA HandleErrorSupervises ==
  ASSUME TypeOK, NEW locked \in BOOLEAN, NEW w \in Up \cup Down,
         HandleError(locked, w), w = "none" => ws = "none"
  PROVE  /\ shouldReconnect' => shouldReconnect
         /\ ~connectTimer' /\ ~uptimeTimer'
         /\ suspended' # "none"
         /\ ws' \in Down
<1>1. CASE w = "none"
  BY <1>1 DEF HandleError, ClearTimeouts
<1>2. CASE w # "none"
  <2>1. /\ HandleClose(locked, shouldReconnect, retryCount, FALSE)
        /\ suspended' = "disconnect"
        /\ ws' \in Down
    BY <1>2 DEF HandleError, CloseInner
  <2>2. QED
    BY <2>1, HandleCloseSupervises DEF TypeOK, FlagsOK, CountersOK
<1>3. QED
  BY <1>1, <1>2

LEMMA StepSupervised ==
  /\ ~VisibleClosing /\ ~HandlersThrow
  /\ TypeOK /\ AttemptHoldsLock /\ Supervised
  /\ [Next]_vars
  => Supervised'
<1> SUFFICES ASSUME ~VisibleClosing, ~HandlersThrow, TypeOK,
                    AttemptHoldsLock, Supervised, [Next]_vars
             PROVE  Supervised'
  OBVIOUS
<1>0. /\ ws \in Up \cup Down
      /\ listening \in BOOLEAN /\ lock \in BOOLEAN
      /\ shouldReconnect \in BOOLEAN /\ closeCalled \in BOOLEAN
      /\ connectTimer \in BOOLEAN /\ uptimeTimer \in BOOLEAN
      /\ retryCount \in -1..MaxRetries
      /\ MaxRetries \in Nat
      /\ -1 \in -1..MaxRetries
  BY ConstantsAssumption DEF ConstantsAssumption, TypeOK, FlagsOK, CountersOK
\* A handler that cleared the timers and will be resumed, or left no one
\* stranded, supervises.
<1>a. ASSUME ~connectTimer', ~uptimeTimer', UNCHANGED strayVars,
             closeCalled' => ~shouldReconnect',
             ~(ws' \in Up /\ listening'),
             \/ suspended' # "none"
             \/ shouldReconnect' => lock' \/ retryCount' >= MaxRetries
      PROVE  Supervised'
  BY <1>a DEF Supervised, NeverStranded
\* A step that leaves the supervised fields alone.
<1>b. ASSUME UNCHANGED <<ws, listening, lock, retryCount, shouldReconnect,
                         closeCalled, timerVars, suspended>>
      PROVE  Supervised'
  BY <1>b DEF Supervised, NeverStranded
<1>1. ASSUME NEW valid \in BOOLEAN, Close(valid) PROVE Supervised'
  <2>1. CASE ws \in Up /\ valid
    <3>1. /\ HandleClose(lock, FALSE, retryCount, FALSE)
          /\ UNCHANGED strayVars
          /\ ws' = "closing"
      BY <1>1, <2>1 DEF Close
    <3>2. ~shouldReconnect' /\ ~connectTimer' /\ ~uptimeTimer'
      BY <1>0, <3>1, HandleCloseSupervises
    <3>3. QED
      BY <3>1, <3>2, <1>a
  <2>2. CASE ~(ws \in Up /\ valid)
    <3>1. /\ ~shouldReconnect' /\ ~connectTimer' /\ ~uptimeTimer'
          /\ UNCHANGED strayVars
          /\ ~(ws' \in Up /\ listening')
      BY <1>0, <1>1, <2>2 DEF Close, ClearTimeouts
    <3>2. QED
      BY <3>1, <1>a
  <2>3. QED
    BY <2>1, <2>2
<1>2. ASSUME NEW valid \in BOOLEAN, Reconnect(valid) PROVE Supervised'
  <2>0. ~closeCalled' /\ UNCHANGED strayVars
    BY <1>2 DEF Reconnect
  <2>1. CASE ws \in Up /\ valid
    <3>1. /\ HandleClose(lock, TRUE, -1, FALSE)
          /\ suspended' = "reconnect" /\ ws' = "closing"
      BY <1>2, <2>1 DEF Reconnect
    <3>2. ~connectTimer' /\ ~uptimeTimer'
      BY <3>1 DEF HandleClose, ClearTimeouts
    <3>3. QED
      BY <2>0, <3>1, <3>2, <1>a
  <2>2. CASE ws \in Up /\ ~valid
    <3>1. /\ Connect(lock, TRUE, -1, FALSE) /\ ~listening'
          /\ ~connectTimer' /\ ~uptimeTimer'
      BY <1>2, <2>2 DEF Reconnect, ClearTimeouts, Connect
    <3>2. lock' \/ retryCount' >= MaxRetries
      BY <1>0, <3>1, ConnectSupervises
    <3>3. QED
      BY <2>0, <3>1, <3>2, <1>a
  <2>3. CASE ws \in Down
    <3>1. /\ Connect(lock, TRUE, -1, listening)
          /\ UNCHANGED <<ws, connectTimer, uptimeTimer>>
      BY <1>2, <2>3 DEF Reconnect
    <3>2. lock' \/ retryCount' >= MaxRetries
      BY <1>0, <3>1, ConnectSupervises
    <3>3. ~connectTimer /\ ~uptimeTimer
      BY <2>3 DEF Supervised
    <3>4. QED
      BY <2>0, <2>3, <3>1, <3>2, <3>3, <1>a
  <2>4. QED
    BY <1>0, <2>1, <2>2, <2>3
<1>3. ASSUME NEW m \in Messages, Send(m) PROVE Supervised'
  BY <1>3, <1>b DEF Send
<1>4. CASE DrainQueuedMessages
  BY <1>4, <1>b DEF DrainQueuedMessages
<1>5. CASE Return
  <2>0. /\ ~Idle
        /\ UNCHANGED <<ws, shouldReconnect, closeCalled, timerVars>>
        /\ ~connectTimer /\ ~uptimeTimer
        /\ ~(ws \in Up /\ listening)
        /\ listening' => listening
    BY <1>0, <1>5 DEF Return, Supervised, Connect
  <2>1. CASE suspended = "disconnect"
    <3>1. suspended' = "error"
      BY <1>5, <2>1 DEF Return
    <3>2. QED
      BY <2>0, <3>1, <1>a DEF Supervised
  <2>2. CASE suspended # "disconnect"
    <3>1. Connect(lock, shouldReconnect, retryCount, listening)
      BY <1>5, <2>2 DEF Return
    <3>2. shouldReconnect => lock' \/ retryCount' >= MaxRetries
      BY <1>0, <3>1, ConnectSupervises
    <3>3. QED
      BY <2>0, <3>2, <1>a DEF Supervised
  <2>3. QED
    BY <2>1, <2>2
<1>6. CASE ErrorHandlerThrows
  BY <1>6 DEF ErrorHandlerThrows
<1>7. CASE WaitElapses
  BY <1>7, <1>b DEF WaitElapses
<1>8. CASE AttemptConnects
  <2>0. Idle /\ UNCHANGED <<shouldReconnect, closeCalled, retryCount,
                            suspended>> /\ lock' = FALSE
    BY <1>8 DEF AttemptConnects, ReleaseLock
  <2>1. CASE closeCalled
    <3>1. UNCHANGED <<ws, listening, timerVars>>
      BY <1>8, <2>1 DEF AttemptConnects, GivesUp
    <3>2. QED
      BY <2>0, <2>1, <3>1 DEF Supervised, NeverStranded
  <2>2. CASE ~closeCalled
    <3>1. /\ ws' = "connecting" /\ listening' = TRUE
          /\ connectTimer' = TRUE /\ strayConnect' = (strayConnect \/ connectTimer)
          /\ UNCHANGED <<uptimeTimer, strayUptime>>
      BY <1>8, <2>2 DEF AttemptConnects, GivesUp, ArmConnectTimer
    <3>2. ~connectTimer /\ ~uptimeTimer
      <4>1. resolving > 0 /\ resolving \in Nat /\ waiting \in Nat
        BY <1>8 DEF AttemptConnects, TypeOK, CountersOK
      <4>2. lock
        BY <4>1 DEF AttemptHoldsLock
      <4>3. QED
        BY <4>2 DEF Supervised
    <3>3. QED
      BY <2>0, <2>2, <3>1, <3>2 DEF Supervised, NeverStranded
  <2>3. QED
    BY <2>1, <2>2
<1>9. CASE AttemptFails
  <2>1. HandleError(FALSE, ws) /\ UNCHANGED <<closeCalled, strayVars>>
    BY <1>9 DEF AttemptFails
  <2>2. QED
    BY <1>0, <2>1, <1>a, HandleErrorSupervises DEF Supervised
<1>10. CASE ConnectTimeoutFires
  <2>1. HandleError(lock, ws) /\ UNCHANGED <<closeCalled, strayVars>>
    BY <1>10 DEF ConnectTimeoutFires, Supervised
  <2>2. QED
    BY <1>0, <2>1, <1>a, HandleErrorSupervises DEF Supervised
<1>11. CASE UptimeTimerFires
  <2>1. /\ uptimeTimer /\ uptimeTimer' = FALSE
        /\ UNCHANGED <<ws, listening, lock, shouldReconnect, closeCalled,
                       connectTimer, strayVars, suspended>>
    BY <1>11 DEF UptimeTimerFires, Supervised
  <2>2. QED
    BY <2>1 DEF Supervised, NeverStranded
<1>12. CASE WsOpens
  <2>0. /\ Idle /\ ws = "connecting" /\ ws' = "open"
        /\ UNCHANGED <<listening, lock, retryCount, shouldReconnect,
                       closeCalled, strayConnect, suspended>>
    BY <1>12 DEF WsOpens
  <2>1. CASE listening
    <3>1. /\ connectTimer' = FALSE /\ uptimeTimer' = TRUE
          /\ strayUptime' = (strayUptime \/ uptimeTimer)
      BY <1>12, <2>1 DEF WsOpens
    <3>2. ~uptimeTimer /\ ~strayUptime
      BY <2>0 DEF Supervised
    <3>3. ~lock
      BY <2>0, <2>1 DEF Supervised
    <3>4. QED
      BY <2>0, <2>1, <3>1, <3>2, <3>3 DEF Supervised, NeverStranded
  <2>2. CASE ~listening
    <3>1. UNCHANGED <<connectTimer, uptimeTimer, strayUptime>>
      BY <1>12, <2>2 DEF WsOpens
    <3>2. QED
      BY <2>0, <2>2, <3>1 DEF Supervised, NeverStranded
  <2>3. QED
    BY <2>1, <2>2
<1>13. CASE WsStartsClosing
  BY <1>13 DEF WsStartsClosing
<1>14. CASE WsFails
  <2>0. UNCHANGED <<closeCalled, strayVars>>
    BY <1>14 DEF WsFails
  <2>1. CASE listening
    <3>1. HandleError(lock, "closed")
      BY <1>14, <2>1 DEF WsFails
    <3>2. QED
      BY <1>0, <2>0, <3>1, <1>a, HandleErrorSupervises DEF Supervised
  <2>2. CASE ~listening
    <3>1. UNCHANGED <<listening, lock, retryCount, shouldReconnect,
                      connectTimer, uptimeTimer, suspended>>
      BY <1>14, <2>2 DEF WsFails
    <3>2. QED
      BY <2>0, <2>2, <3>1 DEF Supervised, NeverStranded
  <2>3. QED
    BY <2>1, <2>2
<1>15. CASE WsCloses
  <2>0. UNCHANGED <<closeCalled, strayVars, suspended>>
    BY <1>15 DEF WsCloses
  <2>1. CASE listening
    <3>1. HandleClose(lock, shouldReconnect, retryCount, TRUE)
          /\ ws' = "closed"
      BY <1>15, <2>1 DEF WsCloses
    <3>2. QED
      BY <1>0, <2>0, <3>1, <1>a, HandleCloseSupervises DEF Supervised
  <2>2. CASE ~listening
    <3>1. UNCHANGED <<listening, lock, retryCount, shouldReconnect,
                      connectTimer, uptimeTimer>>
      BY <1>15, <2>2 DEF WsCloses
    <3>2. QED
      BY <2>0, <2>2, <3>1 DEF Supervised, NeverStranded
  <2>3. QED
    BY <2>1, <2>2
<1>16. CASE UNCHANGED vars
  BY <1>16, <1>b DEF vars
<1>17. QED
  BY <1>1, <1>2, <1>3, <1>4, <1>5, <1>6, <1>7, <1>8, <1>9, <1>10, <1>11,
     <1>12, <1>13, <1>14, <1>15, <1>16 DEF Next, Consumer, ValidCodes

LEMMA SupervisedInvariant ==
  ~VisibleClosing /\ ~HandlersThrow /\ Spec => []Supervised
<1> SUFFICES ASSUME ~VisibleClosing, ~HandlersThrow
             PROVE  Spec => []Supervised
  OBVIOUS
<1>1. Init => Supervised
  BY ConstantsAssumption DEF ConstantsAssumption, Init, MayConnect,
                             Supervised, NeverStranded
<1>2. TypeOK /\ AttemptHoldsLock /\ Supervised /\ [Next]_vars => Supervised'
  BY StepSupervised
<1>3. QED
  BY <1>1, <1>2, TypeCorrect, LockAccountsForAttempts, PTL DEF Spec

(* A socket that should reconnect always has an attempt in flight, a socket *)
(* whose end it will hear of, a handler about to call _connect(), or no     *)
(* retries left, even when close() is given codes the platform refuses.     *)
THEOREM SocketIsNeverStranded ==
  ~VisibleClosing /\ ~HandlersThrow /\ Spec => []NeverStranded
<1>1. Supervised => NeverStranded
  BY DEF Supervised
<1>2. QED
  BY <1>1, SupervisedInvariant, PTL

(* A running timer belongs to the inner socket that is there.               *)
THEOREM TimersBelongToSocket ==
  ~VisibleClosing /\ ~HandlersThrow /\ Spec => []TimersMatchSocket
<1>1. Supervised => TimersMatchSocket
  BY DEF Supervised, TimersMatchSocket
<1>2. QED
  BY <1>1, SupervisedInvariant, PTL

-----------------------------------------------------------------------------
(* An inner socket that was taken down by us or by the network, rather than *)
(* found CLOSING, has had its close event dispatched.                       *)
Announced == ws \in {"closing", "closed"} => closeEvents > 0

LEMMA HandleCloseAnnounces ==
  ASSUME NEW locked, NEW should, NEW rc, NEW heard,
         HandleClose(locked, should, rc, heard)
  PROVE  closeEvents' > 0
<1>1. closeEvents' \in {1, 2}
  BY DEF HandleClose, DispatchClose
<1>2. QED
  BY <1>1

LEMMA HandleErrorAnnounces ==
  ASSUME NEW locked, NEW w \in Up \cup Down, HandleError(locked, w),
         w = "none" => ws = "none"
  PROVE  ws' = "none" \/ closeEvents' > 0
<1>1. CASE w = "none"
  BY <1>1 DEF HandleError
<1>2. CASE w # "none"
  BY <1>2, HandleCloseAnnounces DEF HandleError
<1>3. QED
  BY <1>1, <1>2

LEMMA StepAnnounced ==
  /\ ~VisibleClosing /\ ~InvalidCodes
  /\ TypeOK /\ Exclusive /\ Announced
  /\ [Next]_vars
  => Announced'
<1> SUFFICES ASSUME ~VisibleClosing, ~InvalidCodes, TypeOK, Exclusive,
                    Announced, [Next]_vars
             PROVE  Announced'
  OBVIOUS
<1>0. /\ ws \in Up \cup Down
      /\ ws \in Up => listening
      /\ lock \in BOOLEAN
  BY DEF TypeOK, FlagsOK, Exclusive
<1>a. ASSUME UNCHANGED <<ws, closeEvents>> PROVE Announced'
  BY <1>a DEF Announced
<1>1. CASE Close(TRUE)
  <2>1. CASE ws \in Up
    BY <1>1, <2>1, HandleCloseAnnounces DEF Close, Announced
  <2>2. CASE ws \notin Up
    BY <1>1, <2>2, <1>a DEF Close
  <2>3. QED
    BY <2>1, <2>2
<1>2. CASE Reconnect(TRUE)
  <2>1. CASE ws \in Up
    <3>1. HandleClose(lock, TRUE, -1, FALSE)
      BY <1>2, <2>1 DEF Reconnect
    <3>2. QED
      BY <3>1, HandleCloseAnnounces DEF Announced
  <2>2. CASE ws \in Down
    BY <1>2, <2>2, <1>a DEF Reconnect
  <2>3. QED
    BY <1>0, <2>1, <2>2
<1>3. CASE \/ \E m \in Messages : Send(m)
           \/ DrainQueuedMessages \/ Return \/ ErrorHandlerThrows
           \/ WaitElapses \/ UptimeTimerFires
  BY <1>3, <1>a DEF Send, DrainQueuedMessages, Return, ErrorHandlerThrows,
                    WaitElapses, UptimeTimerFires
<1>4. CASE AttemptConnects
  BY <1>4 DEF AttemptConnects, GivesUp, Announced
<1>5. CASE AttemptFails \/ ConnectTimeoutFires
  <2>1. \E locked : HandleError(locked, ws)
    BY <1>5 DEF AttemptFails, ConnectTimeoutFires
  <2>2. QED
    BY <1>0, <2>1, HandleErrorAnnounces DEF Announced
<1>6. CASE WsOpens \/ WsStartsClosing
  BY <1>6 DEF WsOpens, WsStartsClosing, Announced
<1>7. CASE WsFails
  <2>1. CASE listening
    <3>1. HandleError(lock, "closed")
      BY <1>7, <2>1 DEF WsFails
    <3>2. QED
      BY <3>1, HandleErrorAnnounces DEF Announced
  <2>2. CASE ~listening
    BY <1>0, <1>7, <2>2 DEF WsFails, Announced
  <2>3. QED
    BY <2>1, <2>2
<1>8. CASE WsCloses
  <2>1. CASE listening
    BY <1>8, <2>1, HandleCloseAnnounces DEF WsCloses, Announced
  <2>2. CASE ~listening
    BY <1>0, <1>8, <2>2 DEF WsCloses, Announced
  <2>3. QED
    BY <2>1, <2>2
<1>9. CASE UNCHANGED vars
  BY <1>9, <1>a DEF vars
<1>10. QED
  BY <1>1, <1>2, <1>3, <1>4, <1>5, <1>6, <1>7, <1>8, <1>9
     DEF Next, Consumer, ValidCodes

(* Where CLOSING is not visible early and close codes are valid, no socket  *)
(* is replaced before the consumer got its close event.                     *)
THEOREM ReplacedWasAnnounced ==
  ~VisibleClosing /\ ~InvalidCodes /\ Spec => []ReplacedOnlyAfterClose
<1> SUFFICES ASSUME ~VisibleClosing, ~InvalidCodes
             PROVE  Spec => []ReplacedOnlyAfterClose
  OBVIOUS
<1>1. Init => Announced
  BY DEF Init, Announced
<1>2. TypeOK /\ Exclusive /\ Announced /\ [Next]_vars => Announced'
  BY StepAnnounced
<1>3. TypeOK /\ Exclusive /\ Announced => ReplacedOnlyAfterClose
  BY DEF TypeOK, FlagsOK, Exclusive, Announced, ReplacedOnlyAfterClose
<1>4. QED
  BY <1>1, <1>2, <1>3, TypeCorrect, ExclusiveInvariant, PTL DEF Spec

-----------------------------------------------------------------------------

(* On every platform and for every constant, no inner socket is created     *)
(* between close() and the next reconnect().                                *)
THEOREM CloseStopsAttempts == Spec => NoSocketAfterClose
<1>1. TypeOK /\ [Next]_vars =>
        [closeCalled /\ closeCalled' =>
           \/ ws' = ws
           \/ ws' \in {"closing", "closed"}
           \/ ws = "connecting" /\ ws' = "open"]_vars
  <2> SUFFICES ASSUME TypeOK, Next, closeCalled, closeCalled'
               PROVE  \/ ws' = ws
                      \/ ws' \in {"closing", "closed"}
                      \/ ws = "connecting" /\ ws' = "open"
    BY DEF vars
  <2>0. ws \in Up \cup Down
    BY DEF TypeOK, FlagsOK
  <2>1. ASSUME NEW locked, NEW w \in Up \cup Down, HandleError(locked, w)
        PROVE  ws' = ws \/ ws' \in {"closing", "closed"}
    BY <2>1 DEF HandleError, CloseInner
  <2>2. CASE AttemptConnects
    BY <2>2 DEF AttemptConnects, GivesUp
  <2>3. CASE AttemptFails \/ ConnectTimeoutFires \/ WsFails
    BY <2>0, <2>1, <2>3 DEF AttemptFails, ConnectTimeoutFires, WsFails
  <2>4. CASE WsOpens \/ WsStartsClosing \/ WsCloses
    BY <2>4 DEF WsOpens, WsStartsClosing, WsCloses
  <2>5. CASE Return \/ ErrorHandlerThrows \/ WaitElapses \/ UptimeTimerFires
    BY <2>5 DEF Return, ErrorHandlerThrows, WaitElapses, UptimeTimerFires
  <2>6. CASE Consumer
    BY <2>6 DEF Consumer, Close, Reconnect, Send, DrainQueuedMessages
  <2>7. QED
    BY <2>2, <2>3, <2>4, <2>5, <2>6 DEF Next
<1>2. QED
  BY <1>1, TypeCorrect, PTL DEF Spec, NoSocketAfterClose

-----------------------------------------------------------------------------
(* The socket implements Link, on every platform with valid close codes,    *)
(* and whatever onerror does.  Exclusive says that a socket that is up has  *)
(* no attempt beside it and, when open, an empty buffer; Stopped, that      *)
(* nothing comes up or is retried after close().                            *)

Stopped == closeCalled => ~shouldReconnect /\ ws \in Down

(* What _connect() starts, it starts because it should.                     *)
LEMMA ConnectMeansShould ==
  ASSUME NEW locked \in BOOLEAN, NEW should \in BOOLEAN, NEW rc, NEW heard,
         Connect(locked, should, rc, heard)
  PROVE  lock' => locked \/ should
BY DEF Connect, MayConnect

LEMMA HandleCloseMeansShould ==
  ASSUME NEW locked \in BOOLEAN, NEW should \in BOOLEAN, NEW rc, NEW heard,
         HandleClose(locked, should, rc, heard)
  PROVE  /\ lock' => locked \/ should
         /\ shouldReconnect' => should
<1>1. PICK agreed \in BOOLEAN :
        /\ shouldReconnect' = (should /\ agreed)
        /\ Connect(locked, should /\ agreed, rc, heard)
  BY DEF HandleClose
<1>2. (should /\ agreed) \in BOOLEAN
  OBVIOUS
<1>3. lock' => locked \/ (should /\ agreed)
  BY <1>1, <1>2, ConnectMeansShould
<1>4. QED
  BY <1>1, <1>3

LEMMA HandleErrorMeansShould ==
  ASSUME TypeOK, NEW locked \in BOOLEAN, NEW w \in Up \cup Down,
         HandleError(locked, w), w = "none" => ws = "none"
  PROVE  /\ lock' => locked \/ shouldReconnect
         /\ shouldReconnect' => shouldReconnect
         /\ ws' \in Down
<1>1. CASE w = "none"
  BY <1>1 DEF HandleError
<1>2. CASE w # "none"
  <2>1. HandleClose(locked, shouldReconnect, retryCount, FALSE)
    BY <1>2 DEF HandleError
  <2>2. ws' \in Down
    BY HandleErrorTypes
  <2>3. QED
    BY <2>1, <2>2, HandleCloseMeansShould DEF TypeOK, FlagsOK
<1>3. QED
  BY <1>1, <1>2

(* A step after which the inner socket is down and that takes, transmits    *)
(* and closes nothing: what the failure handlers have in common.            *)
Falls ==
  /\ ws' \in Down
  /\ lock' => lock \/ shouldReconnect
  /\ shouldReconnect' => shouldReconnect
  /\ UNCHANGED <<closeCalled, queueVars>>

LEMMA FailuresFall ==
  ASSUME TypeOK, AttemptHoldsLock,
         AttemptFails \/ ConnectTimeoutFires \/ WsFails \/ WsCloses
           \/ WsStartsClosing
  PROVE  Falls
<1>0. /\ ws \in Up \cup Down /\ lock \in BOOLEAN
      /\ shouldReconnect \in BOOLEAN
  BY DEF TypeOK, FlagsOK
<1>1. CASE AttemptFails
  <2>1. HandleError(FALSE, ws) /\ UNCHANGED <<closeCalled, queueVars>>
    BY <1>1 DEF AttemptFails
  <2>2. QED
    BY <1>0, <2>1, HandleErrorMeansShould DEF Falls
<1>2. CASE ConnectTimeoutFires
  <2>1. HandleError(lock, ws) /\ UNCHANGED <<closeCalled, queueVars>>
    BY <1>2 DEF ConnectTimeoutFires
  <2>2. QED
    BY <1>0, <2>1, HandleErrorMeansShould DEF Falls
<1>3. CASE WsFails /\ listening
  <2>1. HandleError(lock, "closed") /\ UNCHANGED <<closeCalled, queueVars>>
    BY <1>3 DEF WsFails
  <2>2. QED
    BY <1>0, <2>1, HandleErrorMeansShould DEF Falls
<1>4. CASE WsCloses /\ listening
  <2>1. /\ HandleClose(lock, shouldReconnect, retryCount, TRUE)
        /\ ws' = "closed" /\ UNCHANGED <<closeCalled, queueVars>>
    BY <1>4 DEF WsCloses
  <2>2. QED
    BY <1>0, <2>1, HandleCloseMeansShould DEF Falls
<1>5. CASE (WsFails \/ WsCloses) /\ ~listening
  BY <1>5 DEF WsFails, WsCloses, Falls
<1>6. CASE WsStartsClosing
  BY <1>6 DEF WsStartsClosing, Falls
<1>7. QED
  BY <1>1, <1>2, <1>3, <1>4, <1>5, <1>6

(* After close() nothing is retried and nothing comes up again.             *)
LEMMA StepStopped ==
  /\ ~InvalidCodes /\ TypeOK /\ AttemptHoldsLock /\ Exclusive /\ Stopped
  /\ [Next]_vars
  => Stopped'
<1> SUFFICES ASSUME ~InvalidCodes, TypeOK, AttemptHoldsLock, Exclusive,
                    Stopped, [Next]_vars
             PROVE  Stopped'
  OBVIOUS
<1>0. /\ ws \in Up \cup Down /\ lock \in BOOLEAN
      /\ shouldReconnect \in BOOLEAN
  BY DEF TypeOK, FlagsOK
<1>1. CASE Close(TRUE)
  <2>1. CASE ws \in Up
    <3>1. HandleClose(lock, FALSE, retryCount, FALSE) /\ ws' = "closing"
      BY <1>1, <2>1 DEF Close
    <3>2. QED
      BY <1>0, <3>1, HandleCloseMeansShould DEF Stopped
  <2>2. CASE ws \in Down
    BY <1>1, <2>2 DEF Close, Stopped
  <2>3. QED
    BY <1>0, <2>1, <2>2
<1>2. CASE Reconnect(TRUE)
  BY <1>2 DEF Reconnect, Stopped
<1>3. CASE \/ \E m \in Messages : Send(m)
           \/ DrainQueuedMessages \/ Return \/ ErrorHandlerThrows
           \/ WaitElapses \/ UptimeTimerFires
  BY <1>3 DEF Send, DrainQueuedMessages, Return, ErrorHandlerThrows,
              WaitElapses, UptimeTimerFires, Stopped
<1>4. CASE AttemptConnects
  BY <1>4 DEF AttemptConnects, GivesUp, Stopped
<1>5. CASE AttemptFails \/ ConnectTimeoutFires \/ WsFails \/ WsCloses
             \/ WsStartsClosing
  BY <1>0, <1>5, FailuresFall DEF Falls, Stopped
<1>6. CASE WsOpens
  BY <1>6 DEF WsOpens, Stopped
<1>7. CASE UNCHANGED vars
  BY <1>7 DEF vars, Stopped
<1>8. QED
  BY <1>1, <1>2, <1>3, <1>4, <1>5, <1>6, <1>7 DEF Next, Consumer, ValidCodes

-----------------------------------------------------------------------------
(* The mapped variables.                                                    *)

LinkState == IF ws = "open" THEN "up"
             ELSE IF ws = "connecting" \/ lock THEN "trying" ELSE "down"

LEMMA InitLink == Init => Promise!Init
BY DEF Init, Promise!Init

LEMMA FallsIsLink ==
  TypeOK /\ Exclusive /\ Stopped /\ Falls => [Promise!Next]_Promise!vars
<1> SUFFICES ASSUME TypeOK, Exclusive, Stopped, Falls
             PROVE  [Promise!Next]_Promise!vars
  OBVIOUS
<1>0. /\ ws \in Up \cup Down /\ lock \in BOOLEAN
      /\ UNCHANGED <<closeCalled, accepted, out>>
      /\ ws' # "open" /\ ws' # "connecting"
  BY DEF TypeOK, FlagsOK, Falls
<1>1. CASE ~lock'
  BY <1>0, <1>1 DEF Promise!Next, Promise!GoesDown, Promise!vars
<1>2. CASE lock'
  <2>1. lock \/ ~closeCalled
    BY <1>2 DEF Falls, Stopped
  <2>2. lock => LinkState = "trying"
    BY DEF Exclusive, LinkState
  <2>3. CASE LinkState = "trying"
    BY <1>0, <1>2, <2>3 DEF LinkState, Promise!vars
  <2>4. CASE LinkState = "up"
    BY <1>0, <1>2, <2>1, <2>2, <2>4 DEF LinkState, Promise!Next, Promise!GoesDown
  <2>5. CASE LinkState = "down"
    BY <1>0, <1>2, <2>1, <2>2, <2>5 DEF LinkState, Promise!Next, Promise!Try
  <2>6. QED
    BY <2>3, <2>4, <2>5 DEF LinkState
<1>3. QED
  BY <1>1, <1>2

LEMMA StepLink ==
  /\ ~InvalidCodes /\ TypeOK /\ AttemptHoldsLock /\ Exclusive /\ Stopped
  /\ [Next]_vars
  => [Promise!Next]_Promise!vars
<1> SUFFICES ASSUME ~InvalidCodes, TypeOK, AttemptHoldsLock, Exclusive,
                    Stopped, [Next]_vars
             PROVE  [Promise!Next]_Promise!vars
  OBVIOUS
<1>0. /\ ws \in Up \cup Down /\ lock \in BOOLEAN
      /\ shouldReconnect \in BOOLEAN
      /\ accepted \in Seq(Messages) /\ out \in Seq(Messages)
      /\ out \o queue = accepted
  BY DEF TypeOK, FlagsOK, BufferOK, Exclusive, NothingLostOrReordered
<1>1. CASE Close(TRUE)
  <2>1. closeCalled' = TRUE /\ UNCHANGED <<accepted, out>>
    BY <1>1 DEF Close
  <2>2. CASE ws \in Up
    <3>1. HandleClose(lock, FALSE, retryCount, FALSE) /\ ws' = "closing"
      BY <1>1, <2>2 DEF Close
    <3>2. ~lock'
      BY <1>0, <2>2, <3>1, HandleCloseMeansShould DEF Exclusive
    <3>3. QED
      BY <2>1, <3>1, <3>2 DEF Promise!Next, Promise!Stop
  <2>3. CASE ws \in Down
    <3>1. UNCHANGED <<ws, lock>>
      BY <1>1, <2>3 DEF Close
    <3>2. QED
      BY <2>1, <2>3, <3>1 DEF Promise!Next, Promise!Stop
  <2>4. QED
    BY <1>0, <2>2, <2>3
<1>2. CASE Reconnect(TRUE)
  <2>1. /\ closeCalled' = FALSE /\ UNCHANGED <<accepted, out>>
        /\ ws' \in Down
    BY <1>2 DEF Reconnect
  <2>2. QED
    BY <2>1 DEF Promise!Next, Promise!Start
<1>3. ASSUME NEW m \in Messages, Send(m)
      PROVE  [Promise!Next]_Promise!vars
  <2>1. UNCHANGED <<ws, lock, closeCalled>> /\ accepted' = Append(accepted, m)
    BY <1>3 DEF Send
  <2>2. CASE ws = "open"
    <3>1. out = accepted
      BY <1>0, <2>2, ConcatEmptySeq DEF Exclusive
    <3>2. Promise!Take(m)
      BY <1>3, <2>1, <2>2, <3>1 DEF Send, Promise!Take
    <3>3. QED
      BY <3>2 DEF Promise!Next
  <2>3. CASE ws # "open"
    <3>1. Promise!Take(m)
      BY <1>3, <2>1, <2>3 DEF Send, Promise!Take
    <3>2. QED
      BY <3>1 DEF Promise!Next
  <2>4. QED
    BY <2>2, <2>3
<1>4. CASE DrainQueuedMessages
  <2>1. Promise!Drain
    BY <1>0, <1>4 DEF DrainQueuedMessages, Promise!Drain
  <2>2. QED
    BY <2>1 DEF Promise!Next
<1>5. CASE Return
  <2>1. ws \in Down /\ UNCHANGED <<ws, closeCalled, accepted, out>>
    BY <1>0, <1>5 DEF Return, Exclusive
  <2>2. lock' => lock \/ shouldReconnect
    BY <1>0, <1>5, ConnectMeansShould DEF Return
  <2>3. lock' = lock \/ (lock' /\ ~lock)
    BY <1>0, <1>5 DEF Return, Connect
  <2>4. CASE lock' = lock
    BY <2>1, <2>4 DEF Promise!vars
  <2>5. CASE lock' /\ ~lock
    <3>1. Promise!Try
      BY <2>1, <2>2, <2>5 DEF Stopped, Promise!Try
    <3>2. QED
      BY <3>1 DEF Promise!Next
  <2>6. QED
    BY <2>3, <2>4, <2>5
<1>6. CASE ErrorHandlerThrows \/ WaitElapses \/ UptimeTimerFires
  BY <1>6 DEF ErrorHandlerThrows, WaitElapses, UptimeTimerFires, Promise!vars
<1>7. CASE AttemptConnects
  <2>1. lock
    BY <1>7 DEF AttemptConnects, AttemptHoldsLock, TypeOK, CountersOK
  <2>2. ws \in Down
    BY <1>0, <2>1 DEF Exclusive
  <2>3. UNCHANGED <<closeCalled, accepted, out>> /\ lock' = FALSE
    BY <1>7 DEF AttemptConnects, ReleaseLock
  <2>4. CASE closeCalled
    <3>1. ws' = ws
      BY <1>7, <2>4 DEF AttemptConnects, GivesUp
    <3>2. Promise!GoesDown
      BY <2>1, <2>2, <2>3, <3>1 DEF Promise!GoesDown
    <3>3. QED
      BY <3>2 DEF Promise!Next
  <2>5. CASE ~closeCalled
    <3>1. ws' = "connecting"
      BY <1>7, <2>5 DEF AttemptConnects, GivesUp
    <3>2. QED
      BY <2>1, <2>2, <2>3, <3>1 DEF Promise!vars
  <2>6. QED
    BY <2>4, <2>5
<1>8. CASE AttemptFails \/ ConnectTimeoutFires \/ WsFails \/ WsCloses
             \/ WsStartsClosing
  BY <1>8, FailuresFall, FallsIsLink
<1>9. CASE WsOpens
  <2>1. /\ ws = "connecting" /\ ws' = "open" /\ listening /\ ~closeCalled
        /\ UNCHANGED <<closeCalled, accepted>> /\ out' = out \o queue
    BY <1>9 DEF WsOpens, Exclusive, Stopped, Flush
  <2>2. Promise!ComesUp
    BY <1>0, <2>1 DEF Promise!ComesUp
  <2>3. QED
    BY <2>2 DEF Promise!Next
<1>10. CASE UNCHANGED vars
  BY <1>10 DEF vars, Promise!vars
<1>11. QED
  BY <1>1, <1>2, <1>3, <1>4, <1>5, <1>6, <1>7, <1>8, <1>9, <1>10
     DEF Next, Consumer, ValidCodes

(* The detailed socket implements the abstract link: its consumer may rely  *)
(* on a link that comes up and goes down, buffers in between and delivers   *)
(* what was buffered first, and never comes up after close().               *)
THEOREM SocketImplementsLink == ~InvalidCodes /\ Spec => ImplementsLink
<1> SUFFICES ASSUME ~InvalidCodes PROVE Spec => ImplementsLink
  OBVIOUS
<1>1. Init => Stopped
  BY DEF Init, Stopped
<1>2. QED
  BY <1>1, InitLink, StepLink, StepStopped, TypeCorrect,
     LockAccountsForAttempts, ExclusiveInvariant, PTL
     DEF Spec, ImplementsLink, Promise!Spec
=============================================================================
