------------------------------ MODULE Tracks ------------------------------
(***************************************************************************)
(* partytracks/src/client: pushing tracks to an SFU and pulling them back. *)
(* A subscriber of push() or pull() is a stream.  Its requests are batched *)
(* per event-loop turn (BulkRequestDispatcher, one for pushes, one for     *)
(* pulls, one for closes), and the batches run one at a time               *)
(* (FIFOScheduler).  All streams share one peer connection and one SFU     *)
(* session; when the connection fails, a new pair is made and every stream *)
(* asks again.                                                             *)
(*                                                                         *)
(* What JavaScript does within one turn is split into steps (one stream    *)
(* asking, one promise settling), and Quiet keeps everything else out      *)
(* until the turn is over.  An entry names one transceiver: which stream   *)
(* it is for, the n-th one the stream made, and the session it belongs to. *)
(***************************************************************************)
EXTENDS Integers, Sequences, FiniteSets

CONSTANTS
  Pushes, Pulls,   \* the streams
  BatchLimit,      \* the dispatchers' batchSizeLimit (32 in the code)
  MaxSessions,     \* bound: sessions made
  Bounds           \* the bounds a behaviour may have: entries, the transceivers
                   \* each stream makes; faults, the failed requests, unanswered
                   \* entries and disconnections

ASSUME ConstantsAssumption ==
  /\ Pushes \cap Pulls = {}
  /\ BatchLimit \in Nat \ {0}
  /\ MaxSessions \in Nat
  /\ Bounds \subseteq [entries : [Pushes \cup Pulls -> Nat], faults : Nat]

VARIABLES
  session,    \* the session session$ emitted last, 0 before the first
  pc,         \* the state of its peer connection, "none" when not subscribed
  phase,      \* of each stream: off, idle (no session yet), due (asks within
              \* this turn), asked, retrying, sending (pushed, no data sent
              \* yet), live, stuck (nothing will make it ask again within
              \* this session), errored
  n,          \* the number of transceivers each stream has asked for
  timers,     \* the pending setTimeout(0) callbacks of the dispatchers
  tasks,      \* the bulk requests given to the FIFOScheduler, the head runs
  answers,    \* promises of a finished task that have not run their .then
  sfu,        \* entries the SFU holds for the current session
  stopped,    \* entries whose transceiver was stopped
  abandoned,  \* history: entries the client gave up without a close request
  refused,    \* history: entries a response listed, but the SFU does not hold
  sent,       \* history: entries timers wait for that a request has carried
  split,      \* history: kinds that met a full batch and have timers since
  faults,     \* bound: failures so far
  bounds      \* the bounds of this behaviour

streamVars == <<phase, n>>
requestVars == <<timers, tasks, answers>>
sfuVars == <<sfu, stopped, abandoned, refused>>
batchVars == <<sent, split>>
vars == <<session, pc, streamVars, requestVars, sfuVars, batchVars, faults, bounds>>

Streams == Pushes \cup Pulls
Usable == {"new", "connecting", "connected", "disconnected"}

Kind(t) == IF t \in Pushes THEN "push" ELSE "pull"
Latest(t) == [stream |-> t, n |-> n[t], session |-> session]

On(t) == phase[t] \notin {"off", "errored"}
Quiet == answers = {} /\ \A t \in Streams : phase[t] # "due"

-----------------------------------------------------------------------------
(* BulkRequestDispatcher.  #currentBatch is the array of every timer of the *)
(* kind that is still `current'; what was pushed into it is recorded with   *)
(* the first of them, which will splice it.  #currentBulkResponse is the    *)
(* promise of the timer that is `joinable'.                                 *)

Holders(ts, kind) == {i \in DOMAIN ts : ts[i].kind = kind /\ ts[i].current}
Holder(ts, kind) ==
  CHOOSE i \in Holders(ts, kind) : \A j \in Holders(ts, kind) : i <= j
Joinable(ts, kind) == {i \in DOMAIN ts : ts[i].kind = kind /\ ts[i].joinable}

IsFull(ts, kind) ==
  Holders(ts, kind) # {} /\
    Cardinality(ts[Holder(ts, kind)].batch) >= BatchLimit

\* At the limit both fields start over; the timers keep the old array.
WithRoom(ts, kind) ==
  IF IsFull(ts, kind)
  THEN [i \in DOMAIN ts |->
          IF ts[i].kind = kind
          THEN [ts[i] EXCEPT !.current = FALSE, !.joinable = FALSE]
          ELSE ts[i]]
  ELSE ts

Waiters(kind, e) == IF kind = "close" THEN {} ELSE {e}

Timer(kind, e, held) ==
  [kind |-> kind, first |-> e, waiters |-> Waiters(kind, e),
   batch |-> IF held THEN {} ELSE {e},
   current |-> TRUE, joinable |-> TRUE]

\* this.#currentBatch.push(params)
InBatch(ts, kind, e) ==
  IF Holders(ts, kind) = {} THEN ts
  ELSE [ts EXCEPT ![Holder(ts, kind)].batch = @ \cup {e}]

\* A second caller gets the pending promise before it was put in the batch.
DoBulkRequest_Fault(ts, kind, e) ==
  IF Joinable(ts, kind) # {}
  THEN [i \in DOMAIN ts |->
          IF i \in Joinable(ts, kind)
          THEN [ts[i] EXCEPT !.waiters = @ \cup Waiters(kind, e)]
          ELSE ts[i]]
  ELSE Append(ts, Timer(kind, e, Holders(ts, kind) # {}))

DoBulkRequest(ts, kind, e) ==
  LET room == WithRoom(ts, kind)
      pushed == InBatch(room, kind, e)
  IN  IF Joinable(room, kind) # {}
      THEN [i \in DOMAIN pushed |->
              IF i \in Joinable(room, kind)
              THEN [pushed[i] EXCEPT !.waiters = @ \cup Waiters(kind, e)]
              ELSE pushed[i]]
      ELSE Append(pushed, Timer(kind, e, Holders(room, kind) # {}))

\* The callback resets #currentBulkResponse, whichever batch it is for, and
\* hands its batch to the first caller's bulkRequestFunc, which uses that
\* caller's connection, session and transceiver.
ClearsResponse(ts, kind) ==
  [i \in DOMAIN ts |-> [ts[i] EXCEPT !.joinable = @ /\ ts[i].kind # kind]]

TimerFires ==
  /\ Quiet /\ timers # <<>>
  /\ LET t == Head(timers)
     IN  /\ timers' = ClearsResponse(Tail(timers), t.kind)
         /\ tasks' = Append(tasks,
              [kind |-> t.kind, first |-> t.first, waiters |-> t.waiters,
               carried |-> t.batch, split |-> t.kind \in split,
               early |-> t.waiters \ (sent \cup t.batch)])
         /\ sent' = (sent \cup t.batch) \cap
                    UNION {timers'[i].waiters : i \in DOMAIN timers'}
         /\ split' = split \ {k \in {t.kind} : \A i \in DOMAIN timers' : timers'[i].kind # k}
  /\ UNCHANGED <<session, pc, streamVars, answers, sfuVars, faults>>

-----------------------------------------------------------------------------
\* bound: one entry is kept for every session still to come
HasEntries(t) ==
  n[t] + (MaxSessions - session) + (IF pc = "none" THEN 0 ELSE 1) <= bounds.entries[t]

(* #closeTrackInBulk: bails out unless the connection is connected.         *)

CloseTrack(e) ==
  IF pc = "connected" /\ e.session = session
  THEN /\ timers' = DoBulkRequest(timers, "close", e)
       /\ UNCHANGED abandoned
  ELSE /\ abandoned' = abandoned \cup ({e} \cap sfu)
       /\ UNCHANGED timers

(* The bulk requests.  A task of a lost session works on a closed           *)
(* connection: a close ends at once, the others fail in createOffer.        *)
Gone(k) == k.first.session # session \/ pc \notin Usable

\* resolve(await task()): everyone who waits on the bulk promise is told.
Tell(k, served, otherwise) ==
  answers' = {[kind |-> k.kind, entry |-> e,
               result |-> IF e \in served THEN "found" ELSE otherwise] :
              e \in k.waiters}

\* tracks/new was answered.  Each caller looks for its entry among the tracks
\* that are listed, and reads no errorCode: the SFU need not hold what is
\* listed.  A batch may carry what waits for another promise: that is lost.
Listed(k, listed, served) ==
  /\ faults' = IF served = k.carried THEN faults ELSE faults + 1
  /\ sfu' = sfu \cup served
  /\ abandoned' = abandoned \cup (served \ k.waiters)
  /\ refused' = refused \cup (listed \ served)
  /\ Tell(k, listed, "missing")

Completes(k) ==
  /\ \E listed \in SUBSET k.carried : \E served \in SUBSET listed :
       Listed(k, listed, served)
  /\ pc' = IF pc = "new" THEN "connecting" ELSE pc

\* A push whose response has an errorCode, and tracks: no answer is applied.
CompletesWithError(k) ==
  /\ k.kind = "push"
  /\ \E listed \in SUBSET k.carried : Listed(k, listed, {})
  /\ UNCHANGED pc

\* The request failed, its response has no tracks (or for a pull an
\* errorCode), or the connection is closed.
Refused(k) ==
  /\ faults' = IF Gone(k) THEN faults ELSE faults + 1
  /\ Tell(k, {}, "rejected")
  /\ UNCHANGED <<pc, sfu, abandoned, refused>>

\* The SFU took the tracks, but the answer was lost or the signaling state
\* did not settle in time.
Unsettled(k) ==
  /\ faults' = faults + 1
  /\ sfu' = sfu \cup k.carried
  /\ abandoned' = abandoned \cup k.carried
  /\ Tell(k, {}, "rejected")
  /\ UNCHANGED <<pc, refused>>

Runs(kind) ==
  /\ Quiet /\ tasks # <<>> /\ Head(tasks).kind = kind
  /\ LET k == Head(tasks)
     IN  \/ Refused(k)
         \/ ~Gone(k) /\ (Completes(k) \/ CompletesWithError(k) \/ Unsettled(k))
  /\ faults' <= bounds.faults
  /\ tasks' = Tail(tasks)
  /\ UNCHANGED <<session, streamVars, timers, stopped, batchVars>>

\* The client offers and the SFU answers; for a pull it may be the other way
\* round, with a second request.
PushRuns == Runs("push")
PullRuns == Runs("pull")

\* Only the transceiver of the first caller's closure is stopped.  When the
\* close request fails, its rejection reaches nobody.
CloseRuns ==
  /\ Quiet /\ tasks # <<>>
  /\ LET k == Head(tasks)
     IN  /\ k.kind = "close"
         /\ \/ Gone(k) /\ UNCHANGED <<sfuVars, faults>>
            \/ /\ ~Gone(k)
               /\ stopped' = stopped \cup {k.first}
               /\ sfu' = sfu \ k.carried
               /\ UNCHANGED <<abandoned, refused, faults>>
            \/ /\ ~Gone(k) /\ faults < bounds.faults
               /\ faults' = faults + 1
               /\ stopped' = stopped \cup {k.first}
               /\ abandoned' = abandoned \cup k.carried
               /\ UNCHANGED <<sfu, refused>>
  /\ tasks' = Tail(tasks)
  /\ UNCHANGED <<session, pc, streamVars, timers, answers, batchVars>>

-----------------------------------------------------------------------------
(* The .then and .catch of one caller.                                      *)

\* Its subscriber is still there: switchMap and unsubscribe close it.
Waits_Fault(e) == phase[e.stream] = "asked"
Waits(e) == phase[e.stream] = "asked" /\ e = Latest(e.stream)

AfterRejection_Fault(e) == "stuck"
\* #pushTrackInBulk has a .catch, #pullTrackInBulk has none.
AfterRejection(e) == IF e.stream \in Pushes THEN "retrying" ELSE "stuck"

\* Media flows for a track the SFU holds; a pull is told so by its track event.
AfterFound(e) == IF e.stream \in Pushes THEN "sending" ELSE "live"

\* The answer found a subscriber that is gone: subscriber.add runs at once.
StaleFound_Fault(e) == UNCHANGED <<timers, abandoned>>
StaleFound(e) == CloseTrack(e)

\* resolveTransceiver() gave up after five seconds: a fault of its own when
\* the SFU has the track.
TrackNeverComes(e) ==
  /\ e.stream \in Pulls
  /\ IF e \in sfu THEN faults < bounds.faults /\ faults' = faults + 1
     ELSE UNCHANGED faults
  /\ phase' = [phase EXCEPT ![e.stream] = "retrying"]
  /\ abandoned' = abandoned \cup {e}
  /\ UNCHANGED timers

Answered(a) ==
  LET e == a.entry
      Becomes(p) == /\ phase' = [phase EXCEPT ![e.stream] = p]
                    /\ UNCHANGED <<timers, abandoned, faults>>
  IN  /\ answers' = answers \ {a}
      /\ \/ /\ Waits(e) /\ a.result = "found" /\ Becomes(AfterFound(e))
            /\ e.stream \in Pulls => e \in sfu
         \/ Waits(e) /\ a.result = "found" /\ TrackNeverComes(e)
         \/ Waits(e) /\ a.result = "missing" /\ Becomes("retrying")
         \/ Waits(e) /\ a.result = "rejected" /\ Becomes(AfterRejection(e))
         \/ /\ ~Waits(e)
            /\ IF a.result = "found" THEN StaleFound(e)
               ELSE UNCHANGED <<timers, abandoned>>
            /\ UNCHANGED <<phase, faults>>
  /\ UNCHANGED <<session, pc, n, tasks, sfu, stopped, refused, batchVars>>

\* Subscribing to the Observable of #pushTrackInBulk or #pullTrackInBulk.
Asks(t) ==
  /\ answers = {} /\ phase[t] = "due"
  /\ phase' = [phase EXCEPT ![t] = "asked"]
  /\ timers' = DoBulkRequest(timers, Kind(t), Latest(t))
  /\ split' = IF IsFull(timers, Kind(t)) THEN split \cup {Kind(t)} ELSE split
  /\ UNCHANGED <<session, pc, n, tasks, answers, sfuVars, sent, faults>>

\* retryWithBackoff: a push asks again for its transceiver, a pull will be
\* given a new one.
Retries(t) ==
  /\ Quiet /\ phase[t] = "retrying"
  /\ phase' = [phase EXCEPT ![t] = "due"]
  /\ IF t \in Pushes THEN UNCHANGED n
     ELSE HasEntries(t) /\ n' = [n EXCEPT ![t] = @ + 1]
  /\ UNCHANGED <<session, pc, requestVars, sfuVars, batchVars, faults>>

\* waitForTransceiverToSendData: getStats shows bytes sent
DataSent(t) ==
  /\ Quiet /\ phase[t] = "sending"
  /\ pc = "connected" /\ Latest(t) \in sfu \ stopped
  /\ phase' = [phase EXCEPT ![t] = "live"]
  /\ UNCHANGED <<session, pc, n, requestVars, sfuVars, batchVars, faults>>

-----------------------------------------------------------------------------
(* push() and pull() subscribed and unsubscribed.  session$ replays the     *)
(* last session even while its connection is closed and being replaced:     *)
(* addTransceiver on a closed connection throws.                            *)

Starts(t) ==
  IF pc = "none" THEN phase' = [phase EXCEPT ![t] = "idle"] /\ UNCHANGED n
  ELSE phase' = [phase EXCEPT ![t] = "due"] /\ n' = [n EXCEPT ![t] = @ + 1]

Push(t) ==
  /\ Quiet /\ ~On(t) /\ HasEntries(t)
  /\ IF pc = "closed"
     THEN phase' = [phase EXCEPT ![t] = "errored"] /\ UNCHANGED n
     ELSE Starts(t)
  /\ UNCHANGED <<session, pc, requestVars, sfuVars, batchVars, faults>>

Pull(t) ==
  /\ Quiet /\ ~On(t) /\ HasEntries(t)
  /\ Starts(t)
  /\ UNCHANGED <<session, pc, requestVars, sfuVars, batchVars, faults>>

\* shareReplay({ refCount: true }): the last one out closes the connection.
Unsubscribe(t) ==
  /\ Quiet /\ On(t)
  /\ phase' = [phase EXCEPT ![t] = "off"]
  /\ IF \E u \in Streams \ {t} : On(u)
     THEN /\ IF phase[t] \in {"sending", "live"} THEN CloseTrack(Latest(t))
             ELSE UNCHANGED <<timers, abandoned>>
          /\ UNCHANGED <<pc, sfu, stopped, refused>>
     ELSE /\ pc = "none" \/ session < MaxSessions
          /\ pc' = "none"
          /\ sfu' = {} /\ stopped' = {} /\ abandoned' = {} /\ refused' = {}
          /\ UNCHANGED timers
  /\ UNCHANGED <<session, n, tasks, answers, batchVars, faults>>

(* makePeerConnectionSessionCombo.                                          *)

\* A new session and connection: switchMap makes every stream start over.
NewSession ==
  /\ Quiet /\ pc \in {"none", "closed"} /\ session < MaxSessions
  /\ \E t \in Streams : On(t)
  /\ \A t \in Streams : On(t) => n[t] < bounds.entries[t]
  /\ session' = session + 1
  /\ pc' = "new"
  /\ phase' = [t \in Streams |-> IF On(t) THEN "due" ELSE phase[t]]
  /\ n' = [t \in Streams |-> IF On(t) THEN n[t] + 1 ELSE n[t]]
  /\ UNCHANGED <<requestVars, sfuVars, batchVars, faults>>

\* ICE connects, for the first time or again.
PcConnects ==
  /\ Quiet /\ pc \in {"connecting", "disconnected"}
  /\ pc' = "connected"
  /\ UNCHANGED <<session, streamVars, requestVars, sfuVars, batchVars, faults>>

PcDisconnects ==
  /\ Quiet /\ pc = "connected" /\ faults < bounds.faults
  /\ pc' = "disconnected"
  /\ faults' = faults + 1
  /\ UNCHANGED <<session, streamVars, requestVars, sfuVars, batchVars>>

\* The connection failed, or stayed disconnected for seven seconds: the
\* observable errors, which closes the connection, and is retried.
SessionLost ==
  /\ Quiet /\ pc \in Usable \ {"new"} /\ session < MaxSessions
  /\ pc' = "closed"
  /\ sfu' = {} /\ stopped' = {} /\ abandoned' = {} /\ refused' = {}
  /\ UNCHANGED <<session, streamVars, requestVars, batchVars, faults>>

-----------------------------------------------------------------------------

Init ==
  /\ session = 0 /\ pc = "none"
  /\ phase = [t \in Streams |-> "off"]
  /\ n = [t \in Streams |-> 0]
  /\ timers = <<>> /\ tasks = <<>> /\ answers = {}
  /\ sfu = {} /\ stopped = {} /\ abandoned = {} /\ refused = {}
  /\ sent = {} /\ split = {}
  /\ faults = 0 /\ bounds \in Bounds

\* what is left of the current turn
Turn == (\E t \in Streams : Asks(t)) \/ (\E a \in answers : Answered(a))

Next ==
  /\ UNCHANGED bounds
  /\ \/ \E t \in Pushes : Push(t)
     \/ \E t \in Pulls : Pull(t)
     \/ \E t \in Streams : Unsubscribe(t)
     \/ \E t \in Streams : Retries(t) \/ DataSent(t)
     \/ Turn
     \/ TimerFires \/ PushRuns \/ PullRuns \/ CloseRuns
     \/ NewSession \/ PcConnects \/ PcDisconnects \/ SessionLost

Spec == Init /\ [][Next]_vars

(* The event loop runs: timers fire and requests settle.  Sessions are made *)
(* again and ICE connects; a connected transceiver sends data.  Strong      *)
(* fairness where turns of other streams interrupt: an event that is        *)
(* pending while a turn runs is not forgotten.                              *)
EventLoop == Turn \/ TimerFires \/ PushRuns \/ PullRuns \/ CloseRuns
Fairness ==
  /\ WF_vars(UNCHANGED bounds /\ EventLoop)
  /\ \A t \in Pushes : SF_vars(UNCHANGED bounds /\ (Retries(t) \/ DataSent(t)))
  /\ SF_vars(UNCHANGED bounds /\ (NewSession \/ PcConnects))

FairSpec == Spec /\ Fairness

-----------------------------------------------------------------------------

(* Whoever waits for a bulk request is carried by it: the batch and the     *)
(* promise of a dispatcher start over together.  Not so once somebody met a *)
(* full batch: its timer then resets the promise of the next batch, whose   *)
(* later callers wait for a request of their own that carries nothing.  But *)
(* nobody waits for a request that comes before the one with its entry, and *)
(* when all timers of the kind have fired, the dispatcher is in order again.*)
AnsweredByItsRequest ==
  \A i \in DOMAIN tasks :
    /\ tasks[i].early = {}
    /\ tasks[i].waiters \subseteq tasks[i].carried \/ tasks[i].split

(* A stream that is shown as live really has its track: the SFU holds its   *)
(* latest entry and its transceiver was not stopped, whatever answers of    *)
(* earlier requests came late and whatever was closed.  One that was told   *)
(* its track is pushed has it too, or the SFU listed it without holding it, *)
(* with an errorCode nobody reads.                                          *)
LiveIsServed ==
  \A t \in Streams :
    phase[t] \in {"sending", "live"} /\ pc \in Usable =>
      /\ Latest(t) \in sfu \/ (phase[t] = "sending" /\ Latest(t) \in refused)
      /\ Latest(t) \notin stopped

(* Every track the SFU holds belongs to a stream that is still on, is on    *)
(* its way to be closed, or was given up where the code says so (abandoned) *)
(* or was carried for a promise that a full batch parted from it.           *)
Closing(e) ==
  \/ \E i \in DOMAIN timers : timers[i].kind = "close" /\ e \in timers[i].batch
  \/ \E i \in DOMAIN tasks : tasks[i].kind = "close" /\ e \in tasks[i].carried
NothingLeaks ==
  Quiet =>
    \A e \in sfu \ abandoned :
      (On(e.stream) /\ e = Latest(e.stream)) \/ Closing(e)

(* A push that stays subscribed gets through, whatever fails on the way, but*)
(* for one failure that is not seen as such: a response that lists its track*)
(* with an errorCode.  It then waits for data that never flows.             *)
GetsThrough(t) ==
  phase[t] \notin {"off", "errored"} ~>
    \/ phase[t] \in {"off", "errored", "live"}
    \/ phase[t] = "sending" /\ Latest(t) \in refused
PushGetsThrough == \A t \in Pushes : GetsThrough(t)
=============================================================================
