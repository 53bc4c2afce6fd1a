--------------------------- MODULE ServerLifecycle --------------------------
(***************************************************************************)
(* partyserver: how a Server comes to run its handlers.  The platform      *)
(* constructs the object for an event and evicts it at will; the first     *)
(* event of an incarnation settles its name (ctx.id.name, a header, or the *)
(* stored fallback) and runs onStart() with every other event held back;   *)
(* callers go through routePartykitRequest() or getServerByName(), which   *)
(* try again when the platform says an error is retryable.                 *)
(*                                                                         *)
(* An input gate is closed while the object awaits storage, so an event's  *)
(* steps up to the start of onStart() are one action.                      *)
(*                                                                         *)
(* Its specification is LifeSpec: Connections is the other half of a       *)
(* Server, and a module can extend both.                                   *)
(***************************************************************************)
EXTENDS Integers

CONSTANTS
  Clients,       \* one routed call each
  Names,
  Headers,       \* the rooms a framework sends in x-partykit-room
  OwnName,       \* the name the object's id was made from, Undefined for newUniqueId()
  Undefined,
  MaxAttempts,   \* routingRetry.maxAttempts
  MaxEvictions   \* bound: evictions

ASSUME LifecycleAssumption ==
  /\ Undefined \notin Names /\ Undefined \notin Clients
  /\ Headers \subseteq Names /\ OwnName \in Names \cup {Undefined}
  /\ MaxAttempts \in Nat \ {0} /\ MaxEvictions \in Nat

VARIABLES
  status,    \* "down" out of memory, else #status
  ctxName,   \* ctx.id.name of this incarnation
  name,      \* #_name
  stored,    \* the __ps_name record
  starter,   \* the client whose event runs onStart(), Undefined for the platform's
  phase,     \* where a client's call is
  request,   \* what it asks
  attempt,   \* attempts made, this one included
  handled,   \* history: times its request reached its handler
  known,     \* history: the last name the object was given to keep
  evictions

object == <<status, ctxName, name, stored, starter, known>>
calls == <<phase, request, attempt, handled>>
lifeVars == <<object, calls, evictions>>

\* fetch() with or without an x-partykit-room header, and setName().
Requests ==
  [kind : {"fetch"}, name : Headers \cup {Undefined}] \cup
  [kind : {"setName"}, name : Names]

\* The `name' getter.
Visible == IF ctxName # Undefined THEN ctxName ELSE name

Settled == status \in {"starting", "started"}

-----------------------------------------------------------------------------
(* The caller: retryDurableObjectOperation().                               *)

Call(c, r) ==
  /\ phase[c] = "idle"
  /\ phase' = [phase EXCEPT ![c] = "sent"]
  /\ request' = [request EXCEPT ![c] = r]
  /\ attempt' = [attempt EXCEPT ![c] = 1]
  /\ UNCHANGED <<object, handled, evictions>>

\* The phase of a call whose attempt threw.
AfterError(c, retryable) ==
  IF retryable /\ attempt[c] + 1 <= MaxAttempts THEN "delay" ELSE "error"

\* The platform refuses the call: it is overloaded, or the request never left.
Refused(c, retryable) ==
  /\ phase[c] = "sent"
  /\ phase' = [phase EXCEPT ![c] = AfterError(c, retryable)]
  /\ UNCHANGED <<object, request, attempt, handled, evictions>>

Retry_Uncounted(c) ==
  /\ phase[c] = "delay"
  /\ phase' = [phase EXCEPT ![c] = "sent"]
  /\ UNCHANGED <<object, request, attempt, handled, evictions>>
Retry(c) ==
  /\ phase[c] = "delay"
  /\ phase' = [phase EXCEPT ![c] = "sent"]
  /\ attempt' = [attempt EXCEPT ![c] = @ + 1]
  /\ UNCHANGED <<object, request, handled, evictions>>

-----------------------------------------------------------------------------
(* The object.                                                              *)

\* #ensureInitialized() of an incarnation that has not started, with `mem' in
\* #_name and `disk' in storage, up to onStart().  A name from the id is kept
\* in storage for alarms that come without it; otherwise storage is asked.
Ensure_NoHydrate(ctx, mem, disk, c) ==
  /\ status' = "starting" /\ starter' = c
  /\ stored' = IF ctx # Undefined /\ mem = Undefined THEN ctx ELSE disk
  /\ name' = IF mem # Undefined THEN mem ELSE ctx
Ensure_NoPersist(ctx, mem, disk, c) ==
  /\ status' = "starting" /\ starter' = c
  /\ stored' = disk
  /\ name' = IF mem # Undefined THEN mem ELSE IF ctx # Undefined THEN ctx ELSE disk
Ensure(ctx, mem, disk, c) ==
  /\ status' = "starting" /\ starter' = c
  /\ stored' = IF ctx # Undefined /\ mem = Undefined THEN ctx ELSE disk
  /\ name' = IF mem # Undefined THEN mem ELSE IF ctx # Undefined THEN ctx ELSE disk

\* An event of a client finds the object out of memory.
Construct ==
  /\ status = "down" /\ \E c \in Clients : phase[c] = "sent"
  /\ status' = "zero" /\ ctxName' = OwnName
  /\ UNCHANGED <<name, stored, starter, known, calls, evictions>>

\* setName() with another name than the object has.
Rejects(r) ==
  r.kind = "setName" /\ \E known_as \in {ctxName, name} \ {Undefined} : known_as # r.name

\* blockConcurrencyWhile() holds events back until onStart() has settled.
Open_NoGate == status # "down"
Open == status \in {"zero", "started"}

\* A request reaches its handler, unless it is a fetch() of a nameless object.
PhaseServed(nm) == IF nm = Undefined THEN "error" ELSE "handled"

\* The name is in memory from a header, or from setName(), which stores it too;
\* then the object is initialised, if it is not, or serves the request.
Deliver(c) ==
  LET r == request[c]
      boots == ctxName = Undefined /\ name = Undefined
      mem == IF boots THEN r.name ELSE name
      disk == IF boots /\ r.kind = "setName" THEN r.name ELSE stored
      given == IF r.kind = "setName" THEN r.name ELSE known
  IN  /\ phase[c] = "sent" /\ Open
      /\ \/ /\ Rejects(r)
            /\ phase' = [phase EXCEPT ![c] = "error"]
            /\ UNCHANGED <<object, handled>>
         \/ /\ ~Rejects(r) /\ status # "started"
            /\ Ensure(ctxName, mem, disk, c)
            /\ known' = IF ctxName # Undefined THEN ctxName ELSE given
            /\ phase' = [phase EXCEPT ![c] = "starting"]
            /\ UNCHANGED <<ctxName, handled>>
         \/ /\ ~Rejects(r) /\ status = "started"
            /\ name' = mem /\ stored' = disk /\ known' = given
            /\ phase' = [phase EXCEPT ![c] =
                           IF ctxName # Undefined THEN "handled" ELSE PhaseServed(mem)]
            /\ handled' = [handled EXCEPT ![c] = IF phase'[c] = "handled"
                                                 THEN @ + 1 ELSE @]
            /\ UNCHANGED <<status, ctxName, starter>>
      /\ UNCHANGED <<request, attempt, evictions>>

\* An alarm, a hibernated socket's event or a native RPC; a stale alarm record
\* makes an incarnation without the id's name.
PlatformEvent ==
  /\ \/ /\ status = "zero" /\ UNCHANGED ctxName
     \/ /\ status = "down" /\ ctxName' \in {OwnName, Undefined}
  /\ Ensure(ctxName', name, stored, Undefined)
  /\ known' = IF ctxName' # Undefined THEN ctxName' ELSE known
  /\ UNCHANGED <<calls, evictions>>

\* onStart() ends: the object has started, and the event goes on.
OnStartEnds ==
  /\ status = "starting" /\ status' = "started" /\ starter' = Undefined
  /\ IF starter = Undefined THEN UNCHANGED <<phase, handled>>
     ELSE /\ phase' = [phase EXCEPT ![starter] = PhaseServed(Visible)]
          /\ handled' = [handled EXCEPT ![starter] = IF Visible # Undefined
                                                     THEN @ + 1 ELSE @]
  /\ UNCHANGED <<ctxName, name, stored, known, request, attempt, evictions>>

\* onStart() throws: the next event tries again, this one is answered with the
\* error, by fetch(), or throws it, which is not retryable.
OnStartThrows_BreaksGate ==
  /\ status = "starting" /\ status' = "broken" /\ starter' = Undefined
  /\ phase' = [c \in Clients |-> IF c = starter THEN "error" ELSE phase[c]]
  /\ UNCHANGED <<ctxName, name, stored, known, request, attempt, handled, evictions>>
OnStartThrows ==
  /\ status = "starting" /\ status' = "zero" /\ starter' = Undefined
  /\ phase' = [c \in Clients |-> IF c = starter THEN "error" ELSE phase[c]]
  /\ UNCHANGED <<ctxName, name, stored, known, request, attempt, handled, evictions>>

Reply(c) ==
  /\ phase[c] = "handled"
  /\ phase' = [phase EXCEPT ![c] = "ok"]
  /\ UNCHANGED <<object, request, attempt, handled, evictions>>

\* The object leaves memory, and what it was doing fails with a retryable error.
Evict ==
  /\ status # "down" /\ evictions < MaxEvictions
  /\ status' = "down" /\ ctxName' = Undefined /\ name' = Undefined /\ starter' = Undefined
  /\ phase' = [c \in Clients |-> IF phase[c] \in {"starting", "handled"}
                                 THEN AfterError(c, TRUE) ELSE phase[c]]
  /\ evictions' = evictions + 1
  /\ UNCHANGED <<stored, known, request, attempt, handled>>

-----------------------------------------------------------------------------

LifeInit ==
  /\ status = "down" /\ ctxName = Undefined /\ name = Undefined /\ stored = Undefined
  /\ starter = Undefined /\ known = Undefined
  /\ phase = [c \in Clients |-> "idle"]
  /\ request = [c \in Clients |-> [kind |-> "fetch", name |-> Undefined]]
  /\ attempt = [c \in Clients |-> 0]
  /\ handled = [c \in Clients |-> 0]
  /\ evictions = 0

LifeNext ==
  \/ \E c \in Clients :
       \/ \E r \in Requests : Call(c, r)
       \/ \E retryable \in BOOLEAN : Refused(c, retryable)
       \/ Retry(c) \/ Deliver(c) \/ Reply(c)
  \/ Construct \/ PlatformEvent \/ OnStartEnds \/ OnStartThrows \/ Evict

LifeSpec == LifeInit /\ [][LifeNext]_lifeVars

(* Timers fire, the platform delivers what was sent, and onStart() and the  *)
(* handlers end.                                                            *)
LifeFairness ==
  /\ \A c \in Clients :
       WF_lifeVars(Retry(c)) /\ SF_lifeVars(Deliver(c)) /\ WF_lifeVars(Reply(c))
  /\ WF_lifeVars(Construct) /\ WF_lifeVars(OnStartEnds \/ OnStartThrows)

LifeFairSpec == LifeSpec /\ LifeFairness

-----------------------------------------------------------------------------

Phases == {"idle", "sent", "starting", "handled", "delay", "ok", "error"}

LifeTypeOK ==
  /\ status \in {"down", "zero", "starting", "started"}
  /\ ctxName \in {OwnName, Undefined} /\ {name, stored, known} \subseteq Names \cup {Undefined}
  /\ status = "down" => ctxName = Undefined /\ name = Undefined
  /\ starter \in Clients \cup {Undefined}
  /\ phase \in [Clients -> Phases] /\ request \in [Clients -> Requests]
  /\ attempt \in [Clients -> 0..MaxAttempts] /\ handled \in [Clients -> Nat]
  /\ evictions \in 0..MaxEvictions

(* A call that waits for onStart() is the one that runs it: no event is     *)
(* lost or answered by another's start.                                     *)
StarterWaits ==
  \A c \in Clients : phase[c] = "starting" <=> status = "starting" /\ starter = c

(* Once an object has been started under its id's name, or was given one    *)
(* with setName(), onStart() and every handler of every later incarnation   *)
(* see that name, also when a stale alarm brings none.                      *)
KnownNameSurvives == Settled /\ known # Undefined => Visible = known

(* A request is handled at most once per attempt, a call makes at most      *)
(* maxAttempts of them, and is told ok only after one was handled.          *)
AttemptsAccount ==
  \A c \in Clients :
    /\ handled[c] <= attempt[c] /\ attempt[c] <= MaxAttempts
    /\ phase[c] = "sent" => handled[c] < attempt[c]
    /\ phase[c] \in {"handled", "ok"} => handled[c] > 0

(* Every routed call ends, whatever is evicted, refused or throws.          *)
EveryCallEnds ==
  \A c \in Clients : phase[c] # "idle" ~> phase[c] \in {"ok", "error"}
=============================================================================
