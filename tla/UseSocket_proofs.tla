-------------------------- MODULE UseSocket_proofs --------------------------
(***************************************************************************)
(* Theorems of UseSocket, for any options, messages and bounds.            *)
(***************************************************************************)
EXTENDS UseSocket, TLAPS

(* Only the socket the next cleanup closes can be wanted, only a wanted one *)
(* is up, and one that is up has sent its buffer.                           *)
Supervised ==
  \A s \in DOMAIN sockets :
    /\ sockets[s].wanted => s = cleanup /\ mounted
    /\ sockets[s].up => sockets[s].wanted /\ sockets[s].buffer = <<>>

(* Effects run for the socket of the state, and once they have run the refs *)
(* are those of the last render.                                            *)
UpToDate ==
  /\ dirty => rendered.socket = socket
  /\ ~dirty => prevEnabled = rendered.enabled /\ prevOptions = rendered.options
  /\ Settled => cleanup = rendered.socket
  /\ createdWith = sockets[socket].options

(* The socket of the state was made for the options of the last effect,     *)
(* unless these drifted while it was disabled, or changed unnoticed.        *)
Follows ==
  /\ drifted => ~prevEnabled
  /\ ~missed /\ ~drifted => sockets[socket].options = prevOptions

(* What the effect decided holds until the next render.                     *)
Decided ==
  Settled =>
    /\ sockets[rendered.socket].wanted => rendered.enabled
    /\ rendered.enabled /\ ~rendered.options.startClosed =>
         sockets[rendered.socket].wanted

(* A message waits in one socket at most, before it is transmitted, and     *)
(* unless told otherwise in a socket that goes where it was meant for.      *)
Once ==
  \A m \in Messages :
    /\ sentTo[m] = Nowhere =>
         reached[m] = <<>> /\ \A s \in DOMAIN sockets : ~Waiting(m, s)
    /\ \A s, t \in DOMAIN sockets : Waiting(m, s) /\ Waiting(m, t) => s = t
    /\ \A s \in DOMAIN sockets : Waiting(m, s) =>
         reached[m] = <<>> /\ (Transfer = "true" \/ sentTo[m] = Destination(s))
    /\ reached[m] = <<>> \/
         (Len(reached[m]) = 1 /\ (Transfer = "true" \/ reached[m] = <<sentTo[m]>>))

IInv ==
  /\ TypeOK /\ Supervised /\ UpToDate /\ Follows /\ Decided /\ KnowsWhenDown
  /\ Hook = "usePartySocket" => Once
-----------------------------------------------------------------------------
(* What closing, reconnecting and replacing do to the sockets.              *)

SameSockets(ss, ts) ==
  /\ ts \in Seq(SocketRecords) /\ Len(ts) = Len(ss) /\ DOMAIN ts = DOMAIN ss
  /\ \A s \in DOMAIN ss :
       ts[s].options = ss[s].options /\ ts[s].buffer = ss[s].buffer

(* After the cleanups nothing connects.                                     *)
AtRest(ts) == \A s \in DOMAIN ts : ~ts[s].wanted /\ ~ts[s].up

LEMMA ClosedFacts ==
  ASSUME NEW ss \in Seq(SocketRecords), NEW s \in DOMAIN ss
  PROVE  /\ SameSockets(ss, Closed(ss, s))
         /\ ~Closed(ss, s)[s].wanted /\ ~Closed(ss, s)[s].up
         /\ \A t \in DOMAIN ss \ {s} : Closed(ss, s)[t] = ss[t]
<1> DEFINE r == [ss[s] EXCEPT !.wanted = FALSE, !.up = FALSE]
<1>1. ss[s] \in SocketRecords
  OBVIOUS
<1>2. r \in SocketRecords /\ r.options = ss[s].options /\ r.buffer = ss[s].buffer
        /\ ~r.wanted /\ ~r.up
  BY <1>1 DEF SocketRecords
<1>3. Closed(ss, s) = [ss EXCEPT ![s] = r]
  BY <1>1 DEF Closed, SocketRecords
<1> HIDE DEF r
<1> QED
  BY <1>2, <1>3 DEF SameSockets

LEMMA ReconnectedFacts ==
  ASSUME NEW ss \in Seq(SocketRecords), NEW s \in DOMAIN ss
  PROVE  /\ SameSockets(ss, Reconnected(ss, s))
         /\ Reconnected(ss, s)[s].wanted /\ ~Reconnected(ss, s)[s].up
         /\ \A t \in DOMAIN ss \ {s} : Reconnected(ss, s)[t] = ss[t]
<1> DEFINE r == [ss[s] EXCEPT !.wanted = TRUE, !.up = FALSE]
<1>1. ss[s] \in SocketRecords
  OBVIOUS
<1>2. r \in SocketRecords /\ r.options = ss[s].options /\ r.buffer = ss[s].buffer
        /\ r.wanted /\ ~r.up
  BY <1>1 DEF SocketRecords
<1>3. Reconnected(ss, s) = [ss EXCEPT ![s] = r]
  BY <1>1 DEF Reconnected, SocketRecords
<1> HIDE DEF r
<1> QED
  BY <1>2, <1>3 DEF SameSockets

LEMMA CleanedUpFacts ==
  TypeOK /\ Supervised => SameSockets(sockets, CleanedUp) /\ AtRest(CleanedUp)
<1> SUFFICES ASSUME TypeOK, Supervised
             PROVE  SameSockets(sockets, CleanedUp) /\ AtRest(CleanedUp)
  OBVIOUS
<1>1. CASE cleanup = 0
  BY <1>1 DEF CleanedUp, TypeOK, Supervised, SameSockets, AtRest
<1>2. CASE cleanup # 0
  <2>1. cleanup \in DOMAIN sockets
    BY <1>2 DEF TypeOK, RefsOK
  <2> DEFINE ts == Closed(sockets, cleanup)
  <2>2. SameSockets(sockets, ts) /\ ~ts[cleanup].wanted /\ ~ts[cleanup].up
          /\ \A t \in DOMAIN sockets \ {cleanup} : ts[t] = sockets[t]
    BY <2>1, ClosedFacts DEF TypeOK
  <2>3. CleanedUp = ts
    BY <1>2 DEF CleanedUp
  <2> HIDE DEF ts
  <2>4. AtRest(ts)
    BY <2>1, <2>2 DEF Supervised, SameSockets, AtRest, TypeOK, SocketRecords
  <2> QED
    BY <2>2, <2>3, <2>4
<1> QED
  BY <1>1, <1>2

(* The effect keeps the socket of the render, or makes another.             *)
Kept ==
  /\ SameSockets(sockets, sockets')
  /\ socket' = socket /\ createdWith' = createdWith
  /\ cleanup' = rendered.socket
  /\ \A s \in DOMAIN sockets' :
       ~sockets'[s].up /\ (sockets'[s].wanted => s = rendered.socket)
  /\ sockets'[rendered.socket].wanted => rendered.enabled
  /\ rendered.enabled /\ ~rendered.options.startClosed =>
       sockets'[rendered.socket].wanted
  /\ drifted' \in BOOLEAN /\ missed' \in BOOLEAN
  /\ ~missed' /\ ~drifted' =>
       ~missed /\ ~drifted /\ rendered.options = prevOptions

Moved ==
  /\ sockets' \in Seq(SocketRecords) /\ Len(sockets') = Len(sockets) + 1
  /\ AtRest(sockets')
  /\ socket' = Len(sockets') /\ cleanup' = Len(sockets')
  /\ createdWith' = rendered.options /\ missed' = FALSE /\ drifted' \in BOOLEAN
  /\ \A s \in DOMAIN sockets :
       /\ sockets'[s].options = sockets[s].options
       /\ sockets'[s].buffer = IF s = rendered.socket THEN <<>> ELSE sockets[s].buffer
  /\ sockets'[Len(sockets')].options = rendered.options
  /\ sockets'[Len(sockets')].buffer =
       IF ShouldTransfer THEN sockets[rendered.socket].buffer ELSE <<>>

LEMMA ReplacesMoves ==
  ASSUME NEW ss, SameSockets(sockets, ss), AtRest(ss), TypeOK, Replaces(ss),
         drifted' \in BOOLEAN
  PROVE  Moved
<1> DEFINE old == rendered.socket
           drained == [ss EXCEPT ![old].buffer = <<>>]
           new == NewSocket(rendered.options,
                            IF ShouldTransfer THEN ss[old].buffer ELSE <<>>)
           r == [ss[old] EXCEPT !.buffer = <<>>]
<1>1. old \in DOMAIN ss /\ ss \in Seq(SocketRecords) /\ ss[old] \in SocketRecords
  BY DEF SameSockets, TypeOK, RefsOK
<1>2. rendered.options \in Options /\ ss[old].buffer = sockets[old].buffer
  BY <1>1 DEF SameSockets, TypeOK, RefsOK
<1>3. new \in SocketRecords /\ ~new.wanted /\ ~new.up /\ new.options = rendered.options
        /\ new.buffer = IF ShouldTransfer THEN sockets[old].buffer ELSE <<>>
  BY <1>1, <1>2 DEF NewSocket, SocketRecords
<1>4. r \in SocketRecords /\ r.options = ss[old].options /\ r.buffer = <<>>
        /\ r.wanted = ss[old].wanted /\ r.up = ss[old].up
  <2>1. <<>> \in Seq(Messages)
    OBVIOUS
  <2>2. \A x \in SocketRecords, b \in Seq(Messages) :
          LET y == [x EXCEPT !.buffer = b]
          IN  /\ y \in SocketRecords /\ y.options = x.options /\ y.buffer = b
              /\ y.wanted = x.wanted /\ y.up = x.up
    BY DEF SocketRecords
  <2> QED
    BY <1>1, <2>1, <2>2
<1>5. drained = [ss EXCEPT ![old] = r]
  BY <1>1 DEF SocketRecords
<1>6. sockets' = Append(drained, new) /\ socket' = Len(sockets')
        /\ cleanup' = Len(sockets')
        /\ createdWith' = rendered.options /\ missed' = FALSE
  BY DEF Replaces, Replaced
<1> HIDE DEF r, new
<1>7. drained \in Seq(SocketRecords) /\ Len(drained) = Len(sockets)
        /\ \A s \in 1..Len(sockets) :
             drained[s] = IF s = old THEN r ELSE ss[s]
  BY <1>1, <1>4, <1>5 DEF SameSockets
<1> HIDE DEF drained
<1>8. sockets' \in Seq(SocketRecords) /\ Len(sockets') = Len(sockets) + 1
        /\ \A s \in 1..Len(sockets) : sockets'[s] = drained[s]
        /\ sockets'[Len(sockets) + 1] = new
  BY <1>3, <1>6, <1>7
<1>9. Len(sockets) \in Nat /\ DOMAIN sockets = 1..Len(sockets)
        /\ DOMAIN sockets' = 1..(Len(sockets) + 1)
  BY <1>8 DEF TypeOK
<1>10. AtRest(sockets')
  BY <1>3, <1>4, <1>7, <1>8, <1>9, <1>1 DEF AtRest, SameSockets
<1>11. \A s \in DOMAIN sockets :
        /\ sockets'[s].options = sockets[s].options
        /\ sockets'[s].buffer = IF s = old THEN <<>> ELSE sockets[s].buffer
  BY <1>1, <1>4, <1>7, <1>8, <1>9 DEF SameSockets
<1> QED
  BY <1>3, <1>6, <1>8, <1>10, <1>11 DEF Moved

LEMMA FlushOutcome ==
  ASSUME TypeOK, Supervised, Follows, Flush
  PROVE  (Kept \/ Moved) /\ (drifted' => ~rendered.enabled)
<1> DEFINE ss == CleanedUp
<1>1. SameSockets(sockets, ss) /\ AtRest(ss)
  BY CleanedUpFacts
<1>2. ss \in Seq(SocketRecords) /\ rendered.socket \in DOMAIN ss
        /\ rendered.enabled \in BOOLEAN /\ drifted \in BOOLEAN /\ missed \in BOOLEAN
        /\ prevEnabled \in BOOLEAN /\ rendered.options \in Options
        /\ DOMAIN ss = DOMAIN sockets
  BY <1>1 DEF SameSockets, TypeOK, RefsOK, HistoriesOK
<1>3. rendered.options.startClosed \in BOOLEAN
  BY <1>2, OptionsAssumption
<1> HIDE DEF ss
<1>4. \A ts : SameSockets(ss, ts) => SameSockets(sockets, ts)
  BY <1>1 DEF SameSockets
<1>5. CASE Disabled(ss)
  <2>1. sockets' = Closed(ss, rendered.socket)
    BY <1>5 DEF Disabled, Keeps
  <2>2. SameSockets(sockets, sockets') /\ AtRest(sockets')
    <3>1. /\ SameSockets(ss, sockets')
          /\ ~sockets'[rendered.socket].wanted /\ ~sockets'[rendered.socket].up
          /\ \A t \in DOMAIN ss \ {rendered.socket} : sockets'[t] = ss[t]
      BY <1>2, <2>1, ClosedFacts
    <3>2. SameSockets(sockets, sockets')
      BY <1>4, <3>1
    <3>3. AtRest(sockets')
      BY <1>1, <3>1 DEF AtRest, SameSockets
    <3> QED
      BY <3>2, <3>3
  <2>3. ~rendered.enabled /\ socket' = socket /\ createdWith' = createdWith
          /\ cleanup' = rendered.socket
    BY <1>5 DEF Disabled, Keeps
  <2>4. drifted' \in BOOLEAN /\ missed' = missed
          /\ (~drifted' => ~drifted /\ rendered.options = prevOptions)
    BY <1>2, <1>5 DEF Disabled, Keeps, SettingUp, OptionsChanged
  <2>5. rendered.socket \in DOMAIN sockets'
    BY <1>2, <2>2 DEF SameSockets
  <2>6. \A s \in DOMAIN sockets' :
          ~sockets'[s].up /\ (sockets'[s].wanted => s = rendered.socket)
    BY <2>2 DEF AtRest
  <2>7. ~sockets'[rendered.socket].wanted
    BY <2>2, <2>5 DEF AtRest
  <2> QED
    BY <1>2, <2>2, <2>3, <2>4, <2>6, <2>7 DEF Kept
<1>6. ASSUME NEW ts, ts = ss \/ ts = Reconnected(ss, rendered.socket), Keeps(ts),
             rendered.enabled,
             ts = ss => rendered.options.startClosed,
             drifted' \in BOOLEAN,
             ~missed' /\ ~drifted' => ~drifted /\ rendered.options = prevOptions
      PROVE  Kept
  <2>1. sockets' = ts
    BY <1>6 DEF Keeps
  <2>2. SameSockets(sockets, sockets')
    BY <1>1, <1>2, <1>4, <1>6, <2>1, ReconnectedFacts
  <2>3. \A s \in DOMAIN sockets' :
          ~sockets'[s].up /\ (sockets'[s].wanted => s = rendered.socket)
    <3>1. \A s \in DOMAIN ss \ {rendered.socket} : ts[s] = ss[s]
      BY <1>2, <1>6, ReconnectedFacts
    <3>2. ~ts[rendered.socket].up
      <4>1. ts = ss => ~ts[rendered.socket].up
        BY <1>1, <1>2 DEF AtRest
      <4>2. ts = Reconnected(ss, rendered.socket) => ~ts[rendered.socket].up
        BY <1>2, ReconnectedFacts
      <4> QED
        BY <1>6, <4>1, <4>2
    <3>3. DOMAIN ts = DOMAIN ss
      BY <1>2, <2>1, <2>2 DEF SameSockets
    <3> QED
      BY <1>1, <2>1, <3>1, <3>2, <3>3 DEF AtRest
  <2>4. rendered.options.startClosed \/ sockets'[rendered.socket].wanted
    <3> SUFFICES ASSUME ~rendered.options.startClosed
                 PROVE  sockets'[rendered.socket].wanted
      OBVIOUS
    <3>1. sockets' = Reconnected(ss, rendered.socket)
      BY <1>6, <2>1
    <3> QED
      BY <1>2, <3>1, ReconnectedFacts
  <2>5. missed' \in BOOLEAN /\ (~missed' => ~missed)
    BY <1>2, <1>6 DEF Keeps
  <2> QED
    BY <1>2, <1>6, <2>2, <2>3, <2>4, <2>5 DEF Keeps, Kept
<1>7. CASE Reenabled(ss)
  <2>1. CASE NeedsNewSocket
    BY <1>1, <1>7, <2>1, ReplacesMoves DEF Reenabled
  <2>2. CASE ~NeedsNewSocket
    BY <1>6, <1>7, <2>2, <1>1, <1>2, ReconnectedFacts
    DEF Reenabled, NeedsNewSocket, OptionsChanged, AtRest
  <2> QED
    BY <1>7, <2>1, <2>2 DEF Reenabled
<1>8. CASE Rerun(ss)
  <2>1. drifted' = drifted /\ ~drifted
    BY <1>8 DEF Rerun, Follows
  <2>2. CASE OptionsChanged
    BY <1>1, <1>2, <1>8, <2>1, <2>2, ReplacesMoves DEF Rerun
  <2>3. CASE ~OptionsChanged
    <3> DEFINE ts == IF rendered.options.startClosed THEN ss
                     ELSE Reconnected(ss, rendered.socket)
    <3>1. Keeps(ts)
      BY <1>8, <2>3 DEF Rerun
    <3>2. ts = ss => rendered.options.startClosed
      BY <1>1, <1>2, ReconnectedFacts DEF AtRest
    <3> QED
      BY <1>2, <1>6, <1>8, <2>1, <2>3, <3>1, <3>2 DEF Rerun, OptionsChanged
  <2> QED
    BY <2>1, <2>2, <2>3
<1>9. CASE SetUp(ss)
  <2>1. drifted' = drifted /\ ~drifted
    BY <1>9 DEF SetUp, SettingUp, Follows
  <2> DEFINE ts == IF initialized = 0 /\ rendered.options.startClosed THEN ss
                   ELSE Reconnected(ss, rendered.socket)
  <2>2. Keeps(ts) /\ SettingUp
    BY <1>9 DEF SetUp
  <2>3. ts = ss => rendered.options.startClosed
    BY <1>1, <1>2, ReconnectedFacts DEF AtRest
  <2>4. ~missed' => rendered.options = prevOptions
    BY <1>2, <2>2 DEF Keeps, OptionsChanged
  <2> QED
    BY <1>2, <1>6, <2>1, <2>2, <2>3, <2>4 DEF SettingUp
<1> QED
  BY <1>5, <1>7, <1>8, <1>9 DEF Flush, ss

-----------------------------------------------------------------------------
(* The steps.                                                               *)

(* What a socket's own events change.                                       *)
LEMMA OpensPreserves ==
  ASSUME IInv, NEW s \in DOMAIN sockets, Opens(s)
  PROVE  IInv'
<1> DEFINE r == [sockets[s] EXCEPT !.up = TRUE, !.buffer = <<>>]
<1>1. sockets \in Seq(SocketRecords) /\ sockets[s] \in SocketRecords
  BY DEF IInv, TypeOK
<1>2. r \in SocketRecords /\ r.options = sockets[s].options /\ r.buffer = <<>>
        /\ r.wanted = sockets[s].wanted /\ r.up
  <2>1. <<>> \in Seq(Messages)
    OBVIOUS
  <2>2. \A x \in SocketRecords, b \in Seq(Messages) :
          LET y == [x EXCEPT !.up = TRUE, !.buffer = b]
          IN  /\ y \in SocketRecords /\ y.options = x.options /\ y.buffer = b
              /\ y.wanted = x.wanted /\ y.up
    BY DEF SocketRecords
  <2> QED
    BY <1>1, <2>1, <2>2
<1>3. sockets' = [sockets EXCEPT ![s] = r]
  BY <1>1 DEF Opens, SocketRecords
<1>4. sockets[s].wanted
  BY DEF Opens
<1> HIDE DEF r
<1>5. /\ sockets' \in Seq(SocketRecords) /\ DOMAIN sockets' = DOMAIN sockets
      /\ sockets'[s] = r
      /\ \A t \in DOMAIN sockets \ {s} : sockets'[t] = sockets[t]
  BY <1>1, <1>2, <1>3
<1>6. \A t \in DOMAIN sockets : /\ sockets'[t].options = sockets[t].options
                                /\ sockets'[t].wanted = sockets[t].wanted
  BY <1>2, <1>5
<1>7. \A m \in Messages : reached'[m] = IF Waiting(m, s)
                          THEN Append(reached[m], Destination(s)) ELSE reached[m]
  BY DEF Opens, Waiting
<1>8. /\ Destination(s) \in {o.destination : o \in Options}
      /\ reached' = [m \in Messages |-> reached'[m]]
  BY <1>1 DEF Opens, Destination, SocketRecords
<1>9. TypeOK'
  <2>1. reached' \in [Messages -> Seq({o.destination : o \in Options})]
    <3> DEFINE D == {o.destination : o \in Options}
    <3>1. reached \in [Messages -> Seq(D)] /\ Destination(s) \in D
      BY <1>8 DEF IInv, TypeOK, HistoriesOK
    <3> HIDE DEF D
    <3>2. \A m \in Messages : reached'[m] \in Seq(D)
      <4>1. \A q \in Seq(D), x \in D : Append(q, x) \in Seq(D)
        OBVIOUS
      <4> QED
        BY <1>7, <3>1, <4>1
    <3>3. reached' \in [Messages -> Seq(D)]
      BY <1>8, <3>2
    <3> QED
      BY <3>3 DEF D
  <2>2. heard' \in BOOLEAN
    BY DEF Opens
  <2>3. RefsOK'
    BY <1>5 DEF IInv, TypeOK, RefsOK, Opens, refs
  <2>4. HistoriesOK'
    BY <2>1 DEF IInv, TypeOK, HistoriesOK, Opens
  <2> QED
    BY <1>5, <2>2, <2>3, <2>4 DEF IInv, TypeOK, Opens
<1>10. Supervised'
  BY <1>2, <1>4, <1>5, <1>6 DEF IInv, Supervised, Opens, refs
<1>11. UpToDate' /\ Follows' /\ Decided'
  BY <1>5, <1>6 DEF IInv, TypeOK, RefsOK, UpToDate, Follows, Decided, Settled, Opens, refs
<1>12. KnowsWhenDown'
  <2>1. attached' = attached /\ heard' = (heard \/ s = attached)
    BY DEF Opens
  <2>2. attached = 0 \/ attached \in DOMAIN sockets
    BY DEF IInv, TypeOK, RefsOK
  <2>3. CASE attached = s
    <3>1. attached # 0
      BY <1>1, <2>3
    <3> QED
      BY <1>2, <1>5, <2>1, <2>3, <3>1 DEF KnowsWhenDown
  <2>4. CASE attached # s
    <3>1. attached = 0 \/ sockets'[attached] = sockets[attached]
      BY <1>5, <2>2, <2>4
    <3> QED
      BY <2>1, <2>4, <3>1 DEF IInv, KnowsWhenDown
  <2> QED
    BY <2>3, <2>4
<1>13. ASSUME Hook = "usePartySocket" PROVE Once'
  <2> SUFFICES ASSUME NEW m \in Messages
      PROVE
        /\ sentTo'[m] = Nowhere =>
             reached'[m] = <<>> /\ \A t \in DOMAIN sockets' : ~Waiting(m, t)'
        /\ \A t, u \in DOMAIN sockets' : Waiting(m, t)' /\ Waiting(m, u)' => t = u
        /\ \A t \in DOMAIN sockets' : Waiting(m, t)' =>
             reached'[m] = <<>> /\ (Transfer = "true" \/ sentTo'[m] = Destination(t)')
        /\ reached'[m] = <<>> \/
             (Len(reached'[m]) = 1
                /\ (Transfer = "true" \/ reached'[m] = <<sentTo'[m]>>))
    BY DEF Once
  <2>1. sentTo' = sentTo
    BY DEF Opens
  <2>2. \A t \in DOMAIN sockets : Waiting(m, t)' <=> t # s /\ Waiting(m, t)
    BY <1>2, <1>5 DEF Waiting
  <2>3. \A t \in DOMAIN sockets : Destination(t)' = Destination(t)
    BY <1>6 DEF Destination
  <2>4. CASE Waiting(m, s)
    <3>1. reached'[m] = <<Destination(s)>>
      <4>1. reached[m] = <<>>
        BY <1>13, <2>4 DEF IInv, Once
      <4>2. Append(<<>>, Destination(s)) = <<Destination(s)>>
        OBVIOUS
      <4> QED
        BY <1>7, <2>4, <4>1, <4>2
    <3> QED
      BY <1>5, <1>13, <2>1, <2>2, <2>4, <3>1 DEF IInv, Once
  <2>5. CASE ~Waiting(m, s)
    BY <1>5, <1>7, <1>13, <2>1, <2>2, <2>3, <2>5 DEF IInv, Once
  <2> QED
    BY <2>4, <2>5
<1> QED
  BY <1>9, <1>10, <1>11, <1>12, <1>13 DEF IInv, Opens

LEMMA DropsPreserves ==
  ASSUME IInv, NEW s \in DOMAIN sockets, Drops(s)
  PROVE  IInv'
<1> DEFINE r == [sockets[s] EXCEPT !.up = FALSE]
<1>1. sockets \in Seq(SocketRecords) /\ sockets[s] \in SocketRecords
  BY DEF IInv, TypeOK
<1>2. r \in SocketRecords /\ r.options = sockets[s].options
        /\ r.buffer = sockets[s].buffer
        /\ r.wanted = sockets[s].wanted /\ ~r.up
  BY <1>1 DEF SocketRecords
<1>3. sockets' = [sockets EXCEPT ![s] = r]
  BY <1>1 DEF Drops, SocketRecords
<1> HIDE DEF r
<1>4. /\ sockets' \in Seq(SocketRecords) /\ DOMAIN sockets' = DOMAIN sockets
      /\ sockets'[s] = r
      /\ \A t \in DOMAIN sockets \ {s} : sockets'[t] = sockets[t]
  BY <1>1, <1>2, <1>3
<1>5. \A t \in DOMAIN sockets : /\ sockets'[t].options = sockets[t].options
                                /\ sockets'[t].buffer = sockets[t].buffer
                                /\ sockets'[t].wanted = sockets[t].wanted
  BY <1>2, <1>4
<1>6. TypeOK'
  <2>1. RefsOK'
    BY <1>4 DEF IInv, TypeOK, RefsOK, Drops, refs
  <2>2. HistoriesOK'
    BY DEF IInv, TypeOK, HistoriesOK, Drops, histories
  <2>3. heard' \in BOOLEAN
    BY DEF Drops
  <2> QED
    BY <1>4, <2>1, <2>2, <2>3 DEF IInv, TypeOK, Drops
<1>7. Supervised'
  BY <1>2, <1>4, <1>5 DEF IInv, Supervised, Drops, refs
<1>8. UpToDate' /\ Follows' /\ Decided'
  BY <1>4, <1>5 DEF IInv, TypeOK, RefsOK, UpToDate, Follows, Decided, Settled, Drops, refs
<1>9. KnowsWhenDown'
  <2>1. attached' = attached /\ heard' = (heard /\ s # attached)
    BY DEF Drops
  <2>2. attached = 0 \/ attached \in DOMAIN sockets
    BY DEF IInv, TypeOK, RefsOK
  <2>3. CASE attached = s
    BY <1>2, <1>4, <2>1, <2>3 DEF KnowsWhenDown
  <2>4. CASE attached # s
    <3>1. attached = 0 \/ sockets'[attached] = sockets[attached]
      BY <1>4, <2>2, <2>4
    <3> QED
      BY <2>1, <2>4, <3>1 DEF IInv, KnowsWhenDown
  <2> QED
    BY <2>3, <2>4
<1>10. ASSUME Hook = "usePartySocket" PROVE Once'
  <2>1. \A m \in Messages, t \in DOMAIN sockets :
          (Waiting(m, t)' <=> Waiting(m, t)) /\ Destination(t)' = Destination(t)
    BY <1>5 DEF Waiting, Destination
  <2>2. sentTo' = sentTo /\ reached' = reached
    BY DEF Drops, histories
  <2> QED
    BY <1>4, <1>10, <2>1, <2>2 DEF IInv, Once
<1> QED
  BY <1>6, <1>7, <1>8, <1>9, <1>10 DEF IInv, Drops

LEMMA SendPreserves ==
  ASSUME IInv, NEW m \in Messages, Send(m)
  PROVE  IInv'
<1> DEFINE s == rendered.socket
           r == [sockets[s] EXCEPT !.buffer = Append(@, m)]
           d == Destination(s)
<1>1. s \in DOMAIN sockets /\ sockets \in Seq(SocketRecords)
        /\ sockets[s] \in SocketRecords
  BY DEF IInv, TypeOK, RefsOK
<1>2. d \in {o.destination : o \in Options} /\ d # Nowhere
  BY <1>1, OptionsAssumption DEF Destination, SocketRecords
<1>3. sentTo[m] = Nowhere /\ sentTo' = [sentTo EXCEPT ![m] = d]
        /\ sentTo \in [Messages -> {Nowhere} \cup {o.destination : o \in Options}]
  BY DEF Send, IInv, TypeOK, HistoriesOK
<1>4. sentTo' \in [Messages -> {Nowhere} \cup {o.destination : o \in Options}]
        /\ \A n \in Messages : sentTo'[n] = IF n = m THEN d ELSE sentTo[n]
  BY <1>2, <1>3
<1>5. reached \in [Messages -> Seq({o.destination : o \in Options})]
  BY DEF IInv, TypeOK, HistoriesOK
<1>6. UNCHANGED <<mounted, rendered, dirty, socket, cleanup, initialized, prevEnabled,
                  prevOptions, drifted, createdWith, attached, heard, missed>>
  BY DEF Send, refs, handlers
<1>7. CASE sockets[s].up
  <2>1. sockets' = sockets /\ reached' = [reached EXCEPT ![m] = Append(@, d)]
    BY <1>7 DEF Send
  <2>2. reached' \in [Messages -> Seq({o.destination : o \in Options})]
          /\ \A n \in Messages : n # m => reached'[n] = reached[n]
    <3> DEFINE D == {o.destination : o \in Options}
    <3>1. reached \in [Messages -> Seq(D)] /\ d \in D
      BY <1>2, <1>5
    <3> HIDE DEF D
    <3>2. reached' \in [Messages -> Seq(D)]
      BY <2>1, <3>1
    <3> QED
      BY <2>1, <3>2, <1>5 DEF D
  <2>3. TypeOK'
    BY <1>4, <1>6, <2>1, <2>2 DEF IInv, TypeOK, RefsOK, HistoriesOK
  <2>4. Supervised' /\ UpToDate' /\ Follows' /\ Decided' /\ KnowsWhenDown'
    BY <1>6, <2>1 DEF IInv, Supervised, UpToDate, Follows, Decided, KnowsWhenDown, Settled
  <2>5. ASSUME Hook = "usePartySocket" PROVE Once'
    <3>1. reached[m] = <<>> /\ \A t \in DOMAIN sockets : ~Waiting(m, t)
      BY <1>3, <2>5 DEF IInv, Once
    <3>2. reached'[m] = <<d>>
      BY <1>5, <2>1, <3>1
    <3>3. \A n \in Messages, t \in DOMAIN sockets :
            (Waiting(n, t)' <=> Waiting(n, t)) /\ Destination(t)' = Destination(t)
      BY <2>1 DEF Waiting, Destination
    <3>4. Len(<<d>>) = 1
      OBVIOUS
    <3> QED
      BY <1>2, <1>4, <2>1, <2>2, <2>5, <3>1, <3>2, <3>3, <3>4 DEF IInv, Once
  <2> QED
    BY <2>3, <2>4, <2>5 DEF IInv
<1>8. CASE ~sockets[s].up
  <2>1. sockets' = [sockets EXCEPT ![s] = r] /\ reached' = reached
    BY <1>1, <1>8 DEF Send, SocketRecords
  <2>2. r \in SocketRecords /\ r.options = sockets[s].options
          /\ r.wanted = sockets[s].wanted /\ r.up = sockets[s].up
          /\ r.buffer = Append(sockets[s].buffer, m)
          /\ sockets[s].buffer \in Seq(Messages)
    <3>1. sockets[s].buffer \in Seq(Messages)
      BY <1>1 DEF SocketRecords
    <3>2. Append(sockets[s].buffer, m) \in Seq(Messages)
      BY <3>1
    <3> QED
      BY <1>1, <3>1, <3>2 DEF SocketRecords
  <2> HIDE DEF r
  <2>3. /\ sockets' \in Seq(SocketRecords) /\ DOMAIN sockets' = DOMAIN sockets
        /\ sockets'[s] = r
        /\ \A t \in DOMAIN sockets \ {s} : sockets'[t] = sockets[t]
    BY <1>1, <2>1, <2>2
  <2>4. \A t \in DOMAIN sockets : /\ sockets'[t].options = sockets[t].options
                                  /\ sockets'[t].up = sockets[t].up
                                  /\ sockets'[t].wanted = sockets[t].wanted
    BY <2>2, <2>3
  <2>5. TypeOK'
    <3>1. RefsOK'
      BY <1>6, <2>3 DEF IInv, TypeOK, RefsOK
    <3>2. HistoriesOK'
      BY <1>4, <1>6, <2>1 DEF IInv, TypeOK, HistoriesOK
    <3> QED
      BY <1>6, <2>3, <3>1, <3>2 DEF IInv, TypeOK
  <2>6. Supervised'
    BY <1>6, <1>8, <2>3, <2>4 DEF IInv, Supervised
  <2>7. UpToDate' /\ Follows' /\ Decided'
    BY <1>1, <1>6, <2>3, <2>4
    DEF IInv, TypeOK, RefsOK, UpToDate, Follows, Decided, Settled
  <2>8. KnowsWhenDown'
    BY <1>6, <2>4 DEF IInv, TypeOK, RefsOK, KnowsWhenDown
  <2>9. ASSUME Hook = "usePartySocket" PROVE Once'
    <3>1. reached[m] = <<>> /\ \A t \in DOMAIN sockets : ~Waiting(m, t)
      BY <1>3, <2>9 DEF IInv, Once
    <3>2. \A n \in Messages, t \in DOMAIN sockets :
            (Waiting(n, t)' <=> Waiting(n, t) \/ (n = m /\ t = s))
              /\ Destination(t)' = Destination(t)
      <4>1. \A n \in Messages :
              (\E i \in DOMAIN r.buffer : r.buffer[i] = n)
                <=> (\E i \in DOMAIN sockets[s].buffer : sockets[s].buffer[i] = n) \/ n = m
        <5> DEFINE b == sockets[s].buffer
        <5>1. b \in Seq(Messages) /\ r.buffer = Append(b, m)
          BY <2>2
        <5> HIDE DEF b
        <5>2. /\ Len(b) \in Nat /\ DOMAIN b = 1..Len(b)
              /\ DOMAIN Append(b, m) = 1..(Len(b) + 1)
              /\ Append(b, m)[Len(b) + 1] = m
              /\ \A i \in 1..Len(b) : Append(b, m)[i] = b[i]
          BY <5>1
        <5>3. \A n \in Messages :
                (\E i \in DOMAIN Append(b, m) : Append(b, m)[i] = n)
                  <=> (\E i \in DOMAIN b : b[i] = n) \/ n = m
          BY <5>2
        <5> QED
          BY <5>1, <5>3 DEF b
      <4>2. \A n \in Messages, t \in DOMAIN sockets :
              Waiting(n, t)' <=> Waiting(n, t) \/ (n = m /\ t = s)
        BY <2>3, <4>1 DEF Waiting
      <4> QED
        BY <2>4, <4>2 DEF Destination
    <3> QED
      BY <1>2, <1>4, <2>1, <2>3, <2>9, <3>1, <3>2 DEF IInv, Once
  <2> QED
    BY <2>5, <2>6, <2>7, <2>8, <2>9 DEF IInv
<1> QED
  BY <1>7, <1>8

LEMMA FlushPreserves ==
  ASSUME IInv, Flush, mounted, rendered.socket = socket, dirty' = FALSE
  PROVE  IInv'
<1>1. TypeOK /\ Supervised /\ UpToDate /\ Follows /\ KnowsWhenDown
  BY DEF IInv
<1>2. (Kept \/ Moved) /\ (drifted' => ~rendered.enabled)
  BY <1>1, FlushOutcome
<1>3. /\ UNCHANGED <<mounted, rendered, sentTo, reached>>
      /\ prevEnabled' = rendered.enabled /\ prevOptions' = rendered.options
      /\ attached' = rendered.socket /\ heard' = HeardAfter(cleanup)
  BY DEF Flush, histories
<1>4. initialized' \in {initialized, rendered.socket}
  BY DEF Flush, Disabled, Reenabled, Rerun, SetUp
<1>5. rendered.socket \in DOMAIN sockets /\ sockets \in Seq(SocketRecords)
        /\ rendered.enabled \in BOOLEAN /\ rendered.options \in Options
        /\ createdWith \in Options
        /\ socket \in DOMAIN sockets /\ initialized \in {0} \cup DOMAIN sockets
  BY <1>1 DEF TypeOK, RefsOK
<1>6. ~heard'
  <2>1. CASE attached = 0
    BY <1>1, <1>3, <2>1 DEF HeardAfter, KnowsWhenDown
  <2>2. CASE attached # 0
    <3>1. attached \in DOMAIN sockets
      BY <1>1, <2>2 DEF TypeOK, RefsOK
    <3>2. heard => attached = cleanup /\ sockets[cleanup].up
      BY <1>1, <3>1 DEF KnowsWhenDown, Supervised
    <3> QED
      BY <1>3, <2>2, <3>2 DEF HeardAfter
  <2> QED
    BY <2>1, <2>2
<1>7. heard' \in BOOLEAN
  BY <1>1, <1>3 DEF HeardAfter, TypeOK
<1>8. CASE Kept
  <2>1. /\ sockets' \in Seq(SocketRecords) /\ DOMAIN sockets' = DOMAIN sockets
        /\ \A s \in DOMAIN sockets : /\ sockets'[s].options = sockets[s].options
                                     /\ sockets'[s].buffer = sockets[s].buffer
    BY <1>8 DEF Kept, SameSockets
  <2>2. /\ socket' = socket /\ createdWith' = createdWith /\ cleanup' = rendered.socket
        /\ drifted' \in BOOLEAN /\ missed' \in BOOLEAN
    BY <1>8 DEF Kept
  <2>3. TypeOK'
    <3>1. RefsOK'
      BY <1>1, <1>3, <1>4, <1>5, <2>1, <2>2 DEF RefsOK, TypeOK
    <3>2. HistoriesOK'
      BY <1>1, <1>3, <2>2 DEF HistoriesOK, TypeOK
    <3> QED
      BY <1>1, <1>3, <1>7, <2>1, <3>1, <3>2 DEF TypeOK
  <2>4. Supervised'
    <3>1. mounted'
      BY <1>3
    <3> QED
      BY <1>8, <2>2, <3>1 DEF Kept, Supervised
  <2>5. UpToDate'
    BY <1>1, <1>3, <1>5, <2>1, <2>2 DEF UpToDate, Settled
  <2>6. Follows'
    <3>1. ~missed' /\ ~drifted' => ~missed /\ ~drifted /\ rendered.options = prevOptions
      BY <1>8 DEF Kept
    <3> QED
      BY <1>1, <1>2, <1>3, <1>5, <2>1, <2>2, <3>1 DEF Follows
  <2>7. Decided'
    BY <1>3, <1>8 DEF Kept, Decided
  <2>8. KnowsWhenDown'
    <3>1. ~sockets'[rendered.socket].up
      BY <1>5, <1>8, <2>1 DEF Kept
    <3> QED
      BY <1>3, <1>6, <3>1 DEF KnowsWhenDown
  <2>9. ASSUME Hook = "usePartySocket" PROVE Once'
    <3>1. \A m \in Messages, s \in DOMAIN sockets :
            (Waiting(m, s)' <=> Waiting(m, s)) /\ Destination(s)' = Destination(s)
      BY <2>1 DEF Waiting, Destination
    <3> QED
      BY <1>3, <2>1, <2>9, <3>1 DEF IInv, Once
  <2> QED
    BY <2>3, <2>4, <2>5, <2>6, <2>7, <2>8, <2>9 DEF IInv
<1>9. CASE Moved
  <2> DEFINE old == rendered.socket
  <2>0. PICK new \in Nat : new = Len(sockets) + 1
    BY <1>5
  <2>1. /\ sockets' \in Seq(SocketRecords) /\ Len(sockets) \in Nat
        /\ DOMAIN sockets = 1..Len(sockets) /\ DOMAIN sockets' = 1..new
        /\ new \notin DOMAIN sockets /\ new \in DOMAIN sockets'
        /\ \A s \in DOMAIN sockets' : s = new \/ s \in DOMAIN sockets
        /\ DOMAIN sockets \subseteq DOMAIN sockets'
    BY <1>5, <1>9, <2>0 DEF Moved
  <2>2. /\ socket' = new /\ createdWith' = rendered.options /\ cleanup' = new
        /\ drifted' \in BOOLEAN /\ missed' = FALSE
        /\ sockets'[new].options = rendered.options
        /\ sockets'[new].buffer = IF ShouldTransfer THEN sockets[old].buffer ELSE <<>>
        /\ \A s \in DOMAIN sockets :
             /\ sockets'[s].options = sockets[s].options
             /\ sockets'[s].buffer = IF s = old THEN <<>> ELSE sockets[s].buffer
    BY <1>9, <2>0, <2>1 DEF Moved
  <2>3. \A s \in DOMAIN sockets' : ~sockets'[s].wanted /\ ~sockets'[s].up
    BY <1>9 DEF Moved, AtRest
  <2>4. socket' # rendered'.socket
    BY <1>3, <1>5, <2>1, <2>2
  <2>5. TypeOK'
    <3>1. RefsOK'
      BY <1>1, <1>3, <1>4, <1>5, <2>1, <2>2 DEF RefsOK, TypeOK
    <3>2. HistoriesOK'
      BY <1>1, <1>3, <2>2 DEF HistoriesOK, TypeOK
    <3> QED
      BY <1>1, <1>3, <1>7, <2>1, <3>1, <3>2 DEF TypeOK
  <2>6. Supervised'
    BY <2>3 DEF Supervised
  <2>7. UpToDate' /\ Decided'
    BY <1>3, <2>2, <2>4 DEF UpToDate, Decided, Settled
  <2>8. Follows'
    BY <1>2, <1>3, <2>2 DEF Follows
  <2>9. KnowsWhenDown'
    BY <1>3, <1>5, <1>6, <2>1, <2>3 DEF KnowsWhenDown
  <2>10. ASSUME Hook = "usePartySocket" PROVE Once'
    <3>1. \A m \in Messages, s \in DOMAIN sockets :
            /\ Waiting(m, s)' <=> s # old /\ Waiting(m, s)
            /\ Destination(s)' = Destination(s)
      BY <2>2 DEF Waiting, Destination
    <3>2. \A m \in Messages : Waiting(m, new)' <=> ShouldTransfer /\ Waiting(m, old)
      BY <2>2 DEF Waiting
    <3>3. ShouldTransfer =>
            Transfer = "true" \/ Destination(new)' = Destination(old)
      <4>1. createdWith = sockets[old].options
        BY <1>1 DEF UpToDate
      <4>2. SameDestination => createdWith.destination = rendered.options.destination
        BY <2>10 DEF SameDestination, DestinationKey
      <4> QED
        BY <2>2, <4>1, <4>2 DEF ShouldTransfer, Destination
    <3>4. Once
      BY <2>10 DEF IInv
    <3>5. ASSUME NEW m \in Messages
          PROVE  /\ sentTo'[m] = Nowhere =>
                      reached'[m] = <<>> /\ \A s \in DOMAIN sockets' : ~Waiting(m, s)'
                 /\ reached'[m] = <<>> \/
                      (Len(reached'[m]) = 1
                         /\ (Transfer = "true" \/ reached'[m] = <<sentTo'[m]>>))
      BY <1>3, <1>5, <2>1, <3>1, <3>2, <3>4 DEF Once
    <3>6. ASSUME NEW m \in Messages, NEW s \in DOMAIN sockets', Waiting(m, s)'
          PROVE  /\ \A t \in DOMAIN sockets' : Waiting(m, t)' => s = t
                 /\ reached'[m] = <<>>
                 /\ Transfer = "true" \/ sentTo'[m] = Destination(s)'
      <4>1. CASE s = new
        <5>1. ShouldTransfer /\ Waiting(m, old)
          BY <3>2, <3>6, <4>1
        <5>2. \A t \in DOMAIN sockets : ~Waiting(m, t)'
          BY <1>5, <3>1, <3>4, <5>1 DEF Once
        <5>3. reached[m] = <<>> /\ (Transfer = "true" \/ sentTo[m] = Destination(old))
          BY <1>5, <3>4, <5>1 DEF Once
        <5> QED
          BY <1>3, <2>1, <3>3, <4>1, <5>1, <5>2, <5>3
      <4>2. CASE s \in DOMAIN sockets
        <5>1. s # old /\ Waiting(m, s)
          BY <3>1, <3>6, <4>2
        <5>2. ~Waiting(m, old)
          BY <1>5, <3>4, <4>2, <5>1 DEF Once
        <5>3. \A t \in DOMAIN sockets' : Waiting(m, t)' => s = t
          BY <2>1, <3>1, <3>2, <3>4, <4>2, <5>1, <5>2 DEF Once
        <5>4. reached[m] = <<>> /\ (Transfer = "true" \/ sentTo[m] = Destination(s))
          BY <3>4, <4>2, <5>1 DEF Once
        <5> QED
          BY <1>3, <3>1, <4>2, <5>3, <5>4
      <4> QED
        BY <2>1, <4>1, <4>2
    <3> QED
      BY <3>5, <3>6 DEF Once
  <2> QED
    BY <2>5, <2>6, <2>7, <2>8, <2>9, <2>10 DEF IInv
<1> QED
  BY <1>2, <1>8, <1>9

LEMMA RenderPreserves ==
  ASSUME IInv, NEW o \in Options, NEW on \in BOOLEAN, Render(o, on)
  PROVE  IInv'
<1>1. /\ dirty' = TRUE /\ rendered' = [socket |-> socket, options |-> o, enabled |-> on]
      /\ UNCHANGED <<mounted, socket, cleanup, initialized, prevEnabled, prevOptions,
                     drifted, createdWith, sockets, attached, heard, sentTo, reached,
                     missed>>
  BY DEF Render, refs, handlers, histories
<1>2. TypeOK'
  <2>1. rendered' \in [socket : DOMAIN sockets, options : Options, enabled : BOOLEAN]
    BY <1>1 DEF IInv, TypeOK, RefsOK
  <2>2. RefsOK'
    BY <1>1, <2>1 DEF IInv, TypeOK, RefsOK
  <2> QED
    BY <1>1, <2>2 DEF IInv, TypeOK, HistoriesOK
<1>3. Supervised' /\ UpToDate' /\ Follows' /\ Decided' /\ KnowsWhenDown'
  BY <1>1 DEF IInv, Supervised, UpToDate, Follows, Decided, KnowsWhenDown, Settled
<1>4. ASSUME Hook = "usePartySocket" PROVE Once'
  <2>1. \A m \in Messages, s \in DOMAIN sockets :
          (Waiting(m, s)' <=> Waiting(m, s)) /\ Destination(s)' = Destination(s)
    BY <1>1 DEF Waiting, Destination
  <2> QED
    BY <1>1, <1>4, <2>1 DEF IInv, Once
<1> QED
  BY <1>2, <1>3, <1>4 DEF IInv

LEMMA UnmountPreserves ==
  ASSUME IInv, Unmount
  PROVE  IInv'
<1>1. TypeOK /\ Supervised /\ UpToDate /\ Follows /\ KnowsWhenDown
  BY DEF IInv
<1>2. SameSockets(sockets, sockets') /\ AtRest(sockets')
  BY <1>1, CleanedUpFacts DEF Unmount
<1>3. /\ mounted' = FALSE /\ attached' = 0 /\ heard' = HeardAfter(cleanup)
      /\ UNCHANGED <<rendered, dirty, socket, cleanup, initialized, prevEnabled,
                     prevOptions, drifted, createdWith, sentTo, reached, missed>>
  BY DEF Unmount, refs, histories
<1>4. /\ sockets' \in Seq(SocketRecords) /\ DOMAIN sockets' = DOMAIN sockets
      /\ \A s \in DOMAIN sockets : /\ sockets'[s].options = sockets[s].options
                                   /\ sockets'[s].buffer = sockets[s].buffer
  BY <1>2 DEF SameSockets
<1>5. heard' = FALSE
  <2>1. attached # 0 => attached \in DOMAIN sockets
    BY <1>1 DEF TypeOK, RefsOK
  <2>2. heard => attached # 0 /\ attached = cleanup /\ sockets[cleanup].up
    BY <1>1, <2>1 DEF KnowsWhenDown, Supervised
  <2>3. ~HeardAfter(cleanup) /\ HeardAfter(cleanup) \in BOOLEAN
    BY <1>1, <2>2 DEF HeardAfter, TypeOK
  <2> QED
    BY <1>3, <2>3
<1>6. TypeOK'
  <2>1. RefsOK'
    BY <1>1, <1>3, <1>4 DEF TypeOK, RefsOK
  <2> QED
    BY <1>1, <1>3, <1>4, <1>5, <2>1 DEF TypeOK, HistoriesOK
<1>7. Supervised' /\ Decided' /\ KnowsWhenDown'
  BY <1>2, <1>3, <1>5 DEF AtRest, Supervised, Decided, Settled, KnowsWhenDown
<1>8. UpToDate' /\ Follows'
  BY <1>1, <1>3, <1>4 DEF TypeOK, RefsOK, UpToDate, Follows, Settled
<1>9. ASSUME Hook = "usePartySocket" PROVE Once'
  <2>1. \A m \in Messages, s \in DOMAIN sockets :
          (Waiting(m, s)' <=> Waiting(m, s)) /\ Destination(s)' = Destination(s)
    BY <1>4 DEF Waiting, Destination
  <2> QED
    BY <1>3, <1>4, <1>9, <2>1 DEF IInv, Once
<1> QED
  BY <1>6, <1>7, <1>8, <1>9 DEF IInv

LEMMA InitEstablishes == Init => IInv
<1> SUFFICES ASSUME Init PROVE IInv
  OBVIOUS
<1> DEFINE r == NewSocket(rendered.options, <<>>)
<1>1. /\ rendered \in [socket : {1}, options : Options, enabled : BOOLEAN]
      /\ sockets = <<r>>
  BY DEF Init
<1>2. r \in SocketRecords /\ ~r.wanted /\ ~r.up /\ r.buffer = <<>>
        /\ r.options = rendered.options
  <2>1. <<>> \in Seq(Messages)
    OBVIOUS
  <2> QED
    BY <1>1, <2>1 DEF NewSocket, SocketRecords
<1> HIDE DEF r
<1>3. sockets \in Seq(SocketRecords) /\ DOMAIN sockets = {1} /\ sockets[1] = r
  BY <1>1, <1>2
<1>4. TypeOK
  <2>1. RefsOK
    BY <1>1, <1>3 DEF Init, RefsOK
  <2>2. <<>> \in Seq({o.destination : o \in Options})
    OBVIOUS
  <2>3. HistoriesOK
    BY <2>2 DEF Init, HistoriesOK
  <2> QED
    BY <1>3, <2>1, <2>3 DEF Init, TypeOK
<1>5. Supervised /\ UpToDate /\ Follows /\ Decided /\ KnowsWhenDown
  BY <1>1, <1>2, <1>3
  DEF Init, Supervised, UpToDate, Follows, Decided, KnowsWhenDown, Settled
<1>6. \A m \in Messages, s \in DOMAIN sockets : ~Waiting(m, s)
  BY <1>2, <1>3 DEF Waiting
<1>7. Once
  BY <1>6 DEF Once, Init
<1> QED
  BY <1>4, <1>5, <1>7 DEF IInv

LEMMA NextPreserves == IInv /\ [Next]_vars => IInv'
<1> SUFFICES ASSUME IInv, [Next]_vars PROVE IInv'
  OBVIOUS
<1>1. ASSUME NEW o \in Options, NEW on \in BOOLEAN, Render(o, on) PROVE IInv'
  BY <1>1, RenderPreserves
<1>2. CASE RunEffects
  <2>1. rendered.socket = socket /\ Flush /\ mounted /\ dirty' = FALSE
    BY <1>2 DEF RunEffects, IInv, UpToDate
  <2> QED
    BY <2>1, FlushPreserves
<1>3. CASE Refresh
  <2>1. rendered.socket = socket /\ Flush /\ mounted /\ dirty' = FALSE
    BY <1>3 DEF Refresh, IInv, TypeOK
  <2> QED
    BY <2>1, FlushPreserves
<1>4. CASE Unmount
  BY <1>4, UnmountPreserves
<1>5. ASSUME NEW m \in Messages, Send(m) PROVE IInv'
  BY <1>5, SendPreserves
<1>6. ASSUME NEW s \in DOMAIN sockets, Opens(s) PROVE IInv'
  BY <1>6, OpensPreserves
<1>7. ASSUME NEW s \in DOMAIN sockets, Drops(s) PROVE IInv'
  BY <1>7, DropsPreserves
<1>8. CASE UNCHANGED vars
  <2>1. UNCHANGED <<mounted, rendered, dirty, socket, cleanup, initialized, prevEnabled,
                    prevOptions, drifted, createdWith, sockets, attached, heard, sentTo,
                    reached, missed>>
    BY <1>8 DEF vars, refs, handlers, histories
  <2>2. TypeOK' /\ Supervised' /\ UpToDate' /\ Follows' /\ Decided' /\ KnowsWhenDown'
    BY <2>1 DEF IInv, TypeOK, RefsOK, HistoriesOK, Supervised, UpToDate, Follows,
                Decided, KnowsWhenDown, Settled
  <2>3. Once' <=> Once
    BY <2>1 DEF Once, Waiting, Destination
  <2> QED
    BY <2>2, <2>3 DEF IInv
<1> QED
  BY <1>1, <1>2, <1>3, <1>4, <1>5, <1>6, <1>7, <1>8 DEF Next

LEMMA Invariant == Spec => []IInv
<1> QED
  BY InitEstablishes, NextPreserves, PTL DEF Spec

-----------------------------------------------------------------------------

(* Every variable of the hook keeps its type; a socket that is referred to  *)
(* was made.                                                                *)
THEOREM TypeCorrect == Spec => []TypeOK
<1>1. IInv => TypeOK
  BY DEF IInv
<1> QED
  BY <1>1, Invariant, PTL

(* useStableSocket: one socket connects at a time, none after unmounting,   *)
(* and at rest the one of the component, for the options in force.          *)
THEOREM OneSocketAsRendered == Spec => []ConnectsAsRendered
<1>1. IInv => ConnectsAsRendered
  <2> SUFFICES ASSUME IInv PROVE ConnectsAsRendered
    OBVIOUS
  <2>1. \A s \in DOMAIN sockets : sockets[s].wanted => s = cleanup /\ mounted
    BY DEF IInv, Supervised
  <2>2. ASSUME Settled
        PROVE  /\ cleanup = rendered.socket
               /\ prevEnabled = rendered.enabled /\ prevOptions = rendered.options
    BY <2>2 DEF IInv, UpToDate, Settled
  <2>3. ASSUME Settled, rendered.enabled, ~missed
        PROVE  sockets[rendered.socket].options = rendered.options
    <3>1. ~drifted
      BY <2>2, <2>3 DEF IInv, Follows
    <3> QED
      BY <2>2, <2>3, <3>1 DEF IInv, Follows, Settled
  <2>4. ASSUME Settled
        PROVE  /\ sockets[rendered.socket].wanted => rendered.enabled
               /\ rendered.enabled /\ ~rendered.options.startClosed =>
                    sockets[rendered.socket].wanted
    BY <2>4 DEF IInv, Decided
  <2>5. \A s, t \in DOMAIN sockets :
          sockets[s].wanted /\ sockets[t].wanted => s = t
    BY <2>1
  <2>6. ~mounted => \A s \in DOMAIN sockets : ~sockets[s].wanted
    BY <2>1
  <2>7. ASSUME Settled, NEW s \in DOMAIN sockets, sockets[s].wanted
        PROVE  s = rendered.socket /\ rendered.enabled
    BY <2>1, <2>2, <2>4, <2>7
  <2> QED
    BY <2>3, <2>4, <2>5, <2>6, <2>7 DEF ConnectsAsRendered
<1> QED
  BY <1>1, Invariant, PTL

(* createReplacementSocket with usePartySocket's key: a buffered message is *)
(* transmitted at most once, and only where it was meant to go.             *)
THEOREM MessagesFollowTheDestination ==
  Hook = "usePartySocket" => (Spec => []MessagesKeepTheirDestination)
<1> SUFFICES ASSUME Hook = "usePartySocket"
             PROVE  Spec => []MessagesKeepTheirDestination
  OBVIOUS
<1>1. IInv => MessagesKeepTheirDestination
  <2> SUFFICES ASSUME IInv, NEW m \in Messages
      PROVE  /\ Len(reached[m]) <= 1
             /\ reached[m] # <<>> =>
                  /\ \A s \in DOMAIN sockets : ~Waiting(m, s)
                  /\ Transfer = "true" \/ reached[m] = <<sentTo[m]>>
    BY DEF MessagesKeepTheirDestination
  <2>1. Once
    BY DEF IInv
  <2>2. reached[m] = <<>> \/
          (Len(reached[m]) = 1 /\ (Transfer = "true" \/ reached[m] = <<sentTo[m]>>))
    BY <2>1 DEF Once
  <2>3. reached[m] # <<>> => \A s \in DOMAIN sockets : ~Waiting(m, s)
    BY <2>1 DEF Once
  <2>4. Len(reached[m]) <= 1
    <3>1. reached[m] = <<>> => Len(reached[m]) <= 1
      OBVIOUS
    <3>2. Len(reached[m]) = 1 => Len(reached[m]) <= 1
      OBVIOUS
    <3> QED
      BY <2>2, <3>1, <3>2
  <2> QED
    BY <2>2, <2>3, <2>4
<1> QED
  BY <1>1, Invariant, PTL

(* useAttachWebSocketEventHandlers: the consumer never misses that the      *)
(* socket it listens to went down, however it went.                         *)
THEOREM NoMissedClose == Spec => []KnowsWhenDown
<1>1. IInv => KnowsWhenDown
  BY DEF IInv
<1> QED
  BY <1>1, Invariant, PTL
=============================================================================
