--------------------------- MODULE Tracks_proofs ---------------------------
(***************************************************************************)
(* Proofs about Tracks, for any streams, batch limit and bounds.           *)
(*                                                                         *)
(* What a request does to the dispatchers is said once, by Adds; Base is   *)
(* the types with what Adds needs.  Sound is inductive by itself and gives *)
(* LiveIsServed: entries that were given up stay given up, only they are   *)
(* closed, and nobody waits for an entry twice.  Paired and Awaited, for   *)
(* the two halves of the dispatchers, give AnsweredByItsRequest; InOrder,  *)
(* Fresh and Accounted give NothingLeaks.                                  *)
(***************************************************************************)
EXTENDS Tracks, SequenceTheorems, WellFoundedInduction, TLAPS

Phases == {"off", "idle", "due", "asked", "retrying", "sending", "live",
           "stuck", "errored"}
Kinds == {"push", "pull", "close"}
Entries == [stream : Streams, n : Nat, session : Nat]
Timers ==
  [kind : Kinds, first : Entries, waiters : SUBSET Entries,
   batch : SUBSET Entries, current : BOOLEAN, joinable : BOOLEAN]
Tasks ==
  [kind : Kinds, first : Entries, waiters : SUBSET Entries,
   carried : SUBSET Entries, split : BOOLEAN, early : SUBSET Entries]
Answers ==
  [kind : {"push", "pull"}, entry : Entries,
   result : {"found", "missing", "rejected"}]

Types ==
  /\ session \in Nat /\ pc \in Usable \cup {"none", "closed"}
  /\ phase \in [Streams -> Phases] /\ n \in [Streams -> Nat]
  /\ timers \in Seq(Timers) /\ tasks \in Seq(Tasks) /\ answers \subseteq Answers
  /\ sfu \subseteq Entries /\ stopped \subseteq Entries
  /\ abandoned \subseteq Entries /\ refused \subseteq Entries
  /\ sent \subseteq Entries /\ split \subseteq Kinds
  /\ faults \in Nat

TypeOK == Types /\ bounds \in Bounds

-----------------------------------------------------------------------------
(* Sequences.                                                               *)

LEMMA TailIs ==
  ASSUME NEW S, NEW s \in Seq(S), s # <<>>
  PROVE  /\ Len(s) \in Nat /\ Len(Tail(s)) = Len(s) - 1 /\ Tail(s) \in Seq(S)
         /\ 1 \in 1..Len(s) /\ Head(s) = s[1] /\ s[1] \in S
         /\ \A i \in 1..Len(Tail(s)) : i + 1 \in 1..Len(s) /\ Tail(s)[i] = s[i + 1]
  OBVIOUS

LEMMA AppendIs ==
  ASSUME NEW S, NEW s \in Seq(S), NEW m \in S
  PROVE  /\ Append(s, m) \in Seq(S)
         /\ Len(s) \in Nat /\ Len(Append(s, m)) = Len(s) + 1
         /\ \A i \in 1..Len(s) : i \in 1..Len(Append(s, m)) /\ Append(s, m)[i] = s[i]
         /\ Len(s) + 1 \in 1..Len(Append(s, m)) /\ Append(s, m)[Len(s) + 1] = m
         /\ \A i \in 1..Len(Append(s, m)) : i \in 1..Len(s) \/ i = Len(s) + 1
  OBVIOUS

LEMMA FunctionIsSeq ==
  ASSUME NEW S, NEW m \in Nat, NEW f \in [1..m -> S]
  PROVE  f \in Seq(S) /\ Len(f) = m
<1>1. f \in Seq(S)
  BY SeqDef
<1>2. DOMAIN f = 1..m /\ DOMAIN f = 1..Len(f) /\ Len(f) \in Nat
  BY <1>1, LenProperties
<1> QED BY <1>1, <1>2

Below == {p \in Nat \X Nat : p[1] < p[2]}

LEMMA BelowWellFounded == IsWellFoundedOn(Below, Nat)
<1>1. OpToRel(<, Nat) = Below
  BY DEF OpToRel, Below
<1> QED BY <1>1, NatLessThanWellFounded, Zenon

LEMMA LeastNatural ==
  ASSUME NEW T, T \subseteq Nat, T # {}
  PROVE  \E x \in T : \A y \in T : x <= y
<1>1. PICK x \in T : \A y \in T : ~ (<<y, x>> \in Below)
  BY BelowWellFounded, WFMin
<1>2. ASSUME NEW y \in T
      PROVE  x <= y
  <2>1. <<y, x>> \notin Below /\ x \in Nat /\ y \in Nat
    BY <1>1
  <2> QED BY <2>1 DEF Below
<1> QED BY <1>2

-----------------------------------------------------------------------------
(* The dispatchers.                                                         *)

Cleared(x) == [x EXCEPT !.current = FALSE, !.joinable = FALSE]
Filled(x, e) == [x EXCEPT !.batch = @ \cup {e}]
Joined(x, kind, e) == [x EXCEPT !.waiters = @ \cup Waiters(kind, e)]

LEMMA ClearedIs ==
  ASSUME NEW x \in Timers
  PROVE  /\ Cleared(x) \in Timers /\ Cleared(x).kind = x.kind /\ Cleared(x).first = x.first
         /\ Cleared(x).waiters = x.waiters /\ Cleared(x).batch = x.batch
         /\ ~Cleared(x).current /\ ~Cleared(x).joinable
  BY DEF Cleared, Timers

LEMMA FilledIs ==
  ASSUME NEW x \in Timers, NEW e \in Entries
  PROVE  /\ Filled(x, e) \in Timers /\ Filled(x, e).kind = x.kind
         /\ Filled(x, e).first = x.first /\ Filled(x, e).waiters = x.waiters
         /\ Filled(x, e).batch = x.batch \cup {e}
         /\ Filled(x, e).current = x.current /\ Filled(x, e).joinable = x.joinable
  BY DEF Filled, Timers

LEMMA JoinedIs ==
  ASSUME NEW x \in Timers, NEW kind, NEW e \in Entries
  PROVE  /\ Joined(x, kind, e) \in Timers /\ Joined(x, kind, e).kind = x.kind
         /\ Joined(x, kind, e).first = x.first /\ Joined(x, kind, e).batch = x.batch
         /\ Joined(x, kind, e).waiters = x.waiters \cup Waiters(kind, e)
         /\ Joined(x, kind, e).current = x.current
         /\ Joined(x, kind, e).joinable = x.joinable
<1>1. Waiters(kind, e) \subseteq Entries
  BY DEF Waiters
<1> QED BY <1>1 DEF Joined, Timers

LEMMA HolderHolds ==
  ASSUME NEW ts \in Seq(Timers), NEW kind, Holders(ts, kind) # {}
  PROVE  /\ Holder(ts, kind) \in Holders(ts, kind)
         /\ \A j \in Holders(ts, kind) : Holder(ts, kind) <= j
<1>1. Holders(ts, kind) \subseteq Nat
  BY DEF Holders
<1>2. \E i \in Holders(ts, kind) : \A j \in Holders(ts, kind) : i <= j
  BY <1>1, LeastNatural
<1> QED BY <1>2 DEF Holder

\* A timer of this kind that has lost the batch and the promise.
LEMMA WithRoomIs ==
  ASSUME NEW ts \in Seq(Timers), NEW kind \in Kinds
  PROVE  /\ WithRoom(ts, kind) \in Seq(Timers)
         /\ Len(WithRoom(ts, kind)) = Len(ts)
         /\ ~IsFull(ts, kind) => WithRoom(ts, kind) = ts
         /\ \A i \in 1..Len(ts) :
              \/ WithRoom(ts, kind)[i] = ts[i]
              \/ ts[i].kind = kind /\ WithRoom(ts, kind)[i] = Cleared(ts[i])
<1> DEFINE f == [i \in DOMAIN ts |->
                   IF ts[i].kind = kind
                   THEN Cleared(ts[i])
                   ELSE ts[i]]
<1>1. \A i \in 1..Len(ts) : ts[i] \in Timers
  BY ElementOfSeq
<1>2. DOMAIN ts = 1..Len(ts) /\ Len(ts) \in Nat
  BY LenProperties
<1>3. \A i \in 1..Len(ts) : f[i] \in Timers
  BY <1>1, <1>2, ClearedIs
<1>4. f \in Seq(Timers) /\ Len(f) = Len(ts)
  BY <1>2, <1>3, FunctionIsSeq
<1>5. WithRoom(ts, kind) = IF IsFull(ts, kind) THEN f ELSE ts
  BY DEF WithRoom, Cleared
<1>6. \A i \in 1..Len(ts) :
        \/ f[i] = ts[i]
        \/ ts[i].kind = kind /\ f[i] = Cleared(ts[i])
  BY <1>2
<1> HIDE DEF f
<1>7. CASE IsFull(ts, kind)
  BY <1>4, <1>5, <1>6, <1>7
<1>8. CASE ~IsFull(ts, kind)
  BY <1>5, <1>8
<1> QED BY <1>7, <1>8

LEMMA InBatchIs ==
  ASSUME NEW ts \in Seq(Timers), NEW kind \in Kinds, NEW e \in Entries
  PROVE  /\ InBatch(ts, kind, e) \in Seq(Timers)
         /\ Len(InBatch(ts, kind, e)) = Len(ts)
         /\ \A i \in 1..Len(ts) :
              \/ InBatch(ts, kind, e)[i] = ts[i]
              \/ i \in Holders(ts, kind) /\ InBatch(ts, kind, e)[i] = Filled(ts[i], e)
         /\ \A i \in Holders(ts, kind) : Holders(ts, kind) = {i} =>
              InBatch(ts, kind, e)[i] = Filled(ts[i], e)
         /\ Holders(ts, kind) # {} =>
              \E i \in Holders(ts, kind) :
                /\ e \in InBatch(ts, kind, e)[i].batch
                /\ \A j \in Holders(ts, kind) : i <= j
<1>1. CASE Holders(ts, kind) = {}
  BY <1>1 DEF InBatch
<1>2. CASE Holders(ts, kind) # {}
  <2> DEFINE h == Holder(ts, kind)
             f == [ts EXCEPT ![h] = Filled(ts[h], e)]
  <2>1. InBatch(ts, kind, e) = f
    BY <1>2 DEF InBatch, Filled
  <2>2. /\ h \in Holders(ts, kind) /\ h \in 1..Len(ts) /\ ts[h] \in Timers
        /\ \A j \in Holders(ts, kind) : h <= j
    BY <1>2, HolderHolds, ElementOfSeq DEF Holders
  <2>3. /\ DOMAIN f = DOMAIN ts /\ DOMAIN ts = 1..Len(ts) /\ Len(ts) \in Nat
        /\ \A i \in 1..Len(ts) : i # h => f[i] = ts[i]
        /\ f[h] = Filled(ts[h], e)
    BY <2>2, LenProperties
  <2>4. f[h] \in Timers /\ e \in f[h].batch
    BY <2>2, <2>3, FilledIs
  <2>5. f = [i \in DOMAIN ts |-> f[i]]
    BY <2>2
  <2> HIDE DEF h, f
  <2>6. \A i \in 1..Len(ts) : f[i] \in Timers
    BY <2>3, <2>4, ElementOfSeq
  <2>7. f \in Seq(Timers) /\ Len(f) = Len(ts)
    BY <2>3, <2>5, <2>6, FunctionIsSeq
  <2>8. \A i \in 1..Len(ts) :
          \/ f[i] = ts[i]
          \/ i \in Holders(ts, kind) /\ f[i] = Filled(ts[i], e)
    BY <2>2, <2>3
  <2>9. \A i \in Holders(ts, kind) : Holders(ts, kind) = {i} =>
          f[i] = Filled(ts[i], e)
    BY <2>2, <2>3
  <2> QED BY <2>1, <2>2, <2>4, <2>7, <2>8, <2>9
<1> QED BY <1>1, <1>2

\* Of each kind, only one promise can still be joined, and its timer's batch
\* is the one that is filled.
Joins(ts) ==
  /\ \A i \in 1..Len(ts) : ts[i].joinable => ts[i].current
  /\ \A i, j \in 1..Len(ts) :
       ts[i].joinable /\ ts[j].joinable /\ ts[i].kind = ts[j].kind => i = j

\* What asking for e may do to a timer that is there.
Extends(x, y, kind, e) ==
  /\ x.kind = y.kind /\ x.first = y.first
  /\ y.batch \subseteq x.batch /\ x.batch \subseteq y.batch \cup {e}
  /\ y.waiters \subseteq x.waiters /\ x.waiters \subseteq y.waiters \cup Waiters(kind, e)
  /\ x.kind # kind => x = y

\* The timers as they are when the entry was put into the batch.
Puts(ts, room, pushed, kind, e) ==
  /\ room \in Seq(Timers) /\ pushed \in Seq(Timers)
  /\ Len(room) = Len(ts) /\ Len(pushed) = Len(ts) /\ Len(ts) \in Nat
  /\ Joins(pushed) /\ Joinable(pushed, kind) = Joinable(room, kind)
  /\ \A i \in 1..Len(ts) :
       Extends(pushed[i], ts[i], kind, e) /\ pushed[i].waiters = ts[i].waiters
  /\ Joinable(room, kind) # {} => Holders(room, kind) # {}
  /\ Holders(room, kind) # {} =>
       \E i \in 1..Len(pushed) :
         /\ pushed[i].kind = kind /\ e \in pushed[i].batch
         /\ \A j \in Joinable(room, kind) : i <= j

LEMMA PutsIntoBatch ==
  ASSUME NEW ts \in Seq(Timers), NEW kind \in Kinds, NEW e \in Entries, Joins(ts),
         NEW room, room = WithRoom(ts, kind), NEW pushed, pushed = InBatch(room, kind, e)
  PROVE  Puts(ts, room, pushed, kind, e)
<1>0. Len(ts) \in Nat /\ \A i \in 1..Len(ts) : ts[i] \in Timers
  BY LenProperties, ElementOfSeq
<1>1. /\ room \in Seq(Timers) /\ Len(room) = Len(ts)
      /\ \A i \in 1..Len(ts) :
           \/ room[i] = ts[i]
           \/ ts[i].kind = kind /\ room[i] = Cleared(ts[i])
  BY WithRoomIs
<1>2. /\ pushed \in Seq(Timers) /\ Len(pushed) = Len(ts)
      /\ \A i \in 1..Len(ts) :
           \/ pushed[i] = room[i]
           \/ i \in Holders(room, kind) /\ pushed[i] = Filled(room[i], e)
      /\ Holders(room, kind) # {} =>
           \E i \in Holders(room, kind) :
             e \in pushed[i].batch /\ \A j \in Holders(room, kind) : i <= j
  <2>1. /\ InBatch(room, kind, e) \in Seq(Timers)
        /\ Len(InBatch(room, kind, e)) = Len(room)
        /\ \A i \in 1..Len(room) :
             \/ InBatch(room, kind, e)[i] = room[i]
             \/ /\ i \in Holders(room, kind)
                /\ InBatch(room, kind, e)[i] = Filled(room[i], e)
    BY <1>1, InBatchIs
  <2>2. Holders(room, kind) # {} =>
          \E i \in Holders(room, kind) :
            /\ e \in InBatch(room, kind, e)[i].batch
            /\ \A j \in Holders(room, kind) : i <= j
    BY <1>1, InBatchIs
  <2> QED BY <1>1, <2>1, <2>2
<1>3. DOMAIN room = 1..Len(ts) /\ DOMAIN pushed = 1..Len(ts)
  BY <1>1, <1>2
<1>4. ASSUME NEW i \in 1..Len(ts)
      PROVE  /\ room[i].kind = ts[i].kind /\ room[i].first = ts[i].first
             /\ room[i].batch = ts[i].batch /\ room[i].waiters = ts[i].waiters
             /\ room[i].joinable => ts[i].joinable /\ room[i].current = ts[i].current
             /\ ts[i].kind # kind => room[i] = ts[i]
             /\ room[i] \in Timers
  BY <1>0, <1>1, ClearedIs
<1>5. ASSUME NEW i \in 1..Len(ts)
      PROVE  /\ pushed[i].kind = room[i].kind /\ pushed[i].first = room[i].first
             /\ room[i].batch \subseteq pushed[i].batch
             /\ pushed[i].batch \subseteq room[i].batch \cup {e}
             /\ pushed[i].waiters = room[i].waiters
             /\ pushed[i].joinable = room[i].joinable /\ pushed[i].current = room[i].current
             /\ room[i].kind # kind => pushed[i] = room[i]
  <2>1. CASE pushed[i] = room[i]
    BY <2>1
  <2>2. CASE i \in Holders(room, kind) /\ pushed[i] = Filled(room[i], e)
    <3>1. room[i].kind = kind
      BY <2>2 DEF Holders
    <3> QED BY <1>4, <2>2, <3>1, FilledIs
  <2> QED BY <1>2, <2>1, <2>2
<1>6. Joins(pushed)
  BY <1>2, <1>4, <1>5 DEF Joins
<1>7. Joinable(pushed, kind) = Joinable(room, kind)
  BY <1>3, <1>5 DEF Joinable
<1>8. \A i \in 1..Len(ts) :
        Extends(pushed[i], ts[i], kind, e) /\ pushed[i].waiters = ts[i].waiters
  BY <1>4, <1>5 DEF Extends
<1>9. Joinable(room, kind) \subseteq Holders(room, kind)
  BY <1>3, <1>4 DEF Joinable, Holders, Joins
<1>10. Holders(room, kind) # {} =>
         \E i \in 1..Len(pushed) :
           /\ pushed[i].kind = kind /\ e \in pushed[i].batch
           /\ \A j \in Joinable(room, kind) : i <= j
  <2> SUFFICES ASSUME Holders(room, kind) # {}
               PROVE  \E i \in 1..Len(pushed) :
                        /\ pushed[i].kind = kind /\ e \in pushed[i].batch
                        /\ \A j \in Joinable(room, kind) : i <= j
    OBVIOUS
  <2>1. PICK i \in Holders(room, kind) :
          e \in pushed[i].batch /\ \A j \in Holders(room, kind) : i <= j
    BY <1>2
  <2>2. i \in 1..Len(pushed) /\ pushed[i].kind = kind
    BY <1>2, <1>3, <1>5 DEF Holders
  <2> QED BY <1>9, <2>1, <2>2
<1> QED BY <1>0, <1>1, <1>2, <1>6, <1>7, <1>8, <1>9, <1>10 DEF Puts

\* What the timers are once e was asked for.
Adds(ts, new, kind, e) ==
  /\ new \in Seq(Timers) /\ Joins(new)
  /\ \A i \in 1..Len(ts) : i \in 1..Len(new) /\ Extends(new[i], ts[i], kind, e)
  /\ \A i \in 1..Len(new) :
       \/ i \in 1..Len(ts)
       \/ /\ i = Len(ts) + 1 /\ new[i].kind = kind /\ new[i].first = e
          /\ new[i].waiters = Waiters(kind, e) /\ new[i].batch \subseteq {e}
  /\ \E i \in 1..Len(new) : new[i].kind = kind /\ e \in new[i].batch
  /\ \E w \in 1..Len(new) :
       /\ \A i \in 1..Len(new) :
            i # w => i \in 1..Len(ts) /\ new[i].waiters = ts[i].waiters
       /\ \E i \in 1..w : i \in 1..Len(new) /\ e \in new[i].batch

LEMMA DoBulkRequestAdds ==
  ASSUME NEW ts \in Seq(Timers), NEW kind \in Kinds, NEW e \in Entries, Joins(ts),
         NEW new, new = DoBulkRequest(ts, kind, e)
  PROVE  Adds(ts, new, kind, e)
<1> DEFINE room == WithRoom(ts, kind)
           pushed == InBatch(room, kind, e)
           joined == Joinable(room, kind)
           last == Timer(kind, e, Holders(room, kind) # {})
           f == [i \in DOMAIN pushed |->
                  IF i \in joined
                  THEN Joined(pushed[i], kind, e)
                  ELSE pushed[i]]
<1>1. new = IF joined # {} THEN f ELSE Append(pushed, last)
  BY DEF DoBulkRequest, Joined
<1>a. room = WithRoom(ts, kind) /\ pushed = InBatch(room, kind, e)
  OBVIOUS
<1>b. \E held \in BOOLEAN :
        last = Timer(kind, e, held) /\ held = (Holders(room, kind) # {})
  OBVIOUS
<1>c. joined = Joinable(room, kind)
  OBVIOUS
<1>d. f = [i \in DOMAIN pushed |->
            IF i \in joined THEN Joined(pushed[i], kind, e) ELSE pushed[i]]
  OBVIOUS
<1> HIDE DEF room, pushed, joined, last, f
<1>2. /\ room \in Seq(Timers) /\ pushed \in Seq(Timers)
      /\ Len(room) = Len(ts) /\ Len(pushed) = Len(ts) /\ Len(ts) \in Nat
      /\ Joins(pushed) /\ Joinable(pushed, kind) = joined
      /\ \A i \in 1..Len(ts) :
           Extends(pushed[i], ts[i], kind, e) /\ pushed[i].waiters = ts[i].waiters
      /\ joined # {} => Holders(room, kind) # {}
      /\ Holders(room, kind) # {} =>
           \E i \in 1..Len(pushed) :
             /\ pushed[i].kind = kind /\ e \in pushed[i].batch
             /\ \A j \in joined : i <= j
  <2>1. Puts(ts, room, pushed, kind, e)
    BY <1>a, PutsIntoBatch
  <2> QED BY <1>c, <2>1 DEF Puts
<1>3. DOMAIN pushed = 1..Len(ts) /\ \A i \in 1..Len(ts) : pushed[i] \in Timers
  BY <1>2, LenProperties, ElementOfSeq
<1>4. \A i \in 1..Len(ts) :
        f[i] = IF i \in joined
               THEN Joined(pushed[i], kind, e)
               ELSE pushed[i]
  BY <1>3, <1>d
<1>5. f = [i \in 1..Len(ts) |-> f[i]]
  BY <1>3, <1>d
<1>6. \A i \in 1..Len(ts) : i \in joined <=> pushed[i].kind = kind /\ pushed[i].joinable
  BY <1>2, <1>3 DEF Joinable
<1>7. joined \subseteq 1..Len(ts)
  BY <1>6, <1>c, <1>2 DEF Joinable
<1>8. last \in Timers /\ last.kind = kind /\ last.first = e /\ last.waiters = Waiters(kind, e)
      /\ last.batch = (IF Holders(room, kind) # {} THEN {} ELSE {e})
      /\ last.current /\ last.joinable /\ Waiters(kind, e) \subseteq {e}
  <2>1. PICK held \in BOOLEAN :
          last = Timer(kind, e, held) /\ held = (Holders(room, kind) # {})
    BY <1>b
  <2> HIDE <1>b
  <2> QED BY <2>1 DEF Timer, Timers, Waiters
<1>11. Joins(pushed) /\ Len(pushed) = Len(ts) /\ Len(ts) \in Nat
  BY <1>2
<1>9. CASE joined # {}
  <2>1. PICK w \in 1..Len(ts) : joined = {w}
    <3>1. PICK w \in joined : TRUE
      BY <1>9
    <3>2. \A i \in joined : i = w
      BY <1>2, <1>6, <1>7, <3>1 DEF Joins
    <3> QED BY <1>7, <3>1, <3>2
  <2>2. /\ \A i \in 1..Len(ts) : i # w => f[i] = pushed[i]
        /\ f[w] = Joined(pushed[w], kind, e)
    BY <1>4, <2>1
  <2>3. /\ f[w] \in Timers /\ f[w].kind = pushed[w].kind /\ f[w].first = pushed[w].first
        /\ f[w].batch = pushed[w].batch /\ f[w].joinable = pushed[w].joinable
        /\ f[w].current = pushed[w].current
        /\ f[w].waiters = pushed[w].waiters \cup Waiters(kind, e)
        /\ pushed[w].kind = kind
    <3>1. pushed[w] \in Timers /\ pushed[w].kind = kind
      BY <1>3, <1>6, <2>1
    <3> QED BY <2>2, <3>1, JoinedIs
  <2>4. f \in [1..Len(ts) -> Timers]
    BY <1>3, <1>5, <2>2, <2>3
  <2>5. f \in Seq(Timers) /\ Len(f) = Len(ts)
    BY <1>2, <2>4, FunctionIsSeq
  <2>6. Joins(f)
    <3>1. \A i \in 1..Len(ts) :
            /\ f[i].kind = pushed[i].kind
            /\ f[i].joinable = pushed[i].joinable /\ f[i].current = pushed[i].current
      BY <2>2, <2>3
    <3> QED BY <1>11, <2>5, <3>1 DEF Joins
  <2>7. \A i \in 1..Len(ts) : Extends(f[i], ts[i], kind, e)
    BY <1>2, <2>2, <2>3 DEF Extends
  <2>8. \E i \in 1..w : i \in 1..Len(f) /\ f[i].kind = kind /\ e \in f[i].batch
    <3>1. PICK i \in 1..Len(ts) :
            pushed[i].kind = kind /\ e \in pushed[i].batch /\ i <= w
      BY <1>2, <1>9, <2>1
    <3>2. f[i].kind = kind /\ e \in f[i].batch
      <4>1. CASE i = w
        BY <2>3, <3>1, <4>1
      <4>2. CASE i # w
        BY <2>2, <3>1, <4>2
      <4> QED BY <4>1, <4>2
    <3>3. i \in 1..w /\ i \in 1..Len(f)
      BY <1>2, <2>5, <3>1
    <3> QED BY <3>2, <3>3
  <2>9. \A i \in 1..Len(ts) : i # w => f[i].waiters = ts[i].waiters
    BY <1>2, <2>2
  <2>10. new = f
    BY <1>1, <1>9
  <2> QED BY <2>5, <2>6, <2>7, <2>8, <2>9, <2>10 DEF Adds
<1>10. CASE joined = {}
  <2> DEFINE g == Append(pushed, last)
  <2>1. /\ g \in Seq(Timers) /\ Len(g) = Len(ts) + 1
        /\ \A i \in 1..Len(ts) : i \in 1..Len(g) /\ g[i] = pushed[i]
        /\ Len(ts) + 1 \in 1..Len(g) /\ g[Len(ts) + 1] = last
        /\ \A i \in 1..Len(g) : i \in 1..Len(ts) \/ i = Len(ts) + 1
    BY <1>2, <1>8, AppendIs
  <2> HIDE DEF g
  <2>2. \A i \in 1..Len(ts) : ~(pushed[i].kind = kind /\ pushed[i].joinable)
    BY <1>6, <1>10
  <2>3. Joins(g)
    BY <1>8, <1>11, <2>1, <2>2 DEF Joins
  <2>4. \E i \in 1..Len(g) : g[i].kind = kind /\ e \in g[i].batch
    <3>1. CASE Holders(room, kind) = {}
      BY <1>8, <2>1, <3>1
    <3>2. CASE Holders(room, kind) # {}
      <4>1. PICK i \in 1..Len(ts) : pushed[i].kind = kind /\ e \in pushed[i].batch
        BY <1>2, <3>2
      <4> QED BY <2>1, <4>1
    <3> QED BY <3>1, <3>2
  <2>5. \A i \in 1..Len(ts) : g[i].waiters = ts[i].waiters
    BY <1>2, <2>1
  <2>6. new = g
    BY <1>1, <1>10 DEF g
  <2>7. \A i \in 1..Len(ts) : Extends(g[i], ts[i], kind, e)
    BY <1>2, <2>1
  <2>8. /\ g[Len(ts) + 1].kind = kind /\ g[Len(ts) + 1].first = e
        /\ g[Len(ts) + 1].waiters = Waiters(kind, e) /\ g[Len(ts) + 1].batch \subseteq {e}
    BY <1>8, <2>1
  <2>9. \A i \in 1..Len(g) : i # Len(ts) + 1 =>
          i \in 1..Len(ts) /\ g[i].waiters = ts[i].waiters
    BY <2>1, <2>5
  <2>10. \E i \in 1..(Len(ts) + 1) : i \in 1..Len(g) /\ e \in g[i].batch
    BY <2>1, <2>4
  <2> QED BY <2>1, <2>3, <2>4, <2>6, <2>7, <2>8, <2>9, <2>10 DEF Adds
<1> QED BY <1>9, <1>10

\* What the timers are once one of this kind has fired.
Clears(ts, new, kind) ==
  /\ new \in Seq(Timers) /\ Len(new) = Len(ts) /\ Len(ts) \in Nat
  /\ \A i \in 1..Len(ts) :
       /\ new[i].kind = ts[i].kind /\ new[i].first = ts[i].first
       /\ new[i].waiters = ts[i].waiters /\ new[i].batch = ts[i].batch
       /\ new[i].current = ts[i].current
       /\ new[i].joinable <=> ts[i].joinable /\ ts[i].kind # kind

LEMMA ClearsResponseClears ==
  ASSUME NEW ts \in Seq(Timers), NEW kind, NEW new, new = ClearsResponse(ts, kind)
  PROVE  Clears(ts, new, kind)
<1>1. DOMAIN ts = 1..Len(ts) /\ Len(ts) \in Nat /\ \A i \in 1..Len(ts) : ts[i] \in Timers
  BY LenProperties, ElementOfSeq
<1>2. new = [i \in 1..Len(ts) |-> [ts[i] EXCEPT !.joinable = @ /\ ts[i].kind # kind]]
  BY <1>1 DEF ClearsResponse
<1>3. ASSUME NEW i \in 1..Len(ts)
      PROVE  /\ new[i] \in Timers
             /\ new[i].kind = ts[i].kind /\ new[i].first = ts[i].first
             /\ new[i].waiters = ts[i].waiters /\ new[i].batch = ts[i].batch
             /\ new[i].current = ts[i].current
             /\ new[i].joinable <=> ts[i].joinable /\ ts[i].kind # kind
  <2>1. new[i] = [ts[i] EXCEPT !.joinable = @ /\ ts[i].kind # kind] /\ ts[i] \in Timers
    BY <1>1, <1>2
  <2> QED BY <2>1 DEF Timers
<1>4. new \in [1..Len(ts) -> Timers]
  BY <1>2, <1>3
<1>5. new \in Seq(Timers) /\ Len(new) = Len(ts)
  BY <1>1, <1>4, FunctionIsSeq
<1> QED BY <1>1, <1>3, <1>5 DEF Clears

-----------------------------------------------------------------------------
(* Type correctness.                                                        *)

Base == Types /\ Joins(timers)

LEMMA LatestType ==
  ASSUME Types, NEW t \in Streams
  PROVE  Latest(t) \in Entries
  BY DEF Types, Latest, Entries

LEMMA CloseTrackIs ==
  ASSUME Base, NEW e \in Entries, CloseTrack(e)
  PROVE  /\ timers' \in Seq(Timers) /\ Joins(timers')
         /\ abandoned' \subseteq Entries /\ abandoned \subseteq abandoned'
         /\ abandoned' \subseteq abandoned \cup {e}
         /\ timers' = timers \/ timers' = DoBulkRequest(timers, "close", e)
<1>1. "close" \in Kinds /\ timers \in Seq(Timers) /\ Joins(timers) /\ abandoned \subseteq Entries
  BY DEF Kinds, Base, Types
<1>2. CASE timers' = DoBulkRequest(timers, "close", e)
  <2>1. Adds(timers, timers', "close", e)
    BY <1>1, <1>2, DoBulkRequestAdds
  <2> QED BY <1>1, <1>2, <2>1 DEF CloseTrack, Adds
<1>3. CASE timers' = timers
  BY <1>1, <1>3 DEF CloseTrack
<1> QED BY <1>2, <1>3 DEF CloseTrack

LEMMA TimerFiresBase ==
  ASSUME Base, TimerFires
  PROVE  /\ timers \in Seq(Timers) /\ timers # <<>> /\ Tail(timers) \in Seq(Timers)
         /\ timers' \in Seq(Timers) /\ Joins(timers') /\ tasks' \in Seq(Tasks)
         /\ Len(timers') = Len(timers) - 1 /\ Len(timers) \in Nat
         /\ 1 \in 1..Len(timers) /\ timers[1] \in Timers
         /\ \A i \in 1..Len(timers') :
              /\ i + 1 \in 1..Len(timers) /\ timers'[i].kind = timers[i + 1].kind
              /\ timers'[i].first = timers[i + 1].first
              /\ timers'[i].waiters = timers[i + 1].waiters
              /\ timers'[i].batch = timers[i + 1].batch
              /\ timers'[i].current = timers[i + 1].current
              /\ timers'[i].joinable <=>
                   timers[i + 1].joinable /\ timers[i + 1].kind # timers[1].kind
         /\ \E k \in Tasks :
              /\ tasks' = Append(tasks, k)
              /\ k.kind = timers[1].kind /\ k.first = timers[1].first
              /\ k.waiters = timers[1].waiters /\ k.carried = timers[1].batch
              /\ k.split = (k.kind \in split)
              /\ k.early = k.waiters \ (sent \cup k.carried)
         /\ sent' = (sent \cup timers[1].batch) \cap
                    UNION {timers'[i].waiters : i \in 1..Len(timers')}
         /\ \A kind \in Kinds \ split' :
              \/ kind \notin split
              \/ \A i \in 1..Len(timers') : timers'[i].kind # kind
         /\ sent' \subseteq Entries /\ split' \subseteq Kinds
<1> DEFINE rest == Tail(timers)
           t == Head(timers)
           k == [kind |-> t.kind, first |-> t.first, waiters |-> t.waiters,
                 carried |-> t.batch, split |-> t.kind \in split,
                 early |-> t.waiters \ (sent \cup t.batch)]
<1>1. timers \in Seq(Timers) /\ timers # <<>> /\ tasks \in Seq(Tasks) /\ Joins(timers)
  BY DEF TimerFires, Base, Types
<1>2. /\ Len(timers) \in Nat /\ Len(rest) = Len(timers) - 1 /\ rest \in Seq(Timers)
      /\ 1 \in 1..Len(timers) /\ t = timers[1] /\ timers[1] \in Timers
      /\ \A i \in 1..Len(rest) : i + 1 \in 1..Len(timers) /\ rest[i] = timers[i + 1]
  BY <1>1, TailIs
<1>3. timers' = ClearsResponse(rest, t.kind) /\ tasks' = Append(tasks, k)
  BY DEF TimerFires
<1>4. /\ k \in Tasks /\ k.kind = timers[1].kind /\ k.first = timers[1].first
      /\ k.waiters = timers[1].waiters /\ k.carried = timers[1].batch
      /\ k.split = (k.kind \in split)
      /\ k.early = k.waiters \ (sent \cup k.carried)
  BY <1>2 DEF Tasks, Timers
<1>9. /\ sent' = (sent \cup t.batch) \cap UNION {timers'[i].waiters : i \in DOMAIN timers'}
      /\ split' = split \ {x \in {t.kind} : \A i \in DOMAIN timers' : timers'[i].kind # x}
  BY DEF TimerFires
<1> HIDE DEF rest, k
<1>5. /\ timers' \in Seq(Timers) /\ Len(timers') = Len(rest)
      /\ \A i \in 1..Len(rest) :
           /\ timers'[i].kind = rest[i].kind /\ timers'[i].first = rest[i].first
           /\ timers'[i].waiters = rest[i].waiters /\ timers'[i].batch = rest[i].batch
           /\ timers'[i].current = rest[i].current
           /\ timers'[i].joinable <=> rest[i].joinable /\ rest[i].kind # t.kind
  <2>1. Clears(rest, timers', t.kind)
    BY <1>2, <1>3, ClearsResponseClears
  <2> QED BY <2>1 DEF Clears
<1>6. tasks' \in Seq(Tasks)
  BY <1>1, <1>3, <1>4, AppendIs
<1>7. ASSUME NEW i \in 1..Len(timers')
      PROVE  /\ i + 1 \in 1..Len(timers) /\ timers'[i].kind = timers[i + 1].kind
             /\ timers'[i].first = timers[i + 1].first
             /\ timers'[i].waiters = timers[i + 1].waiters
             /\ timers'[i].batch = timers[i + 1].batch
             /\ timers'[i].current = timers[i + 1].current
             /\ timers'[i].joinable <=>
                  timers[i + 1].joinable /\ timers[i + 1].kind # timers[1].kind
  <2>1. i \in 1..Len(rest)
    BY <1>5
  <2>2. i + 1 \in 1..Len(timers) /\ rest[i] = timers[i + 1] /\ t.kind = timers[1].kind
    BY <1>2, <2>1
  <2> QED BY <1>5, <2>1, <2>2
<1>8. Joins(timers')
  <2>1. \A i \in 1..Len(timers') : timers'[i].joinable => timers'[i].current
    BY <1>1, <1>7 DEF Joins
  <2>2. ASSUME NEW i \in 1..Len(timers'), NEW j \in 1..Len(timers'),
               timers'[i].joinable, timers'[j].joinable, timers'[i].kind = timers'[j].kind
        PROVE  i = j
    <3>1. i + 1 = j + 1
      BY <1>1, <1>7, <2>2 DEF Joins
    <3> QED BY <3>1
  <2> QED BY <2>1, <2>2 DEF Joins
<1>10. /\ sent' = (sent \cup timers[1].batch) \cap
                   UNION {timers'[i].waiters : i \in 1..Len(timers')}
       /\ sent' \subseteq Entries /\ split' \subseteq Kinds
       /\ \A kind \in Kinds \ split' :
            \/ kind \notin split
            \/ \A i \in 1..Len(timers') : timers'[i].kind # kind
  <2>1. DOMAIN timers' = 1..Len(timers') /\ t = timers[1]
    BY <1>2, <1>5
  <2>2. timers[1].batch \subseteq Entries /\ sent \subseteq Entries /\ split \subseteq Kinds
    BY <1>2 DEF Timers, Base, Types
  <2> QED BY <1>9, <2>1, <2>2
<1>11. \E x \in Tasks :
         /\ tasks' = Append(tasks, x)
         /\ x.kind = timers[1].kind /\ x.first = timers[1].first
         /\ x.waiters = timers[1].waiters /\ x.carried = timers[1].batch
         /\ x.split = (x.kind \in split)
         /\ x.early = x.waiters \ (sent \cup x.carried)
  BY <1>3, <1>4
<1> QED BY <1>1, <1>2, <1>5, <1>6, <1>7, <1>8, <1>10, <1>11 DEF rest

\* tracks/new was answered, with or without an errorCode.
Lists(k, listed, served) ==
  /\ ~Gone(k) /\ listed \subseteq k.carried /\ served \subseteq listed
  /\ Listed(k, listed, served)
  /\ \/ pc' = (IF pc = "new" THEN "connecting" ELSE pc)
     \/ pc' = pc /\ served = {}

LEMMA RunsIs ==
  ASSUME NEW kind, Runs(kind)
  PROVE  \/ Refused(Head(tasks))
         \/ \E listed, served : Lists(Head(tasks), listed, served)
         \/ ~Gone(Head(tasks)) /\ Unsettled(Head(tasks))
<1> DEFINE k == Head(tasks)
<1>1. CASE ~Gone(k) /\ Completes(k)
  <2>1. PICK listed \in SUBSET k.carried, served \in SUBSET k.carried :
          served \subseteq listed /\ Listed(k, listed, served)
    BY <1>1 DEF Completes
  <2>2. Lists(k, listed, served)
    BY <1>1, <2>1 DEF Completes, Lists
  <2> QED BY <2>2
<1>2. CASE ~Gone(k) /\ CompletesWithError(k)
  <2>1. PICK listed \in SUBSET k.carried : Listed(k, listed, {})
    BY <1>2 DEF CompletesWithError
  <2>2. Lists(k, listed, {})
    BY <1>2, <2>1 DEF CompletesWithError, Lists
  <2> QED BY <2>2
<1> QED BY <1>1, <1>2 DEF Runs

LEMMA RunsBase ==
  ASSUME Base, NEW kind \in {"push", "pull"}, Runs(kind)
  PROVE  /\ tasks \in Seq(Tasks) /\ tasks # <<>> /\ Head(tasks) \in Tasks
         /\ Head(tasks).kind = kind
         /\ Types' /\ timers' = timers
<1>1. /\ tasks \in Seq(Tasks) /\ tasks # <<>> /\ Head(tasks) \in Tasks /\ Tail(tasks) \in Seq(Tasks)
      /\ Head(tasks).kind = kind
  BY TailIs DEF Runs, Base, Types
<1> DEFINE k == Head(tasks)
<1>2. k.carried \subseteq Entries /\ k.waiters \subseteq Entries /\ k.kind \in {"push", "pull"}
  BY <1>1 DEF Tasks
<1>3. ASSUME NEW served, NEW otherwise \in {"missing", "rejected"}, Tell(k, served, otherwise)
      PROVE  answers' \subseteq Answers
  BY <1>2, <1>3 DEF Tell, Answers
<1>4. /\ tasks' = Tail(tasks) /\ UNCHANGED <<session, streamVars, timers, stopped, batchVars>>
      /\ Refused(k) \/ (\E listed, served : Lists(k, listed, served)) \/ Unsettled(k)
  BY RunsIs DEF Runs
<1> HIDE DEF k
<1>5. answers' \subseteq Answers /\ sfu' \subseteq Entries /\ abandoned' \subseteq Entries
      /\ refused' \subseteq Entries
      /\ faults' \in Nat /\ pc' \in Usable \cup {"none", "closed"}
  <2>1. CASE Refused(k)
    BY <1>3, <2>1 DEF Refused, Base, Types
  <2>2. ASSUME NEW listed, NEW served, Lists(k, listed, served)
        PROVE  /\ answers' \subseteq Answers /\ sfu' \subseteq Entries
               /\ abandoned' \subseteq Entries /\ refused' \subseteq Entries
               /\ faults' \in Nat /\ pc' \in Usable \cup {"none", "closed"}
    <3>1. Tell(k, listed, "missing") /\ served \subseteq Entries /\ listed \subseteq Entries
      BY <1>2, <2>2 DEF Lists, Listed
    <3> QED BY <1>3, <2>2, <3>1 DEF Lists, Listed, Base, Types, Usable
  <2>3. CASE Unsettled(k)
    BY <1>2, <1>3, <2>3 DEF Unsettled, Base, Types
  <2> QED BY <1>4, <2>1, <2>2, <2>3
<1> QED BY <1>1, <1>4, <1>5 DEF Base, Types, streamVars, batchVars, k

LEMMA CloseRunsBase ==
  ASSUME Base, CloseRuns
  PROVE  /\ tasks \in Seq(Tasks) /\ tasks # <<>> /\ Head(tasks) \in Tasks
         /\ Types' /\ timers' = timers
<1>1. /\ tasks \in Seq(Tasks) /\ tasks # <<>> /\ Head(tasks) \in Tasks /\ Tail(tasks) \in Seq(Tasks)
  BY TailIs DEF CloseRuns, Base, Types
<1>2. Head(tasks).first \in Entries /\ Head(tasks).carried \subseteq Entries
  BY <1>1 DEF Tasks
<1> QED BY <1>1, <1>2 DEF CloseRuns, Base, Types, streamVars, sfuVars, batchVars

\* A request for the latest entry of a stream.
LEMMA AsksIs ==
  ASSUME Base, NEW t \in Streams, Asks(t)
  PROVE  /\ Adds(timers, timers', Kind(t), Latest(t)) /\ Latest(t) \in Entries
         /\ Kind(t) \in {"push", "pull"}
         /\ split \subseteq split' /\ split' \subseteq split \cup {Kind(t)}
<1>1. timers' = DoBulkRequest(timers, Kind(t), Latest(t))
  BY DEF Asks, Kind
<1>2. Kind(t) \in Kinds /\ Kind(t) \in {"push", "pull"} /\ timers \in Seq(Timers)
  BY DEF Kind, Kinds, Base, Types
<1>3. split \subseteq split' /\ split' \subseteq split \cup {Kind(t)}
  BY DEF Asks
<1> QED BY <1>1, <1>2, <1>3, LatestType, DoBulkRequestAdds DEF Base

LEMMA AnsweredBase ==
  ASSUME Base, NEW a \in answers, Answered(a)
  PROVE  Base'
<1> DEFINE e == a.entry
<1>1. e \in Entries /\ e.stream \in Streams
  BY DEF Base, Types, Answers, Entries
<1>2. /\ answers' \subseteq Answers
      /\ UNCHANGED <<session, pc, n, tasks, sfu, stopped, refused, sent, split>>
  BY DEF Answered, Base, Types, batchVars
<1>3. CASE Waits(e)
  <2>1. /\ timers' = timers /\ abandoned' \subseteq Entries /\ faults' \in Nat
        /\ \E p \in Phases : phase' = [phase EXCEPT ![e.stream] = p]
    BY <1>1, <1>3
       DEF Answered, TrackNeverComes, AfterFound, AfterRejection, Phases, Base, Types
  <2> QED BY <1>2, <2>1 DEF Base, Types
<1>4. CASE ~Waits(e)
  <2>1. /\ UNCHANGED <<phase, faults>>
        /\ CloseTrack(e) \/ UNCHANGED <<timers, abandoned>>
    BY <1>4 DEF Answered, StaleFound
  <2>2. timers' \in Seq(Timers) /\ Joins(timers') /\ abandoned' \subseteq Entries
    BY <1>1, <2>1, CloseTrackIs DEF Base, Types
  <2> QED BY <1>2, <2>1, <2>2 DEF Base, Types
<1> QED BY <1>3, <1>4

LEMMA StartsIs ==
  ASSUME Types, NEW t \in Streams, Starts(t)
  PROVE  /\ phase' \in [Streams -> Phases] /\ n' \in [Streams -> Nat]
         /\ \A u \in Streams \ {t} : phase'[u] = phase[u] /\ n'[u] = n[u]
         /\ \/ pc = "none" /\ phase'[t] = "idle" /\ n'[t] = n[t]
            \/ pc # "none" /\ phase'[t] = "due" /\ n'[t] = n[t] + 1
<1>1. phase \in [Streams -> Phases] /\ n \in [Streams -> Nat] /\ n[t] + 1 \in Nat
  BY DEF Types
<1>2. CASE pc = "none"
  BY <1>1, <1>2 DEF Starts, Phases
<1>3. CASE pc # "none"
  BY <1>1, <1>3 DEF Starts, Phases
<1> QED BY <1>2, <1>3

LEMMA UnsubscribeIs ==
  ASSUME Base, NEW t \in Streams, Unsubscribe(t)
  PROVE  /\ Base' /\ phase' = [phase EXCEPT ![t] = "off"]
         /\ UNCHANGED <<session, n, tasks, answers, split>>
         /\ \/ /\ UNCHANGED <<timers, abandoned, pc, sfu, stopped, refused>>
               /\ phase[t] \notin {"sending", "live"}
            \/ /\ CloseTrack(Latest(t)) /\ UNCHANGED <<pc, sfu, stopped, refused>>
               /\ phase[t] \in {"sending", "live"}
            \/ /\ timers' = timers /\ pc' = "none"
               /\ sfu' = {} /\ stopped' = {} /\ abandoned' = {} /\ refused' = {}
<1>1. /\ phase' = [phase EXCEPT ![t] = "off"]
      /\ UNCHANGED <<session, n, tasks, answers, faults, sent, split>>
      /\ \/ /\ UNCHANGED <<timers, abandoned, pc, sfu, stopped, refused>>
            /\ phase[t] \notin {"sending", "live"}
         \/ /\ CloseTrack(Latest(t)) /\ UNCHANGED <<pc, sfu, stopped, refused>>
            /\ phase[t] \in {"sending", "live"}
         \/ /\ timers' = timers /\ pc' = "none"
            /\ sfu' = {} /\ stopped' = {} /\ abandoned' = {} /\ refused' = {}
  BY DEF Unsubscribe, batchVars
<1>2. timers' \in Seq(Timers) /\ Joins(timers') /\ abandoned' \subseteq Entries
  BY <1>1, LatestType, CloseTrackIs DEF Base, Types
<1>3. phase' \in [Streams -> Phases]
  BY <1>1 DEF Base, Types, Phases
<1> QED BY <1>1, <1>2, <1>3 DEF Base, Types

LEMMA BaseStep ==
  ASSUME Base, [Next]_vars
  PROVE  Base'
<1>1. ASSUME NEW t \in Streams, Push(t) \/ Pull(t)
      PROVE  Base'
  <2>1. /\ UNCHANGED <<session, pc, requestVars, sfuVars, batchVars, faults>>
        /\ Starts(t) \/ (phase' = [phase EXCEPT ![t] = "errored"] /\ n' = n)
    BY <1>1 DEF Push, Pull
  <2>2. phase' \in [Streams -> Phases] /\ n' \in [Streams -> Nat]
    BY <2>1, StartsIs DEF Base, Types, Phases
  <2> QED BY <2>1, <2>2 DEF Base, Types, requestVars, sfuVars, batchVars
<1>2. ASSUME NEW t \in Streams, Unsubscribe(t)
      PROVE  Base'
  BY <1>2, UnsubscribeIs
<1>3. ASSUME NEW t \in Streams, Retries(t) \/ DataSent(t)
      PROVE  Base'
  <2>1. phase' \in [Streams -> Phases] /\ n' \in [Streams -> Nat]
    <3>1. /\ \E p \in {"due", "live"} : phase' = [phase EXCEPT ![t] = p]
          /\ n' = n \/ n' = [n EXCEPT ![t] = @ + 1]
      BY <1>3 DEF Retries, DataSent
    <3>2. phase \in [Streams -> Phases] /\ n \in [Streams -> Nat]
      BY DEF Base, Types
    <3> QED BY <3>1, <3>2 DEF Phases
  <2> QED BY <1>3, <2>1 DEF Retries, DataSent, Base, Types, requestVars, sfuVars, batchVars
<1>4. ASSUME NEW t \in Streams, Asks(t)
      PROVE  Base'
  <2>1. timers' \in Seq(Timers) /\ Joins(timers')
    BY <1>4, AsksIs DEF Adds
  <2>2. phase' \in [Streams -> Phases]
    BY <1>4 DEF Asks, Base, Types, Phases
  <2>3. split' \subseteq Kinds
    BY <1>4, AsksIs DEF Base, Types, Kinds
  <2> QED BY <1>4, <2>1, <2>2, <2>3 DEF Asks, Base, Types, sfuVars
<1>5. ASSUME NEW a \in answers, Answered(a)
      PROVE  Base'
  BY <1>5, AnsweredBase
<1>6. CASE TimerFires
  BY <1>6, TimerFiresBase DEF TimerFires, Base, Types, streamVars, sfuVars
<1>7. CASE PushRuns \/ PullRuns
  BY <1>7, RunsBase DEF PushRuns, PullRuns, Base
<1>8. CASE CloseRuns
  BY <1>8, CloseRunsBase DEF Base
<1>9. CASE NewSession
  <2>1. /\ session' \in Nat /\ pc' \in Usable
        /\ phase' \in [Streams -> Phases] /\ n' \in [Streams -> Nat]
        /\ UNCHANGED <<requestVars, sfuVars, batchVars, faults>>
    BY <1>9 DEF NewSession, Base, Types, Usable, Phases
  <2> QED BY <2>1 DEF Base, Types, requestVars, sfuVars, batchVars
<1>10. CASE PcConnects \/ PcDisconnects \/ SessionLost
  BY <1>10 DEF PcConnects, PcDisconnects, SessionLost, Base, Types, Usable,
               streamVars, requestVars, sfuVars, batchVars
<1>11. CASE UNCHANGED vars
  BY <1>11 DEF vars, Base, Types, streamVars, requestVars, sfuVars, batchVars
<1> QED BY <1>1, <1>2, <1>3, <1>4, <1>5, <1>6, <1>7, <1>8, <1>9, <1>10, <1>11
        DEF Next, Turn, Streams

LEMMA InitBase == Init => Base
  BY EmptySeq DEF Init, Base, Types, Joins, Usable, Phases

(* Type correctness. *)
THEOREM TypeCorrect == Spec => []TypeOK
<1>1. Base /\ bounds \in Bounds => TypeOK
  BY DEF Base, TypeOK
<1>2. Base /\ bounds \in Bounds /\ [Next]_vars => Base' /\ (bounds \in Bounds)'
  BY BaseStep DEF Next, vars
<1>3. Init => bounds \in Bounds
  BY DEF Init
<1> QED BY <1>1, <1>2, <1>3, InitBase, PTL DEF Spec

-----------------------------------------------------------------------------
(* Entries only age: what a stream has given up stays given up.             *)

Made(e) == e.n <= n[e.stream] /\ e.session <= session

GivenUp(e) ==
  e # Latest(e.stream) \/ phase[e.stream] \in {"off", "idle", "errored"}

\* Somebody may still be told about it.
MayWait(e) == phase[e.stream] = "asked" \/ GivenUp(e)

\* What a step does to a stream.
Moves(t) ==
  \/ /\ n'[t] = n[t] /\ session' = session
     /\ \/ phase'[t] = phase[t]
        \/ phase'[t] \in {"off", "idle", "errored"}
        \/ phase[t] = "retrying" /\ phase'[t] = "due"
        \/ phase[t] = "due" /\ phase'[t] = "asked"
        \/ phase[t] = "sending" /\ phase'[t] = "live"
        \/ phase[t] = "asked" /\ \E a \in answers : Answered(a) /\ a.entry = Latest(t)
  \/ n'[t] = n[t] + 1 /\ session' = session /\ phase'[t] = "due"
  \/ /\ session' = session + 1
     /\ \/ n'[t] = n[t] + 1 /\ phase'[t] = "due"
        \/ n'[t] = n[t] /\ phase'[t] = phase[t] /\ ~On(t)

LEMMA StreamMoves ==
  ASSUME Base, [Next]_vars, NEW u \in Streams
  PROVE  Moves(u)
<1> USE DEF Moves
<1>0. phase \in [Streams -> Phases] /\ n \in [Streams -> Nat]
  BY DEF Base, Types
<1>1. ASSUME NEW t \in Streams, Push(t) \/ Pull(t)
      PROVE  Moves(u)
  <2>1. /\ session' = session
        /\ Starts(t) \/ (phase' = [phase EXCEPT ![t] = "errored"] /\ n' = n)
    BY <1>1 DEF Push, Pull
  <2>2. CASE Starts(t)
    BY <2>1, <2>2, StartsIs DEF Base
  <2>3. CASE phase' = [phase EXCEPT ![t] = "errored"] /\ n' = n
    BY <1>0, <2>1, <2>3
  <2> QED BY <2>1, <2>2, <2>3
<1>2. ASSUME NEW t \in Streams, Unsubscribe(t)
      PROVE  Moves(u)
  BY <1>0, <1>2, UnsubscribeIs
<1>3. ASSUME NEW t \in Streams, Retries(t)
      PROVE  Moves(u)
  BY <1>0, <1>3 DEF Retries
<1>4. ASSUME NEW t \in Streams, DataSent(t) \/ Asks(t)
      PROVE  Moves(u)
  BY <1>0, <1>4 DEF DataSent, Asks
<1>5. ASSUME NEW a \in answers, Answered(a)
      PROVE  Moves(u)
  <2>1. session' = session /\ n' = n
    BY <1>5 DEF Answered
  <2>2. \/ phase' = phase
        \/ /\ Waits(a.entry)
           /\ \E p \in Phases : phase' = [phase EXCEPT ![a.entry.stream] = p]
    BY <1>5 DEF Answered, TrackNeverComes, AfterFound, AfterRejection, Phases
  <2>3. CASE u # a.entry.stream
    BY <1>0, <2>1, <2>2, <2>3
  <2>4. CASE u = a.entry.stream
    BY <1>5, <2>1, <2>2, <2>4 DEF Waits
  <2> QED BY <2>3, <2>4
<1>6. CASE TimerFires \/ PushRuns \/ PullRuns \/ CloseRuns
  BY <1>6 DEF TimerFires, PushRuns, PullRuns, Runs, CloseRuns, streamVars
<1>7. CASE NewSession
  BY <1>7 DEF NewSession
<1>8. CASE PcConnects \/ PcDisconnects \/ SessionLost \/ UNCHANGED vars
  BY <1>8 DEF PcConnects, PcDisconnects, SessionLost, vars, streamVars
<1> QED BY <1>1, <1>2, <1>3, <1>4, <1>5, <1>6, <1>7, <1>8 DEF Next, Turn, Streams

LEMMA MadeStays ==
  ASSUME Base, [Next]_vars, NEW e \in Entries, Made(e)
  PROVE  Made(e)'
<1>1. e.stream \in Streams /\ e.n \in Nat /\ e.session \in Nat /\ session \in Nat /\ n[e.stream] \in Nat
  BY DEF Entries, Base, Types
<1>2. Moves(e.stream)
  BY <1>1, StreamMoves
<1> QED BY <1>1, <1>2 DEF Moves, Made

LEMMA LatestIs ==
  ASSUME NEW e \in Entries, NEW m \in Nat, NEW s \in Nat
  PROVE  e = [stream |-> e.stream, n |-> m, session |-> s] <=> e.n = m /\ e.session = s
  BY DEF Entries

LEMMA GivenUpIs ==
  ASSUME Types, NEW e \in Entries
  PROVE  GivenUp(e) <=> \/ e.n # n[e.stream] \/ e.session # session
                        \/ phase[e.stream] \in {"off", "idle", "errored"}
<1>1. e.stream \in Streams /\ n[e.stream] \in Nat /\ session \in Nat
  BY DEF Entries, Types
<1> QED BY <1>1, LatestIs DEF GivenUp, Latest

LEMMA GivenUpIsNext ==
  ASSUME Types', NEW e \in Entries
  PROVE  GivenUp(e)' <=> \/ e.n # n'[e.stream] \/ e.session # session'
                         \/ phase'[e.stream] \in {"off", "idle", "errored"}
<1>1. e.stream \in Streams /\ n'[e.stream] \in Nat /\ session' \in Nat
  BY DEF Entries, Types
<1> QED BY <1>1, LatestIs DEF GivenUp, Latest

LEMMA GivenUpStays ==
  ASSUME Base, [Next]_vars, NEW e \in Entries, Made(e), GivenUp(e)
  PROVE  GivenUp(e)'
<1>1. /\ e.stream \in Streams /\ e.n \in Nat /\ e.session \in Nat
      /\ session \in Nat /\ n[e.stream] \in Nat
  BY DEF Entries, Base, Types
<1>2. Moves(e.stream)
  BY <1>1, StreamMoves
<1>3. GivenUp(e) <=> \/ e.n # n[e.stream] \/ e.session # session
                     \/ phase[e.stream] \in {"off", "idle", "errored"}
  BY GivenUpIs DEF Base
<1>4. GivenUp(e)' <=> \/ e.n # n'[e.stream] \/ e.session # session'
                      \/ phase'[e.stream] \in {"off", "idle", "errored"}
  BY BaseStep, GivenUpIsNext DEF Base
<1>5. e = Latest(e.stream) => e.n = n[e.stream] /\ e.session = session
  BY DEF Latest
<1> QED BY <1>1, <1>2, <1>3, <1>4, <1>5 DEF Moves, Made

LEMMA MayWaitStays ==
  ASSUME Base, [Next]_vars, NEW e \in Entries, Made(e), MayWait(e),
         \A a \in answers : Answered(a) => a.entry # e
  PROVE  MayWait(e)'
<1>1. CASE GivenUp(e)
  BY <1>1, GivenUpStays DEF MayWait
<1>2. CASE phase[e.stream] = "asked" /\ e = Latest(e.stream)
  <2>1. /\ e.stream \in Streams /\ e.n = n[e.stream] /\ e.session = session
        /\ session \in Nat /\ n[e.stream] \in Nat
    BY <1>2 DEF Latest, Entries, Base, Types
  <2>2. Moves(e.stream)
    BY <2>1, StreamMoves
  <2>3. GivenUp(e)' <=> \/ e.n # n'[e.stream] \/ e.session # session'
                        \/ phase'[e.stream] \in {"off", "idle", "errored"}
    BY BaseStep, GivenUpIsNext DEF Base
  <2> QED BY <1>2, <2>1, <2>2, <2>3 DEF Moves, MayWait
<1> QED BY <1>1, <1>2 DEF MayWait, GivenUp

-----------------------------------------------------------------------------
(* What is asked, in a batch, on its way or answered.                       *)

TimerSet == {timers[i] : i \in 1..Len(timers)}
TaskSet == {tasks[i] : i \in 1..Len(tasks)}

Fine(kind, first, waiters, carried) ==
  /\ Made(first) /\ \A e \in carried : Made(e)
  /\ \A e \in waiters : Made(e) /\ MayWait(e)
  /\ kind = "close" =>
       waiters = {} /\ GivenUp(first) /\ \A e \in carried : GivenUp(e)

\* Whoever waits may be told, and what is to be closed was given up.
Asked ==
  /\ \A x \in TimerSet : Fine(x.kind, x.first, x.waiters, x.batch)
  /\ \A k \in TaskSet : Fine(k.kind, k.first, k.waiters, k.carried)
  /\ \A a \in answers : Made(a.entry) /\ MayWait(a.entry)
  /\ \A e \in sfu \cup stopped \cup abandoned : Made(e)
  /\ \A e \in stopped : GivenUp(e)

\* Nobody waits twice for the same entry.
Once ==
  /\ \A i, j \in 1..Len(timers) : i # j =>
       timers[i].waiters \cap timers[j].waiters = {}
  /\ \A i, j \in 1..Len(tasks) : i # j =>
       tasks[i].waiters \cap tasks[j].waiters = {}
  /\ \A x \in TimerSet, k \in TaskSet : x.waiters \cap k.waiters = {}
  /\ \A a \in answers :
       /\ \A x \in TimerSet : a.entry \notin x.waiters
       /\ \A k \in TaskSet : a.entry \notin k.waiters
  /\ \A a, b \in answers : a.entry = b.entry => a = b

LEMMA SetTypes ==
  ASSUME Types
  PROVE  /\ TimerSet \subseteq Timers /\ TaskSet \subseteq Tasks
         /\ \A x \in TimerSet : /\ x.kind \in Kinds /\ x.first \in Entries
                                /\ x.waiters \subseteq Entries /\ x.batch \subseteq Entries
         /\ \A k \in TaskSet : /\ k.kind \in Kinds /\ k.first \in Entries
                               /\ k.waiters \subseteq Entries /\ k.carried \subseteq Entries
         /\ \A a \in answers : a.entry \in Entries
         /\ sfu \cup stopped \cup abandoned \subseteq Entries
<1>1. TimerSet \subseteq Timers /\ TaskSet \subseteq Tasks
  BY ElementOfSeq DEF Types, TimerSet, TaskSet
<1>2. /\ \A x \in TimerSet : /\ x.kind \in Kinds /\ x.first \in Entries
                             /\ x.waiters \subseteq Entries /\ x.batch \subseteq Entries
      /\ \A k \in TaskSet : /\ k.kind \in Kinds /\ k.first \in Entries
                            /\ k.waiters \subseteq Entries /\ k.carried \subseteq Entries
  BY <1>1 DEF Timers, Tasks
<1>3. \A a \in answers : a.entry \in Entries
  BY DEF Types, Answers
<1> QED BY <1>1, <1>2, <1>3 DEF Types

LEMMA FineStays ==
  ASSUME Base, [Next]_vars, NEW kind, NEW first \in Entries, NEW waiters, NEW carried,
         waiters \subseteq Entries, carried \subseteq Entries,
         Fine(kind, first, waiters, carried),
         \A e \in waiters, a \in answers : Answered(a) => a.entry # e
  PROVE  Fine(kind, first, waiters, carried)'
<1>1. Made(first)'
  BY MadeStays DEF Fine
<1>2. ASSUME NEW e \in carried
      PROVE  Made(e)'
  BY MadeStays DEF Fine
<1>3. ASSUME NEW e \in waiters
      PROVE  Made(e)' /\ MayWait(e)'
  BY MadeStays, MayWaitStays DEF Fine
<1>4. ASSUME kind = "close"
      PROVE  waiters = {} /\ GivenUp(first)' /\ \A e \in carried : GivenUp(e)'
  <2>1. GivenUp(first)'
    BY <1>4, GivenUpStays DEF Fine
  <2>2. ASSUME NEW e \in carried
        PROVE  GivenUp(e)'
    BY <1>4, GivenUpStays DEF Fine
  <2> QED BY <1>4, <2>1, <2>2 DEF Fine
<1> QED BY <1>1, <1>2, <1>3, <1>4 DEF Fine

\* All of it, wherever it is after the step.
StaysAsked ==
  /\ \A x \in TimerSet : Fine(x.kind, x.first, x.waiters, x.batch)'
  /\ \A k \in TaskSet : Fine(k.kind, k.first, k.waiters, k.carried)'
  /\ \A a \in answers :
       Made(a.entry)' /\ ((\A b \in answers : Answered(b) => b # a) => MayWait(a.entry)')
  /\ \A e \in sfu \cup stopped \cup abandoned : Made(e)'
  /\ \A e \in stopped : GivenUp(e)'

LEMMA AskedStays ==
  ASSUME Base, Asked, Once, [Next]_vars
  PROVE  StaysAsked
<1>0. /\ \A x \in TimerSet : /\ x.kind \in Kinds /\ x.first \in Entries
                             /\ x.waiters \subseteq Entries /\ x.batch \subseteq Entries
      /\ \A k \in TaskSet : /\ k.kind \in Kinds /\ k.first \in Entries
                            /\ k.waiters \subseteq Entries /\ k.carried \subseteq Entries
      /\ \A a \in answers : a.entry \in Entries
      /\ sfu \cup stopped \cup abandoned \subseteq Entries
  BY SetTypes DEF Base
<1>1. ASSUME NEW x \in TimerSet
      PROVE  Fine(x.kind, x.first, x.waiters, x.batch)'
  <2>1. /\ Fine(x.kind, x.first, x.waiters, x.batch)
        /\ \A e \in x.waiters, a \in answers : a.entry # e
    BY DEF Asked, Once
  <2> QED BY <1>0, <2>1, FineStays
<1>2. ASSUME NEW k \in TaskSet
      PROVE  Fine(k.kind, k.first, k.waiters, k.carried)'
  <2>1. /\ Fine(k.kind, k.first, k.waiters, k.carried)
        /\ \A e \in k.waiters, a \in answers : a.entry # e
    BY DEF Asked, Once
  <2> QED BY <1>0, <2>1, FineStays
<1>3. ASSUME NEW a \in answers
      PROVE  /\ Made(a.entry)'
             /\ (\A b \in answers : Answered(b) => b # a) => MayWait(a.entry)'
  <2>1. a.entry \in Entries /\ Made(a.entry) /\ MayWait(a.entry)
    BY <1>0 DEF Asked
  <2>2. Made(a.entry)'
    BY <2>1, MadeStays
  <2>3. ASSUME \A b \in answers : Answered(b) => b # a
        PROVE  MayWait(a.entry)'
    <3>1. \A b \in answers : Answered(b) => b.entry # a.entry
      BY <2>3 DEF Once
    <3> QED BY <2>1, <3>1, MayWaitStays
  <2> QED BY <2>2, <2>3
<1>4. ASSUME NEW e \in sfu \cup stopped \cup abandoned
      PROVE  Made(e)'
  BY <1>0, MadeStays DEF Asked
<1>5. ASSUME NEW e \in stopped
      PROVE  GivenUp(e)'
  BY <1>0, GivenUpStays DEF Asked
<1> QED BY <1>1, <1>2, <1>3, <1>4, <1>5 DEF StaysAsked

\* A timer that was added to, or is new.
LEMMA AddsFine ==
  ASSUME Base, StaysAsked, NEW kind, NEW e \in Entries, Adds(timers, timers', kind, e),
         Made(e)', kind # "close" => MayWait(e)', kind = "close" => GivenUp(e)'
  PROVE  \A x \in TimerSet' : Fine(x.kind, x.first, x.waiters, x.batch)'
<1>0. Waiters(kind, e) = IF kind = "close" THEN {} ELSE {e}
  BY DEF Waiters
<1>1. ASSUME NEW i \in 1..Len(timers')
      PROVE  \A x : x = timers'[i] => Fine(x.kind, x.first, x.waiters, x.batch)'
  <2> SUFFICES ASSUME NEW x, x = timers'[i]
               PROVE  Fine(x.kind, x.first, x.waiters, x.batch)'
    OBVIOUS
  <2>1. CASE i \in 1..Len(timers)
    <3>1. PICK y \in TimerSet : y = timers[i] /\ Extends(x, y, kind, e)
      BY <2>1 DEF Adds, TimerSet
    <3>2. Fine(y.kind, y.first, y.waiters, y.batch)'
      BY DEF StaysAsked
    <3>3. CASE x = y
      BY <3>2, <3>3
    <3>4. CASE x # y
      <4>1. /\ x.kind = kind /\ x.kind = y.kind /\ x.first = y.first
            /\ x.batch \subseteq y.batch \cup {e} /\ x.waiters \subseteq y.waiters \cup Waiters(kind, e)
        BY <3>1, <3>4 DEF Extends
      <4> QED BY <1>0, <3>2, <4>1 DEF Fine
    <3> QED BY <3>3, <3>4
  <2>2. CASE i \notin 1..Len(timers)
    <3>1. x.kind = kind /\ x.first = e /\ x.waiters = Waiters(kind, e) /\ x.batch \subseteq {e}
      BY <2>2 DEF Adds
    <3> QED BY <1>0, <3>1 DEF Fine
  <2> QED BY <2>1, <2>2
<1> QED BY <1>1 DEF TimerSet

LEMMA ClosesFine ==
  ASSUME Base, StaysAsked, NEW e \in Entries, CloseTrack(e), Made(e)', GivenUp(e)'
  PROVE  \A x \in TimerSet' : Fine(x.kind, x.first, x.waiters, x.batch)'
<1>1. CASE timers' = DoBulkRequest(timers, "close", e)
  <2>1. "close" \in Kinds /\ timers \in Seq(Timers) /\ Joins(timers)
    BY DEF Kinds, Base, Types
  <2>2. Adds(timers, timers', "close", e)
    BY <1>1, <2>1, DoBulkRequestAdds
  <2> QED BY <2>2, AddsFine
<1>2. CASE timers' = timers
  BY <1>2 DEF StaysAsked, TimerSet
<1> QED BY <1>1, <1>2, CloseTrackIs

\* A bulk request is answered, or its answer is lost.
LEMMA RunsFine ==
  ASSUME Base, Asked, StaysAsked, NEW kind \in {"push", "pull"}, Runs(kind)
  PROVE  Asked'
<1>1. PICK k \in TaskSet :
      /\ k = Head(tasks) /\ k.kind = kind /\ tasks' = Tail(tasks)
      /\ \A i \in 1..Len(tasks') : tasks'[i] \in TaskSet
      /\ timers' = timers /\ stopped' = stopped /\ answers = {}
      /\ Refused(k) \/ (\E listed, served : Lists(k, listed, served)) \/ Unsettled(k)
  <2>1. tasks \in Seq(Tasks) /\ tasks # <<>>
    BY RunsBase
  <2>2. /\ 1 \in 1..Len(tasks) /\ Head(tasks) = tasks[1]
        /\ \A i \in 1..Len(Tail(tasks)) : i + 1 \in 1..Len(tasks) /\ Tail(tasks)[i] = tasks[i + 1]
    BY <2>1, TailIs
  <2> QED BY <2>2, RunsIs DEF Runs, TaskSet, Quiet
<1>2. /\ Fine(k.kind, k.first, k.waiters, k.carried)'
      /\ \A x \in TimerSet : Fine(x.kind, x.first, x.waiters, x.batch)'
      /\ \A x \in TaskSet : Fine(x.kind, x.first, x.waiters, x.carried)'
      /\ \A e \in sfu \cup stopped \cup abandoned : Made(e)'
      /\ \A e \in stopped : GivenUp(e)'
  BY <1>1 DEF StaysAsked
<1>3. /\ \A e \in k.carried : Made(e)'
      /\ \A e \in k.waiters : Made(e)' /\ MayWait(e)'
  BY <1>2 DEF Fine
<1>4. /\ \A a \in answers' : a.entry \in k.waiters
      /\ sfu' \subseteq sfu \cup k.carried /\ abandoned' \subseteq abandoned \cup k.carried
  BY <1>1 DEF Refused, Lists, Listed, Unsettled, Tell
<1>5. TimerSet' = TimerSet /\ TaskSet' \subseteq TaskSet
  BY <1>1 DEF TimerSet, TaskSet
<1> QED BY <1>1, <1>2, <1>3, <1>4, <1>5 DEF Asked

LEMMA CloseRunsFine ==
  ASSUME Base, Asked, StaysAsked, CloseRuns
  PROVE  Asked'
<1>1. PICK k \in TaskSet :
      /\ k = Head(tasks) /\ k.kind = "close" /\ tasks' = Tail(tasks)
      /\ \A i \in 1..Len(tasks') : tasks'[i] \in TaskSet
  <2>1. tasks \in Seq(Tasks) /\ tasks # <<>>
    BY CloseRunsBase
  <2>2. /\ 1 \in 1..Len(tasks) /\ Head(tasks) = tasks[1]
        /\ \A i \in 1..Len(Tail(tasks)) : i + 1 \in 1..Len(tasks) /\ Tail(tasks)[i] = tasks[i + 1]
    BY <2>1, TailIs
  <2> QED BY <2>2 DEF CloseRuns, TaskSet
<1>2. /\ Fine(k.kind, k.first, k.waiters, k.carried)'
      /\ \A x \in TimerSet : Fine(x.kind, x.first, x.waiters, x.batch)'
      /\ \A x \in TaskSet : Fine(x.kind, x.first, x.waiters, x.carried)'
      /\ \A e \in sfu \cup stopped \cup abandoned : Made(e)'
      /\ \A e \in stopped : GivenUp(e)'
      /\ \A a \in answers : Made(a.entry)' /\ MayWait(a.entry)'
  <2>1. answers = {}
    BY DEF CloseRuns, Quiet
  <2> QED BY <1>1, <2>1 DEF StaysAsked
<1>3. Made(k.first)' /\ GivenUp(k.first)' /\ \A e \in k.carried : Made(e)'
  BY <1>1, <1>2 DEF Fine
<1>4. /\ timers' = timers /\ answers' = answers
      /\ sfu' \subseteq sfu /\ stopped' \subseteq stopped \cup {k.first}
      /\ abandoned' \subseteq abandoned \cup k.carried
  BY <1>1 DEF CloseRuns, sfuVars
<1>5. TimerSet' = TimerSet /\ TaskSet' \subseteq TaskSet
  BY <1>1, <1>4 DEF TimerSet, TaskSet
<1> QED BY <1>2, <1>3, <1>4, <1>5 DEF Asked

LEMMA TimerFiresFine ==
  ASSUME Base, StaysAsked, TimerFires
  PROVE  Asked'
<1>1. \A i \in 1..Len(timers') :
        \E x \in TimerSet : /\ timers'[i].kind = x.kind /\ timers'[i].first = x.first
                            /\ timers'[i].waiters = x.waiters /\ timers'[i].batch = x.batch
  BY TimerFiresBase DEF TimerSet
<1>2. \A y \in TimerSet' :
        \E x \in TimerSet : /\ y.kind = x.kind /\ y.first = x.first
                            /\ y.waiters = x.waiters /\ y.batch = x.batch
  BY <1>1 DEF TimerSet
<1>3. ASSUME NEW y \in TimerSet'
      PROVE  Fine(y.kind, y.first, y.waiters, y.batch)'
  <2>1. PICK x \in TimerSet : /\ y.kind = x.kind /\ y.first = x.first
                              /\ y.waiters = x.waiters /\ y.batch = x.batch
    BY <1>2
  <2>2. Fine(x.kind, x.first, x.waiters, x.batch)'
    BY DEF StaysAsked
  <2> QED BY <2>1, <2>2
<1>4. PICK x \in TimerSet, k \in Tasks :
        /\ tasks' = Append(tasks, k) /\ x = timers[1]
        /\ k.kind = x.kind /\ k.first = x.first
        /\ k.waiters = x.waiters /\ k.carried = x.batch
  BY TimerFiresBase DEF TimerSet
<1>5. TaskSet' \subseteq TaskSet \cup {k}
  BY <1>4, AppendIs DEF TaskSet, Base, Types
<1>6. ASSUME NEW y \in TaskSet'
      PROVE  Fine(y.kind, y.first, y.waiters, y.carried)'
  <2>1. CASE y \in TaskSet
    BY <2>1 DEF StaysAsked
  <2>2. CASE y = k
    <3>1. Fine(x.kind, x.first, x.waiters, x.batch)'
      BY DEF StaysAsked
    <3> QED BY <1>4, <2>2, <3>1
  <2> QED BY <1>5, <2>1, <2>2
<1>7. answers = {} /\ UNCHANGED <<answers, sfu, stopped, abandoned>>
  BY DEF TimerFires, Quiet, sfuVars
<1> QED BY <1>3, <1>6, <1>7 DEF Asked, StaysAsked

LEMMA AsksFine ==
  ASSUME Base, StaysAsked, NEW t \in Streams, Asks(t)
  PROVE  Asked'
<1>1. PICK e \in Entries : e = Latest(t) /\ Adds(timers, timers', Kind(t), e) /\ Kind(t) # "close"
  BY AsksIs
<1>2. /\ e.stream = t /\ e.n = n'[t] /\ e.session = session' /\ phase'[t] = "asked"
      /\ answers = {} /\ UNCHANGED <<tasks, answers, sfu, stopped, abandoned>>
  BY <1>1 DEF Latest, Asks, sfuVars, Base, Types
<1>3. Made(e)' /\ MayWait(e)'
  <2>1. session' \in Nat /\ n'[t] \in Nat
    BY DEF Asks, Base, Types
  <2> QED BY <1>2, <2>1 DEF Made, MayWait
<1>4. \E kind : Adds(timers, timers', kind, e) /\ kind # "close"
  BY <1>1
<1>5. \A x \in TimerSet' : Fine(x.kind, x.first, x.waiters, x.batch)'
  BY <1>3, <1>4, AddsFine
<1>6. TaskSet' = TaskSet
  BY <1>2 DEF TaskSet
<1> QED BY <1>2, <1>5, <1>6 DEF Asked, StaysAsked

LEMMA AnsweredFine ==
  ASSUME Base, Asked, StaysAsked, NEW a \in answers, Answered(a)
  PROVE  Asked'
<1>1. PICK e \in Entries : e = a.entry /\ Made(e) /\ MayWait(e) /\ Made(e)'
  BY SetTypes DEF Asked, StaysAsked, Base
<1>2. /\ answers' = answers \ {a} /\ UNCHANGED <<session, n, tasks, sfu, stopped>>
      /\ TaskSet' = TaskSet
  BY DEF Answered, TaskSet
<1>3. \A b \in answers' : Made(b.entry)' /\ MayWait(b.entry)'
  <2> SUFFICES ASSUME NEW b \in answers, b # a
               PROVE  Made(b.entry)' /\ MayWait(b.entry)'
    BY <1>2
  <2>1. ASSUME NEW c \in answers, Answered(c)
        PROVE  c # b
    <3>1. answers' = answers \ {c}
      BY <2>1 DEF Answered
    <3> QED BY <1>2, <3>1
  <2> QED BY <2>1 DEF StaysAsked
<1>4. CASE Waits(e)
  <2>1. timers' = timers /\ TimerSet' = TimerSet /\ abandoned' \subseteq abandoned \cup {e}
    BY <1>1, <1>4 DEF Answered, TrackNeverComes, TimerSet
  <2> QED BY <1>1, <1>2, <1>3, <2>1 DEF Asked, StaysAsked
<1>5. CASE ~Waits(e)
  <2>1. /\ phase' = phase /\ GivenUp(e)
        /\ CloseTrack(e) \/ UNCHANGED <<timers, abandoned>>
    BY <1>1, <1>5 DEF Answered, StaleFound, Waits, MayWait, GivenUp
  <2>2. GivenUp(e)'
    BY <1>2, <2>1 DEF GivenUp, Latest
  <2>3. \A x \in TimerSet' : Fine(x.kind, x.first, x.waiters, x.batch)'
    <3>1. CASE CloseTrack(e)
      BY <1>1, <2>2, <3>1, ClosesFine
    <3>2. CASE timers' = timers
      BY <3>2 DEF TimerSet, StaysAsked
    <3> QED BY <2>1, <3>1, <3>2
  <2>4. abandoned' \subseteq abandoned \cup {e}
    BY <2>1, CloseTrackIs
  <2> QED BY <1>1, <1>2, <1>3, <2>3, <2>4 DEF Asked, StaysAsked
<1> QED BY <1>4, <1>5

LEMMA UnsubscribeFine ==
  ASSUME Base, Base', StaysAsked, NEW t \in Streams, Unsubscribe(t), [Next]_vars
  PROVE  Asked'
<1>1. PICK e \in Entries : e = Latest(t)
  BY LatestType DEF Base
<1>2. /\ UNCHANGED <<session, n, tasks, answers>> /\ phase' = [phase EXCEPT ![t] = "off"]
      /\ TaskSet' = TaskSet
  BY UnsubscribeIs DEF TaskSet
<1>3. answers = {}
  BY DEF Unsubscribe, Quiet
<1>4. Made(e)' /\ GivenUp(e)'
  <2>1. e.stream = t /\ e.n = n[t] /\ e.session = session /\ n[t] \in Nat /\ session \in Nat
    BY <1>1 DEF Latest, Base, Types
  <2>2. t \in DOMAIN phase
    BY DEF Base, Types
  <2> QED BY <1>2, <2>1, <2>2 DEF Made, GivenUp
<1>5. CASE CloseTrack(e) /\ UNCHANGED <<sfu, stopped>>
  <2>1. \A x \in TimerSet' : Fine(x.kind, x.first, x.waiters, x.batch)'
    BY <1>4, <1>5, ClosesFine
  <2>2. abandoned' \subseteq abandoned \cup {e}
    BY <1>5, CloseTrackIs
  <2> QED BY <1>2, <1>3, <1>4, <1>5, <2>1, <2>2 DEF Asked, StaysAsked
<1>6. CASE /\ timers' = timers /\ abandoned' \subseteq abandoned
           /\ sfu' \subseteq sfu /\ stopped' \subseteq stopped
  BY <1>2, <1>3, <1>6 DEF TimerSet, Asked, StaysAsked
<1> QED BY <1>1, <1>5, <1>6, UnsubscribeIs

LEMMA AskedStep ==
  ASSUME Base, Asked, Once, [Next]_vars
  PROVE  Asked'
<1>1. StaysAsked /\ Base'
  BY AskedStays, BaseStep
<1>2. ASSUME UNCHANGED <<timers, tasks, answers, stopped>>,
             sfu' \subseteq sfu, abandoned' \subseteq abandoned,
             \A a \in answers : ~Answered(a)
      PROVE  Asked'
  BY <1>1, <1>2 DEF Asked, StaysAsked, TimerSet, TaskSet
<1>3. (\A a \in answers : ~Answered(a)) \/ \E a \in answers : Answered(a)
  OBVIOUS
<1>4. CASE \E a \in answers : Answered(a)
  BY <1>1, <1>4, AnsweredFine
<1>5. ASSUME \A a \in answers : ~Answered(a)
      PROVE  Asked'
  <2>1. CASE TimerFires
    BY <1>1, <2>1, TimerFiresFine
  <2>2. CASE PushRuns \/ PullRuns
    BY <1>1, <2>2, RunsFine DEF PushRuns, PullRuns
  <2>3. CASE CloseRuns
    BY <1>1, <2>3, CloseRunsFine
  <2>4. ASSUME NEW t \in Streams, Asks(t)
        PROVE  Asked'
    BY <1>1, <2>4, AsksFine
  <2>5. ASSUME NEW t \in Streams, Unsubscribe(t)
        PROVE  Asked'
    BY <1>1, <2>5, UnsubscribeFine
  <2>6. ASSUME NEW t \in Streams, Push(t) \/ Pull(t) \/ Retries(t) \/ DataSent(t)
        PROVE  Asked'
    BY <1>2, <1>5, <2>6 DEF Push, Pull, Retries, DataSent, requestVars, sfuVars
  <2>7. CASE NewSession \/ PcConnects \/ PcDisconnects
    BY <1>2, <1>5, <2>7 DEF NewSession, PcConnects, PcDisconnects, requestVars, sfuVars
  <2>8. CASE SessionLost
    <3>1. UNCHANGED <<timers, tasks, answers>> /\ sfu' = {} /\ stopped' = {} /\ abandoned' = {}
      BY <2>8 DEF SessionLost, requestVars
    <3> QED BY <1>1, <1>5, <3>1 DEF Asked, StaysAsked, TimerSet, TaskSet
  <2>9. CASE UNCHANGED vars
    BY <1>2, <1>5, <2>9 DEF vars, requestVars, sfuVars
  <2> QED BY <1>5, <2>1, <2>2, <2>3, <2>4, <2>5, <2>6, <2>7, <2>8, <2>9
          DEF Next, Turn, Streams
<1> QED BY <1>4, <1>5

-----------------------------------------------------------------------------
(* Nobody waits twice.                                                      *)

\* Timers after a step by which nobody begins to wait.
NoneWaits ==
  \A i \in 1..Len(timers') :
    \/ timers'[i].waiters = {}
    \/ i \in 1..Len(timers) /\ timers'[i].waiters \subseteq timers[i].waiters

LEMMA CloseAddsNoWaiter ==
  ASSUME Base, NEW e \in Entries, CloseTrack(e)
  PROVE  NoneWaits
<1>1. CASE timers' = DoBulkRequest(timers, "close", e)
  <2>1. "close" \in Kinds /\ timers \in Seq(Timers) /\ Joins(timers)
    BY DEF Kinds, Base, Types
  <2>2. Adds(timers, timers', "close", e)
    BY <1>1, <2>1, DoBulkRequestAdds
  <2>3. Waiters("close", e) = {}
    BY DEF Waiters
  <2> QED BY <2>2, <2>3 DEF Adds, Extends, NoneWaits
<1>2. CASE timers' = timers
  BY <1>2 DEF NoneWaits
<1> QED BY <1>1, <1>2, CloseTrackIs

LEMMA OnceKept ==
  ASSUME Once, NoneWaits, tasks' = tasks, answers' \subseteq answers
  PROVE  Once'
<1>1. ASSUME NEW i \in 1..Len(timers'), NEW j \in 1..Len(timers'), i # j
      PROVE  timers'[i].waiters \cap timers'[j].waiters = {}
  BY <1>1 DEF Once, NoneWaits
<1>2. ASSUME NEW x \in TimerSet'
      PROVE  /\ \A k \in TaskSet : x.waiters \cap k.waiters = {}
             /\ \A a \in answers : a.entry \notin x.waiters
  <2>1. x.waiters = {} \/ \E y \in TimerSet : x.waiters \subseteq y.waiters
    BY DEF TimerSet, NoneWaits
  <2> QED BY <2>1 DEF Once
<1>3. TaskSet' = TaskSet
  BY DEF TaskSet
<1> QED BY <1>1, <1>2, <1>3 DEF Once

LEMMA TimerFiresOnce ==
  ASSUME Base, Once, TimerFires
  PROVE  Once'
<1>1. PICK k \in Tasks :
        /\ tasks' = Append(tasks, k) /\ k.waiters = timers[1].waiters
        /\ 1 \in 1..Len(timers) /\ answers = {} /\ answers' = answers
  BY TimerFiresBase DEF TimerFires, Quiet
<1>2. \A i \in 1..Len(timers') :
        /\ i + 1 \in 1..Len(timers) /\ timers'[i].waiters = timers[i + 1].waiters
        /\ i + 1 # 1 /\ i \in Nat
  BY TimerFiresBase
<1>3. \A i \in 1..Len(tasks') :
        \/ i \in 1..Len(tasks) /\ tasks'[i] = tasks[i]
        \/ i = Len(tasks) + 1 /\ tasks'[i] = k
  BY <1>1, AppendIs DEF Base, Types
<1>4. ASSUME NEW i \in 1..Len(timers'), NEW j \in 1..Len(timers'), i # j
      PROVE  timers'[i].waiters \cap timers'[j].waiters = {}
  <2>1. i + 1 # j + 1
    BY <1>2, <1>4
  <2>2. timers[i + 1].waiters \cap timers[j + 1].waiters = {}
    BY <1>2, <2>1 DEF Once
  <2> QED BY <1>2, <2>2
<1>5. \A x \in TaskSet : x.waiters \cap k.waiters = {}
  BY <1>1 DEF Once, TimerSet
<1>6. ASSUME NEW i \in 1..Len(tasks'), NEW j \in 1..Len(tasks'), i # j
      PROVE  tasks'[i].waiters \cap tasks'[j].waiters = {}
  <2>1. \A m \in 1..Len(tasks) : tasks[m] \in TaskSet
    BY DEF TaskSet
  <2> QED BY <1>3, <1>5, <1>6, <2>1 DEF Once
<1>7. ASSUME NEW x \in TimerSet', NEW y \in TaskSet'
      PROVE  x.waiters \cap y.waiters = {}
  <2>1. PICK i \in 1..Len(timers') : x.waiters = timers[i + 1].waiters
    BY <1>2 DEF TimerSet
  <2>2. y \in TaskSet \/ y = k
    BY <1>3 DEF TaskSet
  <2>3. timers[i + 1] \in TimerSet
    BY <1>2 DEF TimerSet
  <2>4. timers[i + 1].waiters \cap timers[1].waiters = {}
    BY <1>1, <1>2 DEF Once
  <2> QED BY <1>1, <2>1, <2>2, <2>3, <2>4 DEF Once
<1> QED BY <1>1, <1>4, <1>6, <1>7 DEF Once

LEMMA AsksOnce ==
  ASSUME Base, Asked, Once, NEW t \in Streams, Asks(t)
  PROVE  Once'
<1>1. PICK e \in Entries : e = Latest(t) /\ Adds(timers, timers', Kind(t), e)
  BY AsksIs
<1>2. /\ answers = {} /\ answers' = answers /\ tasks' = tasks /\ phase[t] = "due"
      /\ TaskSet' = TaskSet
  BY DEF Asks, TaskSet
<1>3. ~MayWait(e)
  <2>1. e.stream = t
    BY <1>1 DEF Latest
  <2> QED BY <1>1, <1>2, <2>1 DEF MayWait, GivenUp
<1>4. /\ \A x \in TimerSet : e \notin x.waiters
      /\ \A k \in TaskSet : e \notin k.waiters
  BY <1>3 DEF Asked, Fine
<1>5. PICK w \in 1..Len(timers') : \A i \in 1..Len(timers') :
        i # w => i \in 1..Len(timers) /\ timers'[i].waiters = timers[i].waiters
  BY <1>1 DEF Adds
<1>6. \/ timers'[w].waiters \subseteq {e}
      \/ w \in 1..Len(timers) /\ timers'[w].waiters \subseteq timers[w].waiters \cup {e}
  <2>1. Waiters(Kind(t), e) \subseteq {e}
    BY DEF Waiters
  <2>2. CASE w \in 1..Len(timers)
    BY <1>1, <2>1, <2>2 DEF Adds, Extends
  <2>3. CASE w \notin 1..Len(timers)
    BY <1>1, <2>1, <2>3 DEF Adds
  <2> QED BY <2>2, <2>3
<1>7. \A i \in 1..Len(timers) : timers[i] \in TimerSet
  BY DEF TimerSet
<1>8. ASSUME NEW i \in 1..Len(timers'), i # w
      PROVE  timers'[i].waiters \cap timers'[w].waiters = {}
  BY <1>4, <1>5, <1>6, <1>7, <1>8 DEF Once
<1>9. ASSUME NEW i \in 1..Len(timers'), NEW j \in 1..Len(timers'), i # j
      PROVE  timers'[i].waiters \cap timers'[j].waiters = {}
  <2>1. CASE i = w \/ j = w
    BY <1>8, <1>9, <2>1
  <2>2. CASE i # w /\ j # w
    BY <1>5, <1>9, <2>2 DEF Once
  <2> QED BY <2>1, <2>2
<1>10. ASSUME NEW x \in TimerSet', NEW k \in TaskSet
       PROVE  x.waiters \cap k.waiters = {}
  <2>1. PICK i \in 1..Len(timers') : x = timers'[i]
    BY DEF TimerSet
  <2>2. CASE i = w
    BY <1>4, <1>6, <1>7, <2>1, <2>2 DEF Once
  <2>3. CASE i # w
    BY <1>5, <1>7, <2>1, <2>3 DEF Once
  <2> QED BY <2>2, <2>3
<1> QED BY <1>2, <1>9, <1>10 DEF Once

\* The head of the tasks is gone; whoever waited for it was told once.
LEMMA RunsOnce ==
  ASSUME Base, Once, tasks # <<>>, tasks' = Tail(tasks), timers' = timers,
         answers = {}, NEW k \in Tasks, k = Head(tasks),
         \A a \in answers' : a.entry \in k.waiters,
         \A a, b \in answers' : a.entry = b.entry => a = b
  PROVE  Once'
<1>1. /\ 1 \in 1..Len(tasks) /\ k = tasks[1]
      /\ \A i \in 1..Len(tasks') : /\ i + 1 \in 1..Len(tasks) /\ tasks'[i] = tasks[i + 1]
                                   /\ i + 1 # 1 /\ i \in Nat
  BY TailIs DEF Base, Types
<1>2. ASSUME NEW i \in 1..Len(tasks'), NEW j \in 1..Len(tasks'), i # j
      PROVE  tasks'[i].waiters \cap tasks'[j].waiters = {}
  <2>1. i + 1 # j + 1
    BY <1>1, <1>2
  <2> QED BY <1>1, <2>1 DEF Once
<1>3. /\ TimerSet' = TimerSet /\ TaskSet' \subseteq TaskSet
      /\ k \in TaskSet
  BY <1>1 DEF TimerSet, TaskSet
<1>4. \A y \in TaskSet' : y.waiters \cap k.waiters = {}
  <2>1. \A i \in 1..Len(tasks') : tasks'[i].waiters \cap k.waiters = {}
    BY <1>1 DEF Once
  <2> QED BY <2>1 DEF TaskSet
<1>5. \A x \in TimerSet : x.waiters \cap k.waiters = {}
  BY <1>3 DEF Once
<1> QED BY <1>2, <1>3, <1>4, <1>5 DEF Once

LEMMA OnceStep ==
  ASSUME Base, Asked, Once, [Next]_vars
  PROVE  Once'
<1>1. ASSUME timers' = timers, tasks' = tasks, answers' \subseteq answers
      PROVE  Once'
  <2>1. NoneWaits
    BY <1>1 DEF NoneWaits
  <2> QED BY <1>1, <2>1, OnceKept
<1>2. CASE TimerFires
  BY <1>2, TimerFiresOnce
<1>3. ASSUME NEW kind \in {"push", "pull"}, Runs(kind)
      PROVE  Once'
  <2>1. PICK k \in Tasks : k = Head(tasks)
    BY <1>3, RunsBase
  <2>2. /\ tasks # <<>> /\ tasks' = Tail(tasks) /\ timers' = timers /\ answers = {}
        /\ Refused(k) \/ (\E listed, served : Lists(k, listed, served)) \/ Unsettled(k)
    BY <1>3, <2>1, RunsIs DEF Runs, Quiet
  <2>3. \E served, otherwise : Tell(k, served, otherwise)
    BY <2>2 DEF Refused, Lists, Listed, Unsettled
  <2>4. /\ \A a \in answers' : a.entry \in k.waiters
        /\ \A a, b \in answers' : a.entry = b.entry => a = b
    BY <2>3 DEF Tell
  <2> QED BY <2>1, <2>2, <2>4, RunsOnce
<1>4. CASE CloseRuns
  <2>1. PICK k \in Tasks : k = Head(tasks)
    BY <1>4, CloseRunsBase
  <2>2. tasks # <<>> /\ tasks' = Tail(tasks) /\ timers' = timers /\ answers = {} /\ answers' = answers
    BY <1>4 DEF CloseRuns, Quiet
  <2> QED BY <2>1, <2>2, RunsOnce
<1>5. ASSUME NEW t \in Streams, Asks(t)
      PROVE  Once'
  BY <1>5, AsksOnce
<1>6. ASSUME NEW a \in answers, Answered(a)
      PROVE  Once'
  <2>1. /\ tasks' = tasks /\ answers' \subseteq answers
        /\ CloseTrack(a.entry) \/ timers' = timers
    BY <1>6 DEF Answered, TrackNeverComes, StaleFound
  <2>2. a.entry \in Entries
    BY SetTypes DEF Base
  <2> QED BY <1>1, <2>1, <2>2, CloseAddsNoWaiter, OnceKept
<1>7. ASSUME NEW t \in Streams, Unsubscribe(t)
      PROVE  Once'
  <2>1. /\ tasks' = tasks /\ answers' = answers
        /\ CloseTrack(Latest(t)) \/ timers' = timers
    BY <1>7, UnsubscribeIs
  <2>2. Latest(t) \in Entries
    BY LatestType DEF Base
  <2> QED BY <1>1, <2>1, <2>2, CloseAddsNoWaiter, OnceKept
<1>8. ASSUME NEW t \in Streams, Push(t) \/ Pull(t) \/ Retries(t) \/ DataSent(t)
      PROVE  Once'
  BY <1>1, <1>8 DEF Push, Pull, Retries, DataSent, requestVars
<1>9. CASE NewSession \/ PcConnects \/ PcDisconnects \/ SessionLost \/ UNCHANGED vars
  BY <1>1, <1>9 DEF NewSession, PcConnects, PcDisconnects, SessionLost, vars, requestVars
<1> QED BY <1>2, <1>3, <1>4, <1>5, <1>6, <1>7, <1>8, <1>9
        DEF Next, Turn, Streams, PushRuns, PullRuns

-----------------------------------------------------------------------------
(* What is live is served.                                                  *)

Served(t) == phase[t] \in {"sending", "live"} /\ pc \in Usable

\* Who was told so, and who will be.
Has(t) == Latest(t) \in sfu \/ (phase[t] = "sending" /\ Latest(t) \in refused)

Held ==
  /\ \A t \in Streams : Served(t) => Has(t)
  /\ \A a \in answers : a.result = "found" => a.entry \in sfu \cup refused

\* A step that serves nobody new and takes nothing away.
LEMMA HeldKept ==
  ASSUME Base, Held, answers' \subseteq answers,
         \A t \in Streams : Served(t)' =>
           /\ Served(t) /\ n'[t] = n[t] /\ session' = session
           /\ \/ Latest(t) \in sfu'
              \/ phase'[t] = "sending" /\ Latest(t) \in refused',
         \A a \in answers' : a.result = "found" => a.entry \in sfu' \cup refused'
  PROVE  Held'
<1>1. ASSUME NEW t \in Streams, Served(t)'
      PROVE  Has(t)'
  BY <1>1 DEF Latest, Has
<1> QED BY <1>1 DEF Held

LEMMA RunsHeld ==
  ASSUME Base, Held, NEW kind \in {"push", "pull"}, Runs(kind)
  PROVE  Held'
<1>1. PICK k \in Tasks : k = Head(tasks)
  BY RunsBase
<1>2. /\ \/ Refused(k) \/ (~Gone(k) /\ Unsettled(k))
         \/ \E listed, served : Lists(k, listed, served)
      /\ phase' = phase /\ n' = n /\ session' = session
  BY <1>1, RunsIs DEF Runs, streamVars
<1>3. sfu \subseteq sfu' /\ refused \subseteq refused' /\ (pc' \in Usable => pc \in Usable)
  BY <1>2 DEF Refused, Lists, Listed, Unsettled, Gone
<1>4. ASSUME NEW a \in answers', a.result = "found"
      PROVE  a.entry \in sfu' \cup refused'
  <2>1. CASE Refused(k) \/ Unsettled(k)
    BY <1>4, <2>1 DEF Refused, Unsettled, Tell
  <2>2. ASSUME NEW listed, NEW served, Lists(k, listed, served)
        PROVE  a.entry \in sfu' \cup refused'
    <3>1. a.entry \in listed
      BY <1>4, <2>2 DEF Lists, Listed, Tell
    <3> QED BY <2>2, <3>1 DEF Lists, Listed
  <2> QED BY <1>2, <2>1, <2>2
<1>5. ASSUME NEW t \in Streams, Served(t)'
      PROVE  Has(t)'
  BY <1>2, <1>3, <1>5 DEF Held, Has, Served, Latest
<1> QED BY <1>4, <1>5 DEF Held

\* Only what was given up is closed.
LEMMA CloseRunsHeld ==
  ASSUME Base, Asked, Held, CloseRuns
  PROVE  Held'
<1>1. PICK k \in Tasks : k = Head(tasks) /\ k \in TaskSet
  BY CloseRunsBase, TailIs DEF TaskSet
<1>2. /\ answers = {} /\ answers' = answers /\ k.kind = "close"
      /\ sfu \ k.carried \subseteq sfu' /\ refused' = refused
      /\ pc' = pc /\ phase' = phase /\ n' = n /\ session' = session
  BY <1>1 DEF CloseRuns, Quiet, streamVars, sfuVars
<1>3. \A e \in k.carried : GivenUp(e)
  BY <1>1, <1>2 DEF Asked, Fine
<1>4. ASSUME NEW t \in Streams, Served(t)
      PROVE  Latest(t) \in sfu' \/ (phase'[t] = "sending" /\ Latest(t) \in refused')
  <2>1. ~GivenUp(Latest(t))
    BY <1>4 DEF Served, GivenUp, Latest
  <2> QED BY <1>2, <1>3, <1>4, <2>1 DEF Held, Has
<1> QED BY <1>2, <1>4, HeldKept DEF Served

LEMMA AnsweredHeld ==
  ASSUME Base, Held, NEW a \in answers, Answered(a)
  PROVE  Held'
<1>1. PICK e \in Entries : e = a.entry /\ e.stream \in Streams
  BY SetTypes DEF Base, Entries
<1>2. /\ answers' \subseteq answers
      /\ UNCHANGED <<session, pc, n, tasks, sfu, stopped, refused>>
  BY DEF Answered
<1>3. \/ phase' = phase
      \/ Waits(e) /\ phase' = [phase EXCEPT ![e.stream] = "retrying"]
      \/ Waits(e) /\ phase' = [phase EXCEPT ![e.stream] = "stuck"]
      \/ /\ Waits(e) /\ a.result = "found"
         /\ phase' = [phase EXCEPT ![e.stream] = AfterFound(e)]
         /\ AfterFound(e) = "sending" \/ e \in sfu
  BY <1>1 DEF Answered, TrackNeverComes, AfterRejection, AfterFound, Streams
<1>4. ASSUME NEW t \in Streams, Served(t)'
      PROVE  Has(t)'
  <2>1. Latest(t)' = Latest(t)
    BY <1>2 DEF Latest
  <2>2. CASE phase'[t] = phase[t]
    BY <1>2, <1>4, <2>1, <2>2 DEF Held, Has, Served
  <2>3. CASE phase'[t] # phase[t]
    <3>1. phase \in [Streams -> Phases]
      BY DEF Base, Types
    <3>2. /\ t = e.stream /\ Waits(e) /\ a.result = "found"
          /\ phase'[t] = "sending" \/ e \in sfu
      BY <1>1, <1>3, <1>4, <2>3, <3>1 DEF Served
    <3> QED BY <1>1, <1>2, <2>1, <3>2 DEF Waits, Held, Has
  <2> QED BY <2>2, <2>3
<1> QED BY <1>2, <1>4 DEF Held

LEMMA HeldStep ==
  ASSUME Base, Asked, Held, [Next]_vars
  PROVE  Held'
<1>0. phase \in [Streams -> Phases]
  BY DEF Base, Types
<1>1. ASSUME NEW t \in Streams, Push(t) \/ Pull(t)
      PROVE  Held'
  <2>1. /\ UNCHANGED <<session, pc, answers, sfu, refused>>
        /\ Starts(t) \/ (phase' = [phase EXCEPT ![t] = "errored"] /\ n' = n)
    BY <1>1 DEF Push, Pull, requestVars, sfuVars
  <2>2. /\ \A u \in Streams \ {t} : phase'[u] = phase[u] /\ n'[u] = n[u]
        /\ phase'[t] \notin {"sending", "live"}
    BY <1>0, <2>1, StartsIs DEF Base
  <2> QED BY <2>1, <2>2, HeldKept DEF Served, Held, Has
<1>2. ASSUME NEW t \in Streams, Unsubscribe(t)
      PROVE  Held'
  <2>1. /\ phase' = [phase EXCEPT ![t] = "off"] /\ UNCHANGED <<session, n, answers>>
        /\ UNCHANGED <<pc, sfu, refused>> \/ pc' = "none"
        /\ answers = {}
    BY <1>2, UnsubscribeIs DEF Unsubscribe, Quiet
  <2> QED BY <1>0, <2>1, HeldKept DEF Served, Held, Has, Usable
<1>3. ASSUME NEW t \in Streams, Retries(t)
      PROVE  Held'
  <2>1. /\ phase' = [phase EXCEPT ![t] = "due"] /\ UNCHANGED <<session, pc, answers, sfu, refused>>
        /\ n' = n \/ n' = [n EXCEPT ![t] = @ + 1]
    BY <1>3 DEF Retries, requestVars, sfuVars
  <2>2. \A u \in Streams \ {t} : n'[u] = n[u]
    BY <2>1 DEF Base, Types
  <2> QED BY <1>0, <2>1, <2>2, HeldKept DEF Served, Held, Has
<1>4. ASSUME NEW t \in Streams, DataSent(t) \/ Asks(t)
      PROVE  Held'
  <2>1. /\ UNCHANGED <<session, pc, n, answers, sfu, refused>>
        /\ \/ /\ phase[t] = "sending" /\ phase' = [phase EXCEPT ![t] = "live"]
              /\ Latest(t) \in sfu
           \/ phase' = [phase EXCEPT ![t] = "asked"]
    BY <1>4 DEF DataSent, Asks, requestVars, sfuVars
  <2> QED BY <1>0, <2>1, HeldKept DEF Served, Held, Has
<1>5. ASSUME NEW a \in answers, Answered(a)
      PROVE  Held'
  BY <1>5, AnsweredHeld
<1>6. CASE TimerFires
  BY <1>6, HeldKept DEF TimerFires, streamVars, sfuVars, Served, Held, Has
<1>7. CASE PushRuns \/ PullRuns
  BY <1>7, RunsHeld DEF PushRuns, PullRuns
<1>8. CASE CloseRuns
  BY <1>8, CloseRunsHeld
<1>9. CASE NewSession
  <2>1. /\ phase' = [t \in Streams |-> IF On(t) THEN "due" ELSE phase[t]]
        /\ UNCHANGED <<answers, sfu, refused>>
    BY <1>9 DEF NewSession, requestVars, sfuVars
  <2> QED BY <2>1, HeldKept DEF Served, Held, Has, On
<1>10. CASE PcConnects \/ PcDisconnects
  BY <1>10, HeldKept DEF PcConnects, PcDisconnects, Served, Held, Has, Usable,
                         streamVars, requestVars, sfuVars
<1>11. CASE SessionLost
  <2>1. answers = {} /\ answers' = answers /\ pc' = "closed"
    BY <1>11 DEF SessionLost, Quiet, requestVars
  <2> QED BY <2>1, HeldKept DEF Served, Held, Has, Usable
<1>12. CASE UNCHANGED vars
  BY <1>12, HeldKept DEF vars, Served, Held, Has, streamVars, requestVars, sfuVars
<1> QED BY <1>1, <1>2, <1>3, <1>4, <1>5, <1>6, <1>7, <1>8, <1>9, <1>10, <1>11, <1>12
        DEF Next, Turn, Streams

Sound == Base /\ Asked /\ Once /\ Held

LEMMA SoundInit == Init => Sound
<1>1. Init => TimerSet = {} /\ TaskSet = {} /\ timers = <<>> /\ tasks = <<>>
  BY DEF Init, TimerSet, TaskSet
<1> QED BY <1>1, InitBase DEF Init, Sound, Asked, Once, Held, Served, Usable

LEMMA SoundStep == Sound /\ [Next]_vars => Sound'
  BY BaseStep, AskedStep, OnceStep, HeldStep DEF Sound

(* A stream that is live really has its track, and so has one that was told *)
(* its track is pushed, unless the SFU listed it with an error nobody reads *)
(* (refused): the late answer of an earlier request, another stream's close *)
(* or a close of its own earlier transceiver never takes the latest away.   *)
THEOREM LiveAreServed == Spec => []LiveIsServed
<1>1. Sound => LiveIsServed
  <2> SUFFICES ASSUME Sound, NEW t \in Streams, Served(t)
               PROVE  Has(t) /\ Latest(t) \notin stopped
    BY DEF LiveIsServed, Served, Has
  <2>1. ~GivenUp(Latest(t))
    BY DEF Served, GivenUp, Latest
  <2> QED BY <2>1 DEF Sound, Held, Asked
<1> QED BY <1>1, SoundInit, SoundStep, PTL DEF Spec

-----------------------------------------------------------------------------
(* Who waits, and for what.                                                 *)

\* One timer of the kind, and its batch is what is waited for.
PairedTimers(ts, kind) ==
  /\ \A i \in 1..Len(ts) : ts[i].kind = kind =>
       ts[i].current /\ ts[i].joinable /\ ts[i].waiters = ts[i].batch
  /\ \A i, j \in 1..Len(ts) : ts[i].kind = kind /\ ts[j].kind = kind => i = j

\* So it is for every kind that met no full batch lately.
Paired ==
  /\ \A kind \in {"push", "pull"} \ split : PairedTimers(timers, kind)
  /\ \A k \in TaskSet : k.kind # "close" => k.split \/ k.waiters = k.carried

\* And always: what is waited for was carried, or is in a batch that goes out
\* no later than the promise is resolved.
Comes(ts, i, e) == e \in sent \/ \E j \in 1..i : j \in 1..Len(ts) /\ e \in ts[j].batch
Awaited ==
  /\ \A i \in 1..Len(timers), e \in Entries : e \in timers[i].waiters => Comes(timers, i, e)
  /\ \A k \in TaskSet : k.early = {}

\* Asking with room: the one timer of the kind takes the entry, or a new one.
LEMMA AddsWithRoom ==
  ASSUME NEW ts \in Seq(Timers), NEW kind \in {"push", "pull"}, NEW e \in Entries,
         PairedTimers(ts, kind), ~IsFull(ts, kind), NEW new, new = DoBulkRequest(ts, kind, e)
  PROVE  PairedTimers(new, kind)
<1> DEFINE pushed == InBatch(ts, kind, e)
           last == Timer(kind, e, Holders(ts, kind) # {})
<1>0. kind \in Kinds /\ kind # "close" /\ Waiters(kind, e) = {e}
  BY DEF Kinds, Waiters
<1>1. WithRoom(ts, kind) = ts
  BY <1>0, WithRoomIs
<1>2. DOMAIN ts = 1..Len(ts) /\ Len(ts) \in Nat /\ \A i \in 1..Len(ts) : ts[i] \in Timers
  BY LenProperties, ElementOfSeq
<1>3. /\ \A i \in 1..Len(ts) : i \in Holders(ts, kind) <=> ts[i].kind = kind
      /\ Holders(ts, kind) \subseteq 1..Len(ts) /\ Joinable(ts, kind) = Holders(ts, kind)
  BY <1>0, <1>2 DEF Holders, Joinable, PairedTimers
<1>4. CASE Holders(ts, kind) = {}
  <2>1. new = Append(ts, Timer(kind, e, FALSE))
    BY <1>1, <1>3, <1>4 DEF DoBulkRequest, InBatch
  <2>2. PICK x : x = [kind |-> kind, first |-> e, waiters |-> {e}, batch |-> {e},
                      current |-> TRUE, joinable |-> TRUE]
    OBVIOUS
  <2>3. x = Timer(kind, e, FALSE)
    BY <1>0, <2>2 DEF Timer
  <2>4. /\ x \in Timers /\ x.kind = kind /\ x.current /\ x.joinable
        /\ x.waiters = x.batch
    BY <1>0, <2>2 DEF Timers
  <2>5. new = Append(ts, x) /\ x \in Timers /\ ts \in Seq(Timers)
    BY <2>1, <2>3, <2>4
  <2>6. /\ Len(new) = Len(ts) + 1 /\ new[Len(ts) + 1] = x
        /\ \A i \in 1..Len(ts) : new[i] = ts[i]
    BY <2>5, AppendIs
  <2>7. \A i \in 1..Len(new) : i \in 1..Len(ts) \/ i = Len(ts) + 1
    BY <1>2, <2>6
  <2>8. \A i \in 1..Len(ts) : ts[i].kind # kind
    BY <1>3, <1>4
  <2> QED BY <2>4, <2>6, <2>7, <2>8 DEF PairedTimers
<1>5. CASE Holders(ts, kind) # {}
  <2>1. PICK h \in 1..Len(ts) : Holders(ts, kind) = {h}
    <3>1. PICK h \in Holders(ts, kind) : TRUE
      BY <1>5
    <3>2. \A i \in Holders(ts, kind) : i = h
      BY <1>0, <1>3, <3>1 DEF PairedTimers
    <3> QED BY <1>3, <3>1, <3>2
  <2>2. /\ pushed \in Seq(Timers) /\ Len(pushed) = Len(ts) /\ pushed[h] = Filled(ts[h], e)
        /\ \A i \in 1..Len(ts) : i # h => pushed[i] = ts[i]
    BY <1>0, <2>1, InBatchIs
  <2>3. DOMAIN pushed = 1..Len(ts)
    BY <2>2
  <2>4. new = [i \in DOMAIN pushed |->
                 IF i \in Joinable(ts, kind) THEN Joined(pushed[i], kind, e) ELSE pushed[i]]
    BY <1>1, <1>3, <1>5 DEF DoBulkRequest, Joined
  <2> HIDE DEF pushed
  <2>5. new = [i \in 1..Len(ts) |->
                 IF i \in {h} THEN Joined(pushed[i], kind, e) ELSE pushed[i]]
    BY <1>3, <2>1, <2>3, <2>4
  <2>6. Len(new) = Len(ts)
    BY <1>2, <2>5, LenProperties
  <2>7. /\ new[h] = Joined(Filled(ts[h], e), kind, e)
        /\ \A i \in 1..Len(ts) : i # h => new[i] = ts[i]
    BY <2>2, <2>5
  <2>8. /\ ts[h].kind = kind /\ ts[h].current /\ ts[h].joinable /\ ts[h].waiters = ts[h].batch
    BY <1>0, <1>3, <2>1 DEF PairedTimers
  <2>9. /\ new[h].kind = kind /\ new[h].current /\ new[h].joinable
        /\ new[h].waiters = new[h].batch
    <3>1. PICK x \in Timers : x = ts[h]
      BY <1>2
    <3>2. PICK y \in Timers : y = Filled(x, e)
      BY FilledIs
    <3>3. y.kind = x.kind /\ y.waiters = x.waiters /\ y.batch = x.batch \cup {e}
          /\ y.current = x.current /\ y.joinable = x.joinable
      BY <3>2, FilledIs
    <3>4. PICK z \in Timers : z = Joined(y, kind, e)
      BY JoinedIs
    <3>5. z.kind = y.kind /\ z.waiters = y.waiters \cup {e} /\ z.batch = y.batch
          /\ z.current = y.current /\ z.joinable = y.joinable
      BY <1>0, <3>4, JoinedIs
    <3>6. new[h] = z
      BY <2>7, <3>1, <3>2, <3>4
    <3>7. x.kind = kind /\ x.current /\ x.joinable /\ x.waiters = x.batch
      BY <2>8, <3>1
    <3>8. z.kind = kind /\ z.current /\ z.joinable /\ z.waiters = z.batch
      BY <3>3, <3>5, <3>7
    <3> QED BY <3>6, <3>8
  <2> QED BY <2>6, <2>7, <2>8, <2>9 DEF PairedTimers
<1> QED BY <1>4, <1>5

\* Asking for one kind leaves the timers of the other alone.
LEMMA AddsOther ==
  ASSUME NEW ts, NEW new, NEW kind, NEW e, NEW other, other # kind,
         Adds(ts, new, kind, e), PairedTimers(ts, other)
  PROVE  PairedTimers(new, other)
<1>1. \A i \in 1..Len(new) : new[i].kind = other =>
        i \in 1..Len(ts) /\ new[i] = ts[i]
  BY DEF Adds, Extends
<1> QED BY <1>1 DEF PairedTimers

LEMMA AddsAwaited ==
  ASSUME Base, Awaited, NEW kind, NEW e, Adds(timers, timers', kind, e),
         sent' = sent, TaskSet' \subseteq TaskSet
  PROVE  Awaited'
<1>1. PICK w \in 1..Len(timers') :
        /\ \A i \in 1..Len(timers') :
             i # w => i \in 1..Len(timers) /\ timers'[i].waiters = timers[i].waiters
        /\ \E i \in 1..w : i \in 1..Len(timers') /\ e \in timers'[i].batch
  BY DEF Adds
<1>2. /\ \A i \in 1..Len(timers) :
           /\ i \in 1..Len(timers') /\ timers[i].batch \subseteq timers'[i].batch
           /\ timers'[i].waiters \subseteq timers[i].waiters \cup Waiters(kind, e)
      /\ \A i \in 1..Len(timers') :
           i \in 1..Len(timers) \/ timers'[i].waiters = Waiters(kind, e)
      /\ Waiters(kind, e) \subseteq {e}
  BY DEF Adds, Extends, Waiters
<1>3. ASSUME NEW i \in 1..Len(timers'), NEW d \in Entries, d \in timers'[i].waiters
      PROVE  Comes(timers, i, d)'
  <2>1. CASE i \in 1..Len(timers) /\ d \in timers[i].waiters
    <3>1. Comes(timers, i, d)
      BY <2>1 DEF Awaited
    <3> QED BY <1>2, <2>1, <3>1 DEF Comes
  <2>2. CASE ~(i \in 1..Len(timers) /\ d \in timers[i].waiters)
    <3>1. i = w
      BY <1>1, <1>3, <2>2
    <3>2. d = e
      BY <1>2, <1>3, <2>2
    <3> QED BY <1>1, <3>1, <3>2 DEF Comes
  <2> QED BY <2>1, <2>2
<1> QED BY <1>3 DEF Awaited

\* A request that is added to the timers, with room or for a close.
LEMMA CloseKeeps ==
  ASSUME Base, Paired, Awaited, NEW e \in Entries, CloseTrack(e),
         split' = split, sent' = sent, TaskSet' \subseteq TaskSet
  PROVE  Paired' /\ Awaited'
<1>1. CASE timers' = DoBulkRequest(timers, "close", e)
  <2>1. "close" \in Kinds /\ timers \in Seq(Timers) /\ Joins(timers)
    BY DEF Kinds, Base, Types
  <2>2. Adds(timers, timers', "close", e)
    BY <1>1, <2>1, DoBulkRequestAdds
  <2>3. ASSUME NEW kind \in {"push", "pull"} \ split
        PROVE  PairedTimers(timers', kind)
    BY <2>2, AddsOther DEF Paired
  <2> QED BY <2>2, <2>3, AddsAwaited DEF Paired
<1>2. CASE timers' = timers
  BY <1>2 DEF Paired, Awaited, Comes
<1> QED BY <1>1, <1>2, CloseTrackIs

LEMMA AsksKeeps ==
  ASSUME Base, Paired, Awaited, NEW t \in Streams, Asks(t)
  PROVE  Paired' /\ Awaited'
<1>1. PICK e \in Entries : e = Latest(t) /\ timers' = DoBulkRequest(timers, Kind(t), e)
  BY LatestType DEF Base, Asks
<1>2. PICK kind \in {"push", "pull"} : kind = Kind(t)
  BY DEF Kind
<1>3. Adds(timers, timers', kind, e)
  BY <1>1, <1>2, AsksIs
<1>4. /\ timers \in Seq(Timers) /\ TaskSet' = TaskSet /\ sent' = sent
      /\ split \subseteq split' /\ (IsFull(timers, kind) => kind \in split')
  BY <1>2 DEF Base, Types, Asks, TaskSet
<1>5. ASSUME NEW other \in {"push", "pull"} \ split'
      PROVE  PairedTimers(timers', other)
  <2>1. PairedTimers(timers, other)
    BY <1>4 DEF Paired
  <2>2. CASE other = kind
    BY <1>1, <1>2, <1>4, <2>1, <2>2, AddsWithRoom
  <2>3. CASE other # kind
    BY <1>3, <2>1, <2>3, AddsOther
  <2> QED BY <2>2, <2>3
<1> QED BY <1>3, <1>4, <1>5, AddsAwaited DEF Paired

LEMMA TimerFiresKeeps ==
  ASSUME Base, Paired, Awaited, TimerFires
  PROVE  Paired' /\ Awaited'
<1>1. \A i \in 1..Len(timers') :
        /\ i + 1 \in 1..Len(timers) /\ timers'[i].kind = timers[i + 1].kind
        /\ timers'[i].waiters = timers[i + 1].waiters
        /\ timers'[i].batch = timers[i + 1].batch
        /\ timers'[i].current = timers[i + 1].current
        /\ timers'[i].joinable <=>
             timers[i + 1].joinable /\ timers[i + 1].kind # timers[1].kind
        /\ i \in Nat /\ i + 1 # 1
  BY TimerFiresBase
<1>2. PICK k \in Tasks :
        /\ tasks' = Append(tasks, k) /\ k.kind = timers[1].kind
        /\ k.waiters = timers[1].waiters /\ k.carried = timers[1].batch
        /\ k.split = (k.kind \in split)
        /\ k.early = k.waiters \ (sent \cup k.carried)
  BY TimerFiresBase
<1>3. /\ 1 \in 1..Len(timers) /\ timers[1] \in Timers
      /\ Len(timers) \in Nat /\ Len(timers') = Len(timers) - 1
      /\ sent' = (sent \cup timers[1].batch) \cap
                 UNION {timers'[i].waiters : i \in 1..Len(timers')}
      /\ \A kind \in Kinds \ split' :
           \/ kind \notin split
           \/ \A i \in 1..Len(timers') : timers'[i].kind # kind
  BY TimerFiresBase
<1>4. TaskSet' \subseteq TaskSet \cup {k}
  BY <1>2, AppendIs DEF TaskSet, Base, Types
<1>5. ASSUME NEW kind \in {"push", "pull"} \ split'
      PROVE  PairedTimers(timers', kind)
  <2>1. CASE \A i \in 1..Len(timers') : timers'[i].kind # kind
    BY <2>1 DEF PairedTimers
  <2>2. CASE kind \notin split
    <3>1. PairedTimers(timers, kind)
      BY <2>2 DEF Paired
    <3>2. ASSUME NEW i \in 1..Len(timers'), timers'[i].kind = kind
          PROVE  /\ timers'[i].current /\ timers'[i].joinable
                 /\ timers'[i].waiters = timers'[i].batch
                 /\ \A j \in 1..Len(timers') : timers'[j].kind = kind => i = j
      <4>1. timers[1].kind # kind
        BY <1>1, <1>3, <3>1, <3>2 DEF PairedTimers
      <4>2. /\ timers[i + 1].current /\ timers[i + 1].joinable
            /\ timers[i + 1].waiters = timers[i + 1].batch
        BY <1>1, <3>1, <3>2 DEF PairedTimers
      <4>3. ASSUME NEW j \in 1..Len(timers'), timers'[j].kind = kind
            PROVE  i = j
        <5>1. i + 1 = j + 1
          BY <1>1, <3>1, <3>2, <4>3 DEF PairedTimers
        <5> QED BY <1>1, <5>1
      <4> QED BY <1>1, <3>2, <4>1, <4>2, <4>3
    <3> QED BY <3>2 DEF PairedTimers
  <2>3. kind \in Kinds \ split'
    BY DEF Kinds
  <2> QED BY <1>3, <2>1, <2>2, <2>3
<1>6. k.kind # "close" => k.split \/ k.waiters = k.carried
  <2> SUFFICES ASSUME k.kind # "close", ~k.split
               PROVE  k.waiters = k.carried
    OBVIOUS
  <2>1. k.kind \in {"push", "pull"} \ split
    BY <1>2 DEF Tasks, Kinds
  <2> QED BY <1>2, <1>3, <2>1 DEF Paired, PairedTimers
<1>7. k.early = {}
  <2>1. \A e \in Entries : e \in timers[1].waiters => e \in sent \/ e \in timers[1].batch
    BY <1>3 DEF Awaited, Comes
  <2>2. timers[1].waiters \subseteq Entries
    BY <1>3 DEF Timers
  <2> QED BY <1>2, <2>1, <2>2
<1>8. ASSUME NEW i \in 1..Len(timers'), NEW e \in Entries, e \in timers'[i].waiters
      PROVE  Comes(timers, i, e)'
  <2>1. Comes(timers, i + 1, e)
    BY <1>1, <1>8 DEF Awaited
  <2>2. CASE e \in sent \cup timers[1].batch
    BY <1>3, <1>8, <2>2 DEF Comes
  <2>3. ASSUME NEW j \in 1..(i + 1), j \in 1..Len(timers), j # 1, e \in timers[j].batch
        PROVE  Comes(timers, i, e)'
    <3>1. PICK m \in 1..i : m + 1 = j
      <4>1. i \in Nat /\ j - 1 \in 1..i /\ (j - 1) + 1 = j
        BY <1>1, <2>3
      <4> QED BY <4>1
    <3>2. m \in 1..Len(timers') /\ e \in timers'[m].batch
      BY <1>1, <2>3, <3>1
    <3> QED BY <3>1, <3>2 DEF Comes
  <2> QED BY <2>1, <2>2, <2>3 DEF Comes
<1> QED BY <1>4, <1>5, <1>6, <1>7, <1>8 DEF Paired, Awaited

LEMMA WaitingStep ==
  ASSUME Base, Paired, Awaited, [Next]_vars
  PROVE  Paired' /\ Awaited'
<1>1. ASSUME timers' = timers, UNCHANGED batchVars, TaskSet' \subseteq TaskSet
      PROVE  Paired' /\ Awaited'
  BY <1>1 DEF Paired, Awaited, Comes, batchVars
<1>2. CASE TimerFires
  BY <1>2, TimerFiresKeeps
<1>3. ASSUME tasks \in Seq(Tasks), tasks # <<>>, tasks' = Tail(tasks)
      PROVE  TaskSet' \subseteq TaskSet
  BY <1>3, TailIs DEF TaskSet
<1>4. CASE PushRuns \/ PullRuns
  BY <1>1, <1>3, <1>4, RunsBase DEF PushRuns, PullRuns, Runs
<1>5. CASE CloseRuns
  BY <1>1, <1>3, <1>5, CloseRunsBase DEF CloseRuns
<1>6. ASSUME NEW t \in Streams, Asks(t)
      PROVE  Paired' /\ Awaited'
  BY <1>6, AsksKeeps
<1>7. ASSUME NEW a \in answers, Answered(a)
      PROVE  Paired' /\ Awaited'
  <2>1. /\ tasks' = tasks /\ (CloseTrack(a.entry) \/ timers' = timers) /\ a.entry \in Entries
        /\ UNCHANGED batchVars
    BY <1>7, SetTypes DEF Answered, TrackNeverComes, StaleFound, Base
  <2>2. TaskSet' \subseteq TaskSet
    BY <2>1 DEF TaskSet
  <2> QED BY <1>1, <2>1, <2>2, CloseKeeps DEF batchVars
<1>8. ASSUME NEW t \in Streams, Unsubscribe(t)
      PROVE  Paired' /\ Awaited'
  <2>1. /\ tasks' = tasks /\ (CloseTrack(Latest(t)) \/ timers' = timers)
        /\ Latest(t) \in Entries
    BY <1>8, UnsubscribeIs, LatestType DEF Base
  <2>2. UNCHANGED batchVars
    BY <1>8 DEF Unsubscribe
  <2>3. TaskSet' \subseteq TaskSet
    BY <2>1 DEF TaskSet
  <2> QED BY <1>1, <2>1, <2>2, <2>3, CloseKeeps DEF batchVars
<1>9. ASSUME UNCHANGED <<timers, tasks, batchVars>>
      PROVE  Paired' /\ Awaited'
  BY <1>1, <1>9 DEF TaskSet
<1>10. ASSUME NEW t \in Streams, Push(t) \/ Pull(t) \/ Retries(t) \/ DataSent(t)
       PROVE  Paired' /\ Awaited'
  BY <1>9, <1>10 DEF Push, Pull, Retries, DataSent, requestVars
<1>11. CASE NewSession \/ PcConnects \/ PcDisconnects \/ SessionLost \/ UNCHANGED vars
  BY <1>9, <1>11 DEF NewSession, PcConnects, PcDisconnects, SessionLost, vars, requestVars
<1> QED BY <1>2, <1>4, <1>5, <1>6, <1>7, <1>8, <1>10, <1>11 DEF Next, Turn, Streams

LEMMA WaitingInit == Init => Paired /\ Awaited
  BY DEF Init, Paired, PairedTimers, Awaited, TaskSet

(* Nobody waits for a bulk request that comes before the one that carries   *)
(* its entry, and one that comes after it only if a request met a full      *)
(* batch since all timers of the kind had last fired, however turns, timers *)
(* and batches interleave.                                                  *)
THEOREM WaitsForItsRequest == Spec => []AnsweredByItsRequest
<1>1. Base /\ Asked /\ Paired /\ Awaited => AnsweredByItsRequest
  <2> SUFFICES ASSUME Base, Asked, Paired, Awaited, NEW i \in DOMAIN tasks
               PROVE  /\ tasks[i].early = {}
                      /\ tasks[i].waiters \subseteq tasks[i].carried \/ tasks[i].split
    BY DEF AnsweredByItsRequest
  <2>1. tasks[i] \in TaskSet
    BY DEF TaskSet, Base, Types
  <2> QED BY <2>1 DEF Asked, Fine, Paired, Awaited
<1>2. Spec => []Sound
  BY SoundInit, SoundStep, PTL DEF Spec
<1>3. Sound => Base /\ Asked
  BY DEF Sound
<1>4. Base /\ Paired /\ Awaited /\ [Next]_vars => Paired' /\ Awaited'
  BY WaitingStep
<1>5. Spec => [](Paired /\ Awaited)
  BY <1>2, <1>3, <1>4, WaitingInit, PTL DEF Spec
<1> QED BY <1>1, <1>2, <1>3, <1>5, PTL

-----------------------------------------------------------------------------
(* The requests are carried out in the order of their sessions.             *)

InOrder ==
  /\ \A i, j \in 1..Len(timers) : i <= j =>
       timers[i].first.session <= timers[j].first.session
  /\ \A i, j \in 1..Len(tasks) : i <= j =>
       tasks[i].first.session <= tasks[j].first.session
  /\ \A x \in TimerSet, k \in TaskSet : k.first.session <= x.first.session

\* The first callers of what is asked for after a step.
FirstsKept ==
  /\ session' = session
  /\ \A x \in TimerSet' : x.first.session = session \/ \E y \in TimerSet : x.first = y.first
  /\ \A k \in TaskSet' : \E y \in TimerSet \cup TaskSet : k.first = y.first

LEMMA FirstIsMade ==
  ASSUME Base, Asked
  PROVE  /\ session \in Nat
         /\ \A x \in TimerSet \cup TaskSet :
              x.first.session \in Nat /\ x.first.session <= session
<1>1. \A x \in TimerSet \cup TaskSet : x.first \in Entries /\ Made(x.first)
  BY SetTypes DEF Base, Asked, Fine
<1> QED BY <1>1 DEF Made, Entries, Base, Types

LEMMA AddsInOrder ==
  ASSUME Base, Asked, InOrder, NEW kind, NEW e \in Entries, e.session = session,
         Adds(timers, timers', kind, e), tasks' = tasks, session' = session
  PROVE  InOrder' /\ FirstsKept
<1>1. \A i \in 1..Len(timers') :
        \/ i \in 1..Len(timers) /\ timers'[i].first = timers[i].first
        \/ i = Len(timers) + 1 /\ timers'[i].first = e
  BY DEF Adds, Extends
<1>2. Len(timers) \in Nat /\ TaskSet' = TaskSet
  BY DEF Base, Types, TaskSet
<1>3. \A i \in 1..Len(timers) : timers[i] \in TimerSet
  BY DEF TimerSet
<1>4. /\ session \in Nat
      /\ \A x \in TimerSet \cup TaskSet :
           x.first.session \in Nat /\ x.first.session <= session
  BY FirstIsMade
<1>5. ASSUME NEW i \in 1..Len(timers'), NEW j \in 1..Len(timers'), i <= j
      PROVE  timers'[i].first.session <= timers'[j].first.session
  <2>1. CASE j = Len(timers) + 1
    BY <1>1, <1>2, <1>3, <1>4, <2>1
  <2>2. CASE j \in 1..Len(timers)
    <3>1. i \in 1..Len(timers) /\ i # Len(timers) + 1 /\ j # Len(timers) + 1
      BY <1>2, <1>5, <2>2
    <3> QED BY <1>1, <1>5, <2>2, <3>1 DEF InOrder
  <2> QED BY <1>1, <2>1, <2>2
<1>6. \A x \in TimerSet' : x.first = e \/ \E y \in TimerSet : x.first = y.first
  BY <1>1, <1>3 DEF TimerSet
<1>7. \A x \in TimerSet', k \in TaskSet' : k.first.session <= x.first.session
  BY <1>2, <1>4, <1>6 DEF InOrder
<1>8. FirstsKept
  BY <1>2, <1>6 DEF FirstsKept
<1> QED BY <1>2, <1>5, <1>7, <1>8 DEF InOrder

LEMMA ClosesInOrder ==
  ASSUME Base, Asked, InOrder, NEW e \in Entries, CloseTrack(e),
         tasks' = tasks, session' = session
  PROVE  InOrder' /\ FirstsKept
<1>1. CASE timers' # timers
  <2>1. timers' = DoBulkRequest(timers, "close", e) /\ e.session = session
    BY <1>1 DEF CloseTrack
  <2>2. "close" \in Kinds /\ timers \in Seq(Timers) /\ Joins(timers)
    BY DEF Kinds, Base, Types
  <2>3. Adds(timers, timers', "close", e)
    BY <2>1, <2>2, DoBulkRequestAdds
  <2> QED BY <2>1, <2>3, AddsInOrder
<1>2. CASE timers' = timers
  BY <1>2 DEF InOrder, FirstsKept, TimerSet, TaskSet
<1> QED BY <1>1, <1>2

LEMMA TailInOrder ==
  ASSUME Base, InOrder, tasks # <<>>, tasks' = Tail(tasks), timers' = timers,
         session' = session
  PROVE  InOrder' /\ FirstsKept
<1>1. \A i \in 1..Len(tasks') : /\ i + 1 \in 1..Len(tasks) /\ tasks'[i] = tasks[i + 1]
                                /\ i \in Nat
  BY TailIs DEF Base, Types
<1>2. TimerSet' = TimerSet /\ TaskSet' \subseteq TaskSet
  BY <1>1 DEF TimerSet, TaskSet
<1>3. ASSUME NEW i \in 1..Len(tasks'), NEW j \in 1..Len(tasks'), i <= j
      PROVE  tasks'[i].first.session <= tasks'[j].first.session
  <2>1. i + 1 <= j + 1
    BY <1>1, <1>3
  <2> QED BY <1>1, <2>1 DEF InOrder
<1> QED BY <1>2, <1>3 DEF InOrder, FirstsKept

LEMMA TimerFiresInOrder ==
  ASSUME Base, InOrder, TimerFires
  PROVE  InOrder' /\ FirstsKept
<1>1. \A i \in 1..Len(timers') :
        /\ i + 1 \in 1..Len(timers) /\ timers'[i].first = timers[i + 1].first
        /\ i \in Nat /\ 1 <= i + 1
  BY TimerFiresBase
<1>2. PICK k \in Tasks :
        tasks' = Append(tasks, k) /\ k.first = timers[1].first /\ 1 \in 1..Len(timers)
  BY TimerFiresBase
<1>3. /\ \A i \in 1..Len(tasks') :
           \/ i \in 1..Len(tasks) /\ tasks'[i] = tasks[i]
           \/ i = Len(tasks) + 1 /\ tasks'[i] = k
      /\ Len(tasks) \in Nat
  BY <1>2, AppendIs DEF Base, Types
<1>4. timers[1] \in TimerSet /\ \A i \in 1..Len(tasks) : tasks[i] \in TaskSet
  BY <1>2 DEF TimerSet, TaskSet
<1>5. ASSUME NEW i \in 1..Len(timers'), NEW j \in 1..Len(timers'), i <= j
      PROVE  timers'[i].first.session <= timers'[j].first.session
  <2>1. i + 1 <= j + 1
    BY <1>1, <1>5
  <2> QED BY <1>1, <2>1 DEF InOrder
<1>6. k.first.session <= k.first.session
  BY <1>2 DEF InOrder
<1>7. ASSUME NEW i \in 1..Len(tasks'), NEW j \in 1..Len(tasks'), i <= j
      PROVE  tasks'[i].first.session <= tasks'[j].first.session
  <2>1. CASE j = Len(tasks) + 1
    <3>1. tasks'[j] = k
      BY <1>3, <2>1
    <3> QED BY <1>2, <1>3, <1>4, <1>6, <3>1 DEF InOrder
  <2>2. CASE j \in 1..Len(tasks)
    <3>1. i \in 1..Len(tasks) /\ i # Len(tasks) + 1 /\ j # Len(tasks) + 1
      BY <1>3, <1>7, <2>2
    <3> QED BY <1>3, <1>7, <2>2, <3>1 DEF InOrder
  <2> QED BY <1>3, <2>1, <2>2
<1>8. ASSUME NEW x \in TimerSet', NEW y \in TaskSet'
      PROVE  y.first.session <= x.first.session
  <2>1. PICK i \in 1..Len(timers') : x.first = timers[i + 1].first
    BY <1>1 DEF TimerSet
  <2>2. y \in TaskSet \/ y.first = timers[1].first
    BY <1>2, <1>3 DEF TaskSet
  <2>3. timers[i + 1] \in TimerSet
    BY <1>1 DEF TimerSet
  <2>4. timers[1].first.session <= timers[i + 1].first.session
    BY <1>1, <1>2 DEF InOrder
  <2> QED BY <2>1, <2>2, <2>3, <2>4 DEF InOrder
<1>9. FirstsKept
  <2>1. \A x \in TimerSet' : \E y \in TimerSet : x.first = y.first
    BY <1>1 DEF TimerSet
  <2>2. \A y \in TaskSet' : y \in TaskSet \/ y.first = timers[1].first
    BY <1>2, <1>3 DEF TaskSet
  <2> QED BY <1>4, <2>1, <2>2 DEF FirstsKept, TimerFires
<1> QED BY <1>5, <1>7, <1>8, <1>9 DEF InOrder

LEMMA InOrderStep ==
  ASSUME Base, Asked, InOrder, [Next]_vars
  PROVE  InOrder' /\ (session' = session => FirstsKept)
<1>1. ASSUME timers' = timers, tasks' = tasks
      PROVE  InOrder' /\ (session' = session => FirstsKept)
  BY <1>1 DEF InOrder, FirstsKept, TimerSet, TaskSet
<1>2. CASE TimerFires
  BY <1>2, TimerFiresInOrder
<1>3. CASE PushRuns \/ PullRuns
  BY <1>3, TailInOrder DEF PushRuns, PullRuns, Runs
<1>4. CASE CloseRuns
  BY <1>4, TailInOrder DEF CloseRuns
<1>5. ASSUME NEW t \in Streams, Asks(t)
      PROVE  InOrder' /\ FirstsKept
  <2>1. PICK e \in Entries :
          /\ e = Latest(t) /\ Adds(timers, timers', Kind(t), e)
          /\ e.session = session /\ tasks' = tasks /\ session' = session
    BY <1>5, AsksIs DEF Asks, Latest
  <2>2. \E kind : Adds(timers, timers', kind, e)
    BY <2>1
  <2> QED BY <2>1, <2>2, AddsInOrder
<1>6. ASSUME NEW a \in answers, Answered(a)
      PROVE  InOrder' /\ FirstsKept
  <2>1. /\ tasks' = tasks /\ session' = session /\ a.entry \in Entries
        /\ CloseTrack(a.entry) \/ timers' = timers
    BY <1>6, SetTypes DEF Answered, TrackNeverComes, StaleFound, Base
  <2> QED BY <1>1, <2>1, ClosesInOrder
<1>7. ASSUME NEW t \in Streams, Unsubscribe(t)
      PROVE  InOrder' /\ FirstsKept
  <2>1. /\ tasks' = tasks /\ session' = session /\ Latest(t) \in Entries
        /\ CloseTrack(Latest(t)) \/ timers' = timers
    BY <1>7, UnsubscribeIs, LatestType DEF Base
  <2> QED BY <1>1, <2>1, ClosesInOrder
<1>8. ASSUME NEW t \in Streams, Push(t) \/ Pull(t) \/ Retries(t) \/ DataSent(t)
      PROVE  InOrder' /\ (session' = session => FirstsKept)
  BY <1>1, <1>8 DEF Push, Pull, Retries, DataSent, requestVars
<1>9. CASE NewSession \/ PcConnects \/ PcDisconnects \/ SessionLost \/ UNCHANGED vars
  BY <1>1, <1>9 DEF NewSession, PcConnects, PcDisconnects, SessionLost, vars, requestVars
<1> QED BY <1>2, <1>3, <1>4, <1>5, <1>6, <1>7, <1>8, <1>9 DEF Next, Turn, Streams

-----------------------------------------------------------------------------
(* A session that has begun carrying media has no older request before it.  *)

Carrying == {"connecting", "connected", "disconnected"}

OfSession == \A x \in TimerSet \cup TaskSet : x.first.session = session

Fresh ==
  /\ pc \in Carrying => OfSession
  /\ pc \in {"none", "closed"} => sfu = {}
  /\ pc = "new" => sfu \subseteq abandoned

LEMMA OfSessionStays == OfSession /\ FirstsKept => OfSession'
  BY DEF OfSession, FirstsKept

LEMMA RunsFresh ==
  ASSUME Base, Asked, InOrder, Fresh, FirstsKept, NEW kind \in {"push", "pull"}, Runs(kind)
  PROVE  Fresh'
<1>1. PICK k \in Tasks : k = Head(tasks)
  BY RunsBase
<1>2. /\ \/ Refused(k) \/ (~Gone(k) /\ Unsettled(k))
         \/ \E listed, served : Lists(k, listed, served)
      /\ timers' = timers /\ session' = session /\ tasks # <<>> /\ tasks' = Tail(tasks)
  BY <1>1, RunsIs DEF Runs
<1>3. CASE Refused(k)
  BY <1>2, <1>3, OfSessionStays DEF Refused, Fresh
<1>4. CASE ~Gone(k) /\ Unsettled(k)
  <2>1. pc' = pc /\ pc \in Usable /\ sfu' \ abandoned' \subseteq sfu \ abandoned
    BY <1>4 DEF Unsettled, Gone
  <2> QED BY <1>2, <2>1, OfSessionStays DEF Fresh, Usable
<1>5. ASSUME NEW listed, NEW served, Lists(k, listed, served)
      PROVE  Fresh'
  <2>1. k.first.session = session /\ pc \in Usable
    BY <1>5 DEF Lists, Gone
  <2>2. CASE pc' = pc /\ served = {}
    <3>1. sfu' = sfu /\ abandoned \subseteq abandoned'
      BY <1>5, <2>2 DEF Lists, Listed
    <3> QED BY <1>2, <2>1, <2>2, <3>1, OfSessionStays DEF Fresh, Usable
  <2>3. OfSession
    <3>1. /\ 1 \in 1..Len(tasks) /\ k = tasks[1] /\ Len(tasks) \in Nat
      BY <1>1, <1>2, TailIs DEF Base, Types
    <3>2. \A i \in 1..Len(tasks) : session <= tasks[i].first.session
      BY <2>1, <3>1 DEF InOrder
    <3>3. k \in TaskSet
      BY <3>1 DEF TaskSet
    <3>4. \A x \in TimerSet \cup TaskSet : session <= x.first.session
      BY <2>1, <3>2, <3>3 DEF InOrder, TaskSet
    <3> QED BY <3>4, FirstIsMade DEF OfSession
  <2>4. CASE pc' = (IF pc = "new" THEN "connecting" ELSE pc)
    <3>1. pc' \in Carrying
      BY <2>1, <2>4 DEF Usable, Carrying
    <3> QED BY <2>3, <3>1, OfSessionStays DEF Fresh, Carrying
  <2> QED BY <1>5, <2>2, <2>4 DEF Lists
<1> QED BY <1>2, <1>3, <1>4, <1>5

LEMMA FreshStep ==
  ASSUME Base, Asked, InOrder, Fresh, [Next]_vars
  PROVE  Fresh'
<1>1. session' = session => FirstsKept
  BY InOrderStep
<1>2. ASSUME session' = session, pc' = pc \/ (pc \in Carrying /\ pc' \in Carrying),
             sfu' \subseteq sfu, abandoned \subseteq abandoned'
      PROVE  Fresh'
  BY <1>1, <1>2, OfSessionStays DEF Fresh, Carrying
<1>3. ASSUME NEW kind \in {"push", "pull"}, Runs(kind)
      PROVE  Fresh'
  BY <1>1, <1>3, RunsFresh DEF Runs
<1>4. CASE TimerFires \/ CloseRuns
  BY <1>2, <1>4 DEF TimerFires, CloseRuns, sfuVars
<1>5. ASSUME NEW t \in Streams, Asks(t)
      PROVE  Fresh'
  BY <1>2, <1>5 DEF Asks, sfuVars
<1>6. ASSUME NEW a \in answers, Answered(a)
      PROVE  Fresh'
  <2>1. UNCHANGED <<session, pc, sfu>> /\ abandoned \subseteq abandoned'
    BY <1>6 DEF Answered, TrackNeverComes, StaleFound, CloseTrack
  <2> QED BY <1>2, <2>1
<1>7. ASSUME NEW t \in Streams, Unsubscribe(t)
      PROVE  Fresh'
  <2>1. CASE pc' = "none" /\ sfu' = {}
    BY <2>1 DEF Fresh, Carrying
  <2>2. CASE UNCHANGED <<pc, sfu>> /\ abandoned \subseteq abandoned'
    BY <1>2, <1>7, <2>2, UnsubscribeIs
  <2> QED BY <1>7, <2>1, <2>2, UnsubscribeIs DEF CloseTrack
<1>8. ASSUME NEW t \in Streams, Push(t) \/ Pull(t) \/ Retries(t) \/ DataSent(t)
      PROVE  Fresh'
  BY <1>2, <1>8 DEF Push, Pull, Retries, DataSent, sfuVars
<1>9. CASE NewSession
  <2>1. pc' = "new" /\ sfu' = sfu /\ sfu = {}
    BY <1>9 DEF NewSession, Fresh, sfuVars
  <2> QED BY <2>1 DEF Fresh, Carrying
<1>10. CASE PcConnects \/ PcDisconnects
  BY <1>2, <1>10 DEF PcConnects, PcDisconnects, Carrying, sfuVars
<1>11. CASE SessionLost
  BY <1>11 DEF SessionLost, Fresh, Carrying
<1>12. CASE UNCHANGED vars
  BY <1>2, <1>12 DEF vars, sfuVars
<1> QED BY <1>3, <1>4, <1>5, <1>6, <1>7, <1>8, <1>9, <1>10, <1>11, <1>12
        DEF Next, Turn, Streams, PushRuns, PullRuns

-----------------------------------------------------------------------------
(* Everything the SFU holds is accounted for.                               *)

ToClose(e) ==
  \/ \E x \in TimerSet : x.kind = "close" /\ e \in x.batch
  \/ \E k \in TaskSet : k.kind = "close" /\ e \in k.carried

Mine(e) == e = Latest(e.stream) /\ phase[e.stream] \in {"sending", "live"}

Accounted ==
  \A e \in sfu \ abandoned :
    \/ Mine(e) \/ ToClose(e)
    \/ \E a \in answers : a.entry = e /\ a.result = "found"

LEMMA ToCloseIsClosing ==
  ASSUME Base, NEW e
  PROVE  ToClose(e) <=> Closing(e)
<1>1. DOMAIN timers = 1..Len(timers) /\ DOMAIN tasks = 1..Len(tasks)
  BY DEF Base, Types
<1> QED BY <1>1 DEF ToClose, Closing, TimerSet, TaskSet

\* No batch that is to be closed is dropped or shortened.
ClosingKept ==
  /\ \A x \in TimerSet : x.kind = "close" =>
       \/ \E y \in TimerSet' : y.kind = "close" /\ x.batch \subseteq y.batch
       \/ \E k \in TaskSet' : k.kind = "close" /\ x.batch \subseteq k.carried
  /\ \A k \in TaskSet : k.kind = "close" => k \in TaskSet'

LEMMA ToCloseStays ==
  ASSUME ClosingKept, NEW e, ToClose(e)
  PROVE  ToClose(e)'
  BY DEF ClosingKept, ToClose

LEMMA AddsClosingKept ==
  ASSUME NEW kind, NEW e, Adds(timers, timers', kind, e), tasks' = tasks
  PROVE  ClosingKept /\ (kind = "close" => ToClose(e)')
<1>1. TaskSet' = TaskSet
  BY DEF TaskSet
<1>2. \A x \in TimerSet : \E y \in TimerSet' : y.kind = x.kind /\ x.batch \subseteq y.batch
  BY DEF Adds, Extends, TimerSet
<1>3. \E y \in TimerSet' : y.kind = kind /\ e \in y.batch
  BY DEF Adds, TimerSet
<1> QED BY <1>1, <1>2, <1>3 DEF ClosingKept, ToClose

LEMMA CloseTrackCloses ==
  ASSUME Base, NEW e \in Entries, CloseTrack(e), tasks' = tasks, sfu' = sfu
  PROVE  /\ ClosingKept /\ abandoned \subseteq abandoned'
         /\ e \in sfu => ToClose(e)' \/ e \in abandoned'
<1>1. CASE /\ timers' = DoBulkRequest(timers, "close", e)
           /\ abandoned' = abandoned
  <2>1. "close" \in Kinds /\ timers \in Seq(Timers) /\ Joins(timers)
    BY DEF Kinds, Base, Types
  <2>2. Adds(timers, timers', "close", e)
    BY <1>1, <2>1, DoBulkRequestAdds
  <2>3. ClosingKept /\ ToClose(e)'
    BY <2>2, AddsClosingKept
  <2> QED BY <1>1, <2>3
<1>2. CASE timers' = timers /\ abandoned' = abandoned \cup ({e} \cap sfu)
  BY <1>2 DEF ClosingKept, TimerSet, TaskSet
<1> QED BY <1>1, <1>2 DEF CloseTrack

LEMMA TimerFiresClosingKept ==
  ASSUME Base, TimerFires
  PROVE  ClosingKept
<1>1. PICK k \in Tasks :
        /\ tasks' = Append(tasks, k) /\ k.kind = timers[1].kind
        /\ k.carried = timers[1].batch
  BY TimerFiresBase
<1>2. TaskSet \subseteq TaskSet' /\ k \in TaskSet'
  BY <1>1, AppendIs DEF TaskSet, Base, Types
<1>3. ASSUME NEW x \in TimerSet
      PROVE  \/ \E y \in TimerSet' : y.kind = x.kind /\ x.batch = y.batch
             \/ x.kind = k.kind /\ x.batch = k.carried
  <2>1. PICK i \in 1..Len(timers) : x = timers[i]
    BY DEF TimerSet
  <2>2. CASE i = 1
    BY <1>1, <2>1, <2>2
  <2>3. CASE i # 1
    <3>1. PICK j \in 1..Len(timers') : j + 1 = i
      <4>1. Len(timers') = Len(timers) - 1 /\ Len(timers) \in Nat
        BY TimerFiresBase
      <4>2. i - 1 \in 1..Len(timers') /\ (i - 1) + 1 = i
        BY <2>3, <4>1
      <4> QED BY <4>2
    <3>2. timers'[j].kind = x.kind /\ timers'[j].batch = x.batch
      BY <2>1, <3>1, TimerFiresBase
    <3> QED BY <3>2 DEF TimerSet
  <2> QED BY <2>2, <2>3
<1> QED BY <1>2, <1>3 DEF ClosingKept

\* The tasks left once the head has run.
LEMMA TailKeeps ==
  ASSUME Base, tasks # <<>>, tasks' = Tail(tasks)
  PROVE  \A k \in TaskSet : k = Head(tasks) \/ k \in TaskSet'
<1>1. /\ Len(tasks) \in Nat /\ Len(tasks') = Len(tasks) - 1 /\ Head(tasks) = tasks[1]
      /\ \A i \in 1..Len(tasks') : tasks'[i] = tasks[i + 1]
  BY TailIs DEF Base, Types
<1>2. ASSUME NEW i \in 1..Len(tasks)
      PROVE  tasks[i] = Head(tasks) \/ tasks[i] \in TaskSet'
  <2>1. CASE i = 1
    BY <1>1, <2>1
  <2>2. CASE i # 1
    <3>1. i - 1 \in 1..Len(tasks') /\ (i - 1) + 1 = i
      BY <1>1, <2>2
    <3>2. tasks[i] = tasks'[i - 1]
      BY <1>1, <3>1
    <3> QED BY <3>1, <3>2 DEF TaskSet
  <2> QED BY <2>1, <2>2
<1> QED BY <1>2 DEF TaskSet

\* A step that takes nothing over and gives nothing up.
LEMMA AccountedKept ==
  ASSUME Accounted, ClosingKept, sfu' \subseteq sfu, abandoned \subseteq abandoned',
         answers' = answers, \A e \in sfu : Mine(e) => Mine(e)'
  PROVE  Accounted'
BY ToCloseStays DEF Accounted

LEMMA RunsAccounted ==
  ASSUME Base, Asked, Accounted, NEW kind \in {"push", "pull"}, Runs(kind)
  PROVE  Accounted'
<1>1. PICK k \in TaskSet : k = Head(tasks) /\ k.kind = kind
  BY RunsBase, TailIs DEF TaskSet
<1>2. /\ Refused(k) \/ (\E listed, served : Lists(k, listed, served)) \/ Unsettled(k)
      /\ answers = {} /\ timers' = timers /\ tasks # <<>> /\ tasks' = Tail(tasks)
      /\ phase' = phase /\ n' = n /\ session' = session
  BY <1>1, RunsIs DEF Runs, Quiet, streamVars
<1>3. ClosingKept
  <2>1. \A x \in TaskSet : x.kind = "close" => x \in TaskSet'
    BY <1>1, <1>2, TailKeeps
  <2> QED BY <1>2, <2>1 DEF ClosingKept, TimerSet
<1>5. \A e : Mine(e)' <=> Mine(e)
  BY <1>2 DEF Mine, Latest
<1>6. \A e \in sfu \ abandoned : Mine(e)' \/ ToClose(e)'
  BY <1>2, <1>3, <1>5, ToCloseStays DEF Accounted
<1>7. CASE Refused(k) \/ Unsettled(k)
  <2>1. sfu' \ abandoned' \subseteq sfu \ abandoned
    BY <1>7 DEF Refused, Unsettled
  <2> QED BY <1>6, <2>1 DEF Accounted
<1>8. ASSUME NEW listed, NEW served, Lists(k, listed, served)
      PROVE  Accounted'
  <2>1. /\ sfu' = sfu \cup served /\ Tell(k, listed, "missing") /\ served \subseteq listed
        /\ abandoned' = abandoned \cup (served \ k.waiters)
    BY <1>8 DEF Lists, Listed
  <2>2. ASSUME NEW e \in served \cap k.waiters
        PROVE  \E a \in answers' : a.entry = e /\ a.result = "found"
    <3>1. PICK a : a = [kind |-> k.kind, entry |-> e, result |-> "found"]
      OBVIOUS
    <3>2. a \in answers'
      BY <2>1, <3>1 DEF Tell
    <3> QED BY <3>1, <3>2
  <2> QED BY <1>6, <2>1, <2>2 DEF Accounted
<1> QED BY <1>2, <1>7, <1>8

\* The connection of a close request is gone only once the SFU's session is.
LEMMA CloseRunsAccounted ==
  ASSUME Base, Fresh, Accounted, CloseRuns
  PROVE  Accounted'
<1>1. PICK k \in TaskSet : k = Head(tasks)
  BY CloseRunsBase, TailIs DEF TaskSet
<1>2. /\ k.kind = "close" /\ answers = {} /\ timers' = timers
      /\ tasks # <<>> /\ tasks' = Tail(tasks)
      /\ phase' = phase /\ n' = n /\ session' = session
      /\ sfu' \subseteq sfu /\ abandoned \subseteq abandoned'
      /\ Gone(k) \/ sfu' = sfu \ k.carried \/ k.carried \subseteq abandoned'
  BY <1>1 DEF CloseRuns, Quiet, streamVars, sfuVars
<1>3. \A e \in k.carried : e \notin sfu' \ abandoned'
  <2>1. CASE Gone(k)
    <3>1. pc \notin Carrying
      BY <1>1, <2>1 DEF Gone, Fresh, OfSession, Carrying, Usable
    <3>2. sfu \subseteq abandoned
      BY <3>1 DEF Fresh, Carrying, Base, Types, Usable
    <3> QED BY <1>2, <3>2
  <2> QED BY <1>2, <2>1
<1>4. \A x \in TimerSet : x \in TimerSet'
  BY <1>2 DEF TimerSet
<1>5. \A x \in TaskSet : x = k \/ x \in TaskSet'
  BY <1>1, <1>2, TailKeeps
<1>6. ASSUME NEW e \in sfu' \ abandoned'
      PROVE  Mine(e)' \/ ToClose(e)'
  <2>1. Mine(e) \/ ToClose(e)
    BY <1>2, <1>6 DEF Accounted
  <2>2. CASE Mine(e)
    BY <1>2, <2>2 DEF Mine, Latest
  <2>3. CASE ToClose(e)
    BY <1>3, <1>4, <1>5, <1>6, <2>3 DEF ToClose
  <2> QED BY <2>1, <2>2, <2>3
<1> QED BY <1>6 DEF Accounted

LEMMA AnsweredAccounted ==
  ASSUME Base, Accounted, NEW a \in answers, Answered(a)
  PROVE  Accounted'
<1>1. PICK e \in Entries : e = a.entry /\ e.stream \in Streams
  BY SetTypes DEF Base, Entries
<1>2. /\ answers' = answers \ {a} /\ UNCHANGED <<session, pc, n, tasks, sfu, stopped>>
  BY DEF Answered
<1>3. /\ ClosingKept /\ abandoned \subseteq abandoned'
      /\ a.result = "found" => Mine(e)' \/ ToClose(e)' \/ e \in abandoned' \/ e \notin sfu
  <2>1. CASE timers' = timers /\ Waits(e)
    <3>1. abandoned \subseteq abandoned'
      BY <2>1 DEF Answered, TrackNeverComes, StaleFound, CloseTrack
    <3>2. ClosingKept
      BY <1>2, <2>1 DEF ClosingKept, TimerSet, TaskSet
    <3>3. ASSUME a.result = "found", e \notin abandoned'
          PROVE  Mine(e)'
      <4>1. phase' = [phase EXCEPT ![e.stream] = AfterFound(e)]
        BY <1>1, <2>1, <3>3 DEF Answered, TrackNeverComes
      <4>2. phase'[e.stream] \in {"sending", "live"}
        BY <1>1, <4>1 DEF AfterFound, Base, Types
      <4> QED BY <1>2, <2>1, <4>2 DEF Mine, Waits, Latest
    <3> QED BY <3>1, <3>2, <3>3
  <2>2. CASE CloseTrack(e) /\ ~Waits(e)
    BY <1>2, <2>2, CloseTrackCloses
  <2>3. CASE UNCHANGED <<timers, abandoned>> /\ ~Waits(e) /\ a.result # "found"
    BY <1>2, <2>3 DEF ClosingKept, TimerSet, TaskSet
  <2> QED BY <1>1, <2>1, <2>2, <2>3 DEF Answered, TrackNeverComes, StaleFound
<1>4. ASSUME NEW d \in sfu, Mine(d)
      PROVE  Mine(d)'
  <2>1. phase' = phase \/ (Waits(e) /\ \E p \in Phases : phase' = [phase EXCEPT ![e.stream] = p])
    BY <1>1 DEF Answered, TrackNeverComes, AfterFound, AfterRejection, Phases
  <2>2. d.stream \in DOMAIN phase
    BY SetTypes DEF Base, Types, Entries
  <2>3. phase'[d.stream] = phase[d.stream]
    BY <1>4, <2>1, <2>2 DEF Waits, Mine
  <2> QED BY <1>2, <1>4, <2>3 DEF Mine, Latest
<1>5. ASSUME NEW d \in sfu' \ abandoned'
      PROVE  \/ Mine(d)' \/ ToClose(d)'
             \/ \E b \in answers' : b.entry = d /\ b.result = "found"
  <2>1. d \in sfu \ abandoned
    BY <1>2, <1>3, <1>5
  <2>2. CASE Mine(d) \/ ToClose(d)
    BY <1>3, <1>4, <2>1, <2>2, ToCloseStays
  <2>3. ASSUME NEW b \in answers, b.entry = d, b.result = "found"
        PROVE  \/ Mine(d)' \/ ToClose(d)'
               \/ \E c \in answers' : c.entry = d /\ c.result = "found"
    <3>1. CASE b = a
      BY <1>1, <1>3, <1>5, <2>1, <2>3, <3>1
    <3>2. CASE b # a
      BY <1>2, <2>3, <3>2
    <3> QED BY <3>1, <3>2
  <2> QED BY <2>1, <2>2, <2>3 DEF Accounted
<1> QED BY <1>5 DEF Accounted

LEMMA UnsubscribeAccounted ==
  ASSUME Base, Accounted, NEW t \in Streams, Unsubscribe(t)
  PROVE  Accounted'
<1>1. PICK e \in Entries : e = Latest(t) /\ e.stream = t
  BY LatestType DEF Base, Latest
<1>2. /\ phase' = [phase EXCEPT ![t] = "off"] /\ UNCHANGED <<session, n, tasks, answers>>
      /\ answers = {}
  BY UnsubscribeIs DEF Unsubscribe, Quiet
<1>3. phase \in [Streams -> Phases] /\ \A d \in sfu : d.stream \in Streams
  BY SetTypes DEF Base, Types, Entries
<1>4. \A d \in sfu : Mine(d) => Mine(d)' \/ (d = e /\ phase[t] \in {"sending", "live"})
  BY <1>1, <1>2, <1>3 DEF Mine, Latest
<1>5. CASE sfu' = {}
  BY <1>5 DEF Accounted
<1>6. CASE UNCHANGED <<timers, abandoned, sfu>> /\ phase[t] \notin {"sending", "live"}
  BY <1>2, <1>4, <1>6, AccountedKept DEF ClosingKept, TimerSet, TaskSet
<1>7. CASE CloseTrack(e) /\ sfu' = sfu
  <2>1. ClosingKept /\ abandoned \subseteq abandoned' /\ (e \in sfu => ToClose(e)' \/ e \in abandoned')
    BY <1>2, <1>7, CloseTrackCloses
  <2>2. ASSUME NEW d \in sfu' \ abandoned'
        PROVE  Mine(d)' \/ ToClose(d)'
    BY <1>2, <1>4, <1>7, <2>1, <2>2, ToCloseStays DEF Accounted
  <2> QED BY <2>2 DEF Accounted
<1> QED BY <1>1, <1>5, <1>6, <1>7, UnsubscribeIs

LEMMA AccountedStep ==
  ASSUME Base, Asked, Fresh, Accounted, [Next]_vars
  PROVE  Accounted'
<1>0. /\ phase \in [Streams -> Phases] /\ n \in [Streams -> Nat]
      /\ \A d \in sfu : d.stream \in Streams
  BY SetTypes DEF Base, Types, Entries
<1>1. ASSUME timers' = timers, tasks' = tasks
      PROVE  ClosingKept
  BY <1>1 DEF ClosingKept, TimerSet, TaskSet
<1>2. ASSUME NEW t \in Streams, phase[t] \notin {"sending", "live"},
             \A u \in Streams \ {t} : phase'[u] = phase[u] /\ n'[u] = n[u],
             ClosingKept, UNCHANGED <<session, answers, sfu, abandoned>>
      PROVE  Accounted'
  <2>1. \A e \in sfu : Mine(e) => Mine(e)'
    BY <1>0, <1>2 DEF Mine, Latest
  <2> QED BY <1>2, <2>1, AccountedKept
<1>3. ASSUME ClosingKept, UNCHANGED <<session, phase, n, answers, sfu, abandoned>>
      PROVE  Accounted'
  <2>1. \A e \in sfu : Mine(e) => Mine(e)'
    BY <1>3 DEF Mine, Latest
  <2> QED BY <1>3, <2>1, AccountedKept
<1>4. ASSUME NEW t \in Streams, Push(t) \/ Pull(t)
      PROVE  Accounted'
  <2>1. /\ UNCHANGED <<session, timers, tasks, answers, sfu, abandoned>>
        /\ phase[t] \notin {"sending", "live"}
        /\ Starts(t) \/ (phase' = [phase EXCEPT ![t] = "errored"] /\ n' = n)
    BY <1>4 DEF Push, Pull, On, requestVars, sfuVars
  <2>2. \A u \in Streams \ {t} : phase'[u] = phase[u] /\ n'[u] = n[u]
    BY <1>0, <2>1, StartsIs DEF Base
  <2> QED BY <1>1, <1>2, <2>1, <2>2
<1>5. ASSUME NEW t \in Streams, Unsubscribe(t)
      PROVE  Accounted'
  BY <1>5, UnsubscribeAccounted
<1>6. ASSUME NEW t \in Streams, Retries(t)
      PROVE  Accounted'
  <2>1. /\ UNCHANGED <<session, timers, tasks, answers, sfu, abandoned>>
        /\ phase[t] \notin {"sending", "live"}
        /\ phase' = [phase EXCEPT ![t] = "due"]
        /\ n' = n \/ n' = [n EXCEPT ![t] = @ + 1]
    BY <1>6 DEF Retries, requestVars, sfuVars
  <2>2. \A u \in Streams \ {t} : phase'[u] = phase[u] /\ n'[u] = n[u]
    BY <1>0, <2>1
  <2> QED BY <1>1, <1>2, <2>1, <2>2
<1>7. ASSUME NEW t \in Streams, DataSent(t)
      PROVE  Accounted'
  <2>1. /\ UNCHANGED <<session, n, timers, tasks, answers, sfu, abandoned>>
        /\ phase' = [phase EXCEPT ![t] = "live"] /\ phase[t] = "sending"
    BY <1>7 DEF DataSent, requestVars, sfuVars
  <2>2. \A e \in sfu : Mine(e) => Mine(e)'
    BY <1>0, <2>1 DEF Mine, Latest
  <2> QED BY <1>1, <2>1, <2>2, AccountedKept
<1>8. ASSUME NEW t \in Streams, Asks(t)
      PROVE  Accounted'
  <2>1. PICK e \in Entries : Adds(timers, timers', Kind(t), e)
    BY <1>8, AsksIs
  <2>2. /\ UNCHANGED <<session, n, tasks, answers, sfu, abandoned>>
        /\ phase' = [phase EXCEPT ![t] = "asked"] /\ phase[t] = "due"
    BY <1>8 DEF Asks, sfuVars
  <2>3. ClosingKept
    BY <2>1, <2>2, AddsClosingKept
  <2> QED BY <1>0, <1>2, <2>2, <2>3
<1>9. ASSUME NEW a \in answers, Answered(a)
      PROVE  Accounted'
  BY <1>9, AnsweredAccounted
<1>10. CASE TimerFires
  BY <1>3, <1>10, TimerFiresClosingKept DEF TimerFires, streamVars, sfuVars
<1>11. CASE PushRuns \/ PullRuns
  BY <1>11, RunsAccounted DEF PushRuns, PullRuns
<1>12. CASE CloseRuns
  BY <1>12, CloseRunsAccounted
<1>13. CASE NewSession
  <2>1. sfu' = {}
    BY <1>13 DEF NewSession, Fresh, sfuVars
  <2> QED BY <2>1 DEF Accounted
<1>14. CASE PcConnects \/ PcDisconnects
  BY <1>1, <1>3, <1>14 DEF PcConnects, PcDisconnects, streamVars, requestVars, sfuVars
<1>15. CASE SessionLost
  BY <1>15 DEF SessionLost, Accounted
<1>16. CASE UNCHANGED vars
  BY <1>1, <1>3, <1>16 DEF vars, streamVars, requestVars, sfuVars
<1> QED BY <1>4, <1>5, <1>6, <1>7, <1>8, <1>9, <1>10, <1>11, <1>12, <1>13, <1>14,
           <1>15, <1>16 DEF Next, Turn, Streams

LEMMA TidyInit == Init => InOrder /\ Fresh /\ Accounted
  BY DEF Init, InOrder, Fresh, Accounted, Carrying, OfSession, TimerSet, TaskSet

(* The SFU holds no track that nobody asked to keep: what it holds is the   *)
(* latest of a stream that is on, waits for its close, or was given up      *)
(* where the code gives up without a close, through full batches, late      *)
(* answers, lost sessions and closes.                                       *)
THEOREM NothingIsLeaked == Spec => []NothingLeaks
<1>1. Base /\ Accounted => NothingLeaks
  <2> SUFFICES ASSUME Base, Accounted, Quiet, NEW e \in sfu \ abandoned
               PROVE  (On(e.stream) /\ e = Latest(e.stream)) \/ Closing(e)
    BY DEF NothingLeaks
  <2>1. Mine(e) \/ ToClose(e)
    BY DEF Accounted, Quiet
  <2> QED BY <2>1, ToCloseIsClosing DEF Mine, On
<1>2. /\ Sound /\ InOrder /\ Fresh /\ Accounted /\ [Next]_vars
        => InOrder' /\ Fresh' /\ Accounted'
  BY InOrderStep, FreshStep, AccountedStep DEF Sound
<1>3. Spec => []Sound
  BY SoundInit, SoundStep, PTL DEF Spec
<1>4. Sound => Base
  BY DEF Sound
<1>5. Spec => [](InOrder /\ Fresh /\ Accounted)
  BY <1>2, <1>3, TidyInit, PTL DEF Spec
<1> QED BY <1>1, <1>3, <1>4, <1>5, PTL
=============================================================================
