------------------------- MODULE SurfaceMirrorProofs -------------------------
(***************************************************************************)
(* Proofs about SurfaceMirror, for every set of keys and every bound: a    *)
(* key that the server never removed does not leave the mirror's cache;    *)
(* when nothing is in flight, the cache is the collection; no value of a   *)
(* key is ever followed by an older one; the types.                        *)
(***************************************************************************)
EXTENDS SurfaceMirror, SequenceTheorems, TLAPS

-----------------------------------------------------------------------------
(* Maps.                                                                   *)

Marks == Values \cup {Removal}

LEMMA InMaps ==
  ASSUME NEW S, NEW T, NEW f
  PROVE  f \in Maps(S, T) <=> DOMAIN f \subseteq S /\ f \in [DOMAIN f -> T]
BY DEF Maps

LEMMA OverIs ==
  ASSUME NEW f, NEW g
  PROVE  /\ DOMAIN Over(f, g) = DOMAIN f \cup DOMAIN g
         /\ \A k \in DOMAIN f : Over(f, g)[k] = f[k]
         /\ \A k \in DOMAIN g \ DOMAIN f : Over(f, g)[k] = g[k]
BY DEF Over

LEMMA OverMaps ==
  ASSUME NEW S, NEW T, NEW f \in Maps(S, T), NEW g \in Maps(S, T)
  PROVE  Over(f, g) \in Maps(S, T)
<1>1. /\ DOMAIN f \subseteq S /\ f \in [DOMAIN f -> T]
      /\ DOMAIN g \subseteq S /\ g \in [DOMAIN g -> T]
  BY InMaps
<1>2. Over(f, g) \in [DOMAIN f \cup DOMAIN g -> T]
  BY <1>1 DEF Over
<1>. QED  BY <1>1, <1>2, OverIs, InMaps

LEMMA WithoutMaps ==
  ASSUME NEW S, NEW T, NEW f \in Maps(S, T), NEW R
  PROVE  Without(f, R) \in Maps(S, T) /\ DOMAIN Without(f, R) = DOMAIN f \ R
<1>1. DOMAIN f \subseteq S /\ f \in [DOMAIN f -> T]
  BY InMaps
<1>2. Without(f, R) \in [DOMAIN f \ R -> T] /\ DOMAIN Without(f, R) = DOMAIN f \ R
  BY <1>1 DEF Without
<1>. QED  BY <1>1, <1>2, InMaps

LEMMA OneIs ==
  ASSUME NEW k, NEW v
  PROVE  DOMAIN One(k, v) = {k} /\ One(k, v)[k] = v
BY DEF One

LEMMA OneMaps ==
  ASSUME NEW S, NEW T, NEW k \in S, NEW v \in T
  PROVE  One(k, v) \in Maps(S, T)
<1>1. One(k, v) \in [{k} -> T]
  BY DEF One
<1>. QED  BY <1>1, OneIs, InMaps

LEMMA EmptyMaps ==
  ASSUME NEW S, NEW T
  PROVE  Empty \in Maps(S, T) /\ DOMAIN Empty = {}
<1>1. Empty \in [{} -> T] /\ DOMAIN Empty = {}
  BY DEF Empty
<1>. QED  BY <1>1, InMaps

LEMMA WiderMaps ==
  ASSUME NEW f \in Maps(Keys, Values)
  PROVE  f \in Maps(Keys, Marks)
<1>1. DOMAIN f \subseteq Keys /\ f \in [DOMAIN f -> Values]
  BY InMaps
<1>2. f \in [DOMAIN f -> Marks]
  BY <1>1 DEF Marks
<1>. QED  BY <1>1, <1>2, InMaps

-----------------------------------------------------------------------------
(* Subscriptions.                                                          *)

Subscription(T) == [stage : Stages, frames : Seq(T)]

LEMMA SubscriptionTypes ==
  ASSUME NEW T
  PROVE  /\ Closed \in Subscription(T) /\ Requested \in Subscription(T)
         /\ Closed.frames = <<>> /\ Requested.frames = <<>>
         /\ Closed.stage = "closed" /\ Requested.stage = "requested"
BY DEF Subscription, Closed, Requested, Stages

LEMMA ServedType ==
  ASSUME NEW T, NEW s, NEW fs \in Seq(T)
  PROVE  /\ Served(s, fs) \in Subscription(T)
         /\ Served(s, fs).stage = "open" /\ Served(s, fs).frames = fs
BY DEF Subscription, Served, Stages

LEMMA PublishType ==
  ASSUME NEW T, NEW s \in Subscription(T), NEW f \in T
  PROVE  /\ Publish(s, f) \in Subscription(T)
         /\ Publish(s, f).stage = s.stage
         /\ \/ Publish(s, f).frames = s.frames
            \/ Publish(s, f).frames = Append(s.frames, f)
BY DEF Subscription, Publish

LEMMA RestType ==
  ASSUME NEW T, NEW s \in Subscription(T), s.frames # <<>>
  PROVE  /\ Rest(s) \in Subscription(T)
         /\ Rest(s).stage = s.stage /\ Rest(s).frames = Tail(s.frames)
BY DEF Subscription, Rest

-----------------------------------------------------------------------------
(* Types: TypeOK without the order of the keys, which only decides whether *)
(* a key set repeats the one before.                                       *)

Shape ==
  /\ protocol \in {"deltas", "keys"}
  /\ value \in Maps(Keys, Values) /\ writes \in 0 .. MaxWrites
  /\ pending \in Maps(Keys, Marks) /\ keysDue \in BOOLEAN
  /\ IF protocol = "keys" THEN pending = Empty ELSE ~keysDue
  /\ main \in Subscription(Frames(protocol))
  /\ get \in [Keys -> Subscription(Values)]
  /\ cache \in Maps(Keys, Values)
  /\ held \subseteq Keys /\ sweep \subseteq Keys /\ removed \subseteq Keys

\* What the frames of the main stream may be.
LEMMA FrameTypes ==
  /\ \A ops \in Maps(Keys, Values) : [kind |-> "snapshot", ops |-> ops] \in Frames("deltas")
  /\ \A ops \in Maps(Keys, Marks) : [kind |-> "delta", ops |-> ops] \in Frames("deltas")
  /\ \A S \in SUBSET Keys : [kind |-> "keys", keys |-> S] \in Frames("keys")
  /\ \A f \in Frames("deltas") : \/ f.kind = "snapshot" /\ f.ops \in Maps(Keys, Values)
                                 \/ f.kind = "delta" /\ f.ops \in Maps(Keys, Marks)
  /\ \A f \in Frames("keys") : f.kind = "keys" /\ f.keys \subseteq Keys
<1>. DEFINE M == Maps(Keys, Marks)
            V == Maps(Keys, Values)
<1>1. /\ Frames("deltas") = [kind : {"snapshot"}, ops : V] \cup [kind : {"delta"}, ops : M]
      /\ Frames("keys") = [kind : {"keys"}, keys : SUBSET Keys]
  BY DEF Frames, Marks
<1>. HIDE DEF M, V
<1>2. \A ops \in V : [kind |-> "snapshot", ops |-> ops] \in Frames("deltas")
  BY <1>1
<1>3. \A ops \in M : [kind |-> "delta", ops |-> ops] \in Frames("deltas")
  BY <1>1
<1>4. \A S \in SUBSET Keys : [kind |-> "keys", keys |-> S] \in Frames("keys")
  BY <1>1
<1>5. \A f \in Frames("deltas") : \/ f.kind = "snapshot" /\ f.ops \in V
                                  \/ f.kind = "delta" /\ f.ops \in M
  BY <1>1
<1>6. ASSUME NEW f \in Frames("keys") PROVE f.kind = "keys" /\ f.keys \subseteq Keys
  <2>1. f \in [kind : {"keys"}, keys : SUBSET Keys]
    BY <1>1
  <2>. QED  BY <2>1
<1>. QED  BY <1>2, <1>3, <1>4, <1>5, <1>6 DEF M, V

LEMMA ShapeInit == Init => Shape
<1>. SUFFICES ASSUME Init PROVE Shape
  OBVIOUS
<1>1. /\ value \in Maps(Keys, Values) /\ pending \in Maps(Keys, Marks)
      /\ cache \in Maps(Keys, Values)
  BY EmptyMaps DEF Init
<1>2. /\ main \in Subscription(Frames(protocol))
      /\ get \in [Keys -> Subscription(Values)]
  BY SubscriptionTypes DEF Init
<1>3. writes \in 0 .. MaxWrites
  BY SurfaceMirrorAssumption DEF Init
<1>4. /\ protocol \in {"deltas", "keys"} /\ keysDue \in BOOLEAN /\ pending = Empty /\ ~keysDue
      /\ held \subseteq Keys /\ sweep \subseteq Keys /\ removed \subseteq Keys
  BY DEF Init
<1>. QED  BY <1>1, <1>2, <1>3, <1>4, Zenon DEF Shape

\* Each of the two ways to read the head of a queue, and to write to the store.
LEMMA HeadType ==
  ASSUME NEW T, NEW fs \in Seq(T), fs # <<>>
  PROVE  Head(fs) \in T /\ Tail(fs) \in Seq(T)
OBVIOUS

LEMMA WriteShape ==
  ASSUME Shape, NEW k \in Keys, NEW op \in Marks, Write(k, op)
  PROVE  /\ writes' \in 0 .. MaxWrites
         /\ pending' \in Maps(Keys, Marks) /\ keysDue' \in BOOLEAN
         /\ IF protocol = "keys" THEN pending' = Empty ELSE ~keysDue'
         /\ main' = main /\ cache' = cache /\ held' = held /\ sweep' = sweep
         /\ protocol' = protocol
         /\ \A j \in DOMAIN pending' : \/ j = k /\ pending'[j] = op
                                       \/ j \in DOMAIN pending /\ pending'[j] = pending[j]
<1>1. pending \in Maps(Keys, Marks) /\ One(k, op) \in Maps(Keys, Marks)
  BY OneMaps DEF Shape
<1>2. Over(One(k, op), pending) \in Maps(Keys, Marks)
  BY <1>1, OverMaps
<1>3. \A j \in DOMAIN Over(One(k, op), pending) :
        \/ j = k /\ Over(One(k, op), pending)[j] = op
        \/ j \in DOMAIN pending /\ Over(One(k, op), pending)[j] = pending[j]
  BY DEF Over, One
<1>4. CASE protocol = "deltas"
  BY <1>2, <1>3, <1>4, SurfaceMirrorAssumption DEF Write, Batched, mirror, Shape
<1>5. CASE protocol # "deltas"
  BY <1>5, SurfaceMirrorAssumption DEF Write, Batched, mirror, Shape
<1>. QED  BY <1>4, <1>5

LEMMA FoldTypes ==
  ASSUME Shape, NEW f \in Frames("deltas"),
         IF f.kind = "snapshot" THEN FoldSnapshot(f.ops) ELSE FoldDelta(f.ops)
  PROVE  cache' \in Maps(Keys, Values) /\ held' \subseteq Keys
<1>1. CASE f.kind = "snapshot"
  <2>1. f.ops \in Maps(Keys, Values) /\ DOMAIN f.ops \subseteq Keys
    BY <1>1, FrameTypes, InMaps
  <2>2. Without(cache, Departed(held, DOMAIN f.ops)) \in Maps(Keys, Values)
    BY WithoutMaps DEF Shape
  <2>3. /\ cache' = Over(f.ops, Without(cache, Departed(held, DOMAIN f.ops)))
        /\ held' = DOMAIN f.ops
    BY <1>1 DEF FoldSnapshot
  <2>. QED  BY <2>1, <2>2, <2>3, OverMaps
<1>2. CASE f.kind # "snapshot"
  <2>. DEFINE upserts == {k \in DOMAIN f.ops : f.ops[k] # Removal}
              removes == (held \cup upserts) \cap (DOMAIN f.ops \ upserts)
              news == [k \in upserts |-> f.ops[k]]
  <2>1. f.ops \in Maps(Keys, Marks)
    BY <1>2, FrameTypes
  <2>2. upserts \subseteq Keys /\ \A k \in upserts : f.ops[k] \in Values
    BY <2>1, InMaps DEF Marks
  <2>3. news \in Maps(Keys, Values)
    BY <2>2, InMaps
  <2>4. Without(cache, removes) \in Maps(Keys, Values)
    BY WithoutMaps DEF Shape
  <2>5. cache' = Over(news, Without(cache, removes)) /\ held' = (held \cup upserts) \ removes
    BY <1>2 DEF FoldDelta
  <2>. HIDE DEF news, removes
  <2>. QED  BY <2>2, <2>3, <2>4, <2>5, OverMaps DEF Shape
<1>. QED  BY <1>1, <1>2

LEMMA ShapeStep ==
  ASSUME Shape, Next \/ UNCHANGED vars
  PROVE  Shape'
<1>. USE DEF server, mirror
<1>1. CASE FlushDeltas
  <2>1. protocol = "deltas"
    BY <1>1 DEF FlushDeltas, Shape
  <2>2. [kind |-> "delta", ops |-> pending] \in Frames(protocol)
    BY <2>1, FrameTypes DEF Shape
  <2>3. main' \in Subscription(Frames(protocol)) /\ pending' \in Maps(Keys, Marks)
    BY <1>1, <2>2, PublishType, EmptyMaps DEF FlushDeltas, Shape
  <2>. QED  BY <1>1, <2>1, <2>3 DEF FlushDeltas, Shape
<1>2. CASE FlushKeys
  <2>1. protocol = "keys" /\ DOMAIN value \subseteq Keys
    BY <1>2, InMaps DEF FlushKeys, Shape
  <2>2. [kind |-> "keys", keys |-> DOMAIN value] \in Frames(protocol)
    BY <2>1, FrameTypes
  <2>3. main' \in Subscription(Frames(protocol))
    BY <1>2, <2>2, PublishType DEF FlushKeys, Shape
  <2>. QED  BY <1>2, <2>3 DEF FlushKeys, Shape
<1>3. CASE ServeMain
  <2>1. DOMAIN value \subseteq Keys
    BY InMaps DEF Shape
  <2>2. /\ <<[kind |-> "snapshot", ops |-> value]>> \in Seq(Frames("deltas"))
        /\ <<[kind |-> "keys", keys |-> DOMAIN value]>> \in Seq(Frames("keys"))
    BY <2>1, FrameTypes DEF Shape
  <2>3. main' \in Subscription(Frames(protocol))
    BY <1>3, <2>2, ServedType DEF ServeMain, Shape
  <2>. QED  BY <1>3, <2>3 DEF ServeMain, Shape
<1>4. CASE FoldDeltas
  <2>1. /\ main.frames \in Seq(Frames(protocol)) /\ main.frames # <<>>
        /\ main' \in Subscription(Frames(protocol))
    BY <1>4, RestType DEF FoldDeltas, Fold, Shape, Subscription
  <2>2. Head(main.frames) \in Frames("deltas")
    BY <1>4, <2>1, HeadType DEF FoldDeltas
  <2>3. cache' \in Maps(Keys, Values) /\ held' \subseteq Keys
    BY <1>4, <2>2, FoldTypes DEF FoldDeltas
  <2>. QED  BY <1>4, <2>1, <2>3 DEF FoldDeltas, Shape
<1>5. CASE FoldKeys
  <2>1. /\ main.frames \in Seq(Frames(protocol)) /\ main.frames # <<>>
        /\ main' \in Subscription(Frames(protocol))
    BY <1>5, RestType DEF FoldKeys, Fold, Shape, Subscription
  <2>2. get' \in [Keys -> Subscription(Values)]
    BY <1>5, SubscriptionTypes DEF FoldKeys, Shape
  <2>3. cache' \in Maps(Keys, Values) /\ held' \subseteq Keys /\ sweep' \subseteq Keys
    BY <1>5, WithoutMaps DEF FoldKeys, Shape, Opened
  <2>. QED  BY <1>5, <2>1, <2>2, <2>3 DEF FoldKeys, Shape
<1>6. CASE Connect
  <2>1. DOMAIN cache \subseteq Keys
    BY InMaps DEF Shape
  <2>. QED  BY <1>6, <2>1, SubscriptionTypes DEF Connect, CarriedOver, Shape
<1>7. CASE ProbeAnswers
  BY <1>7 DEF ProbeAnswers, Shape
<1>8. ASSUME NEW k \in Keys, ServeGet(k) PROVE Shape'
  <2>1. (IF k \in DOMAIN value THEN <<value[k]>> ELSE <<>>) \in Seq(Values)
    BY InMaps DEF Shape
  <2>2. get' \in [Keys -> Subscription(Values)]
    BY <1>8, <2>1, ServedType DEF ServeGet, Shape
  <2>. QED  BY <1>8, <2>2 DEF ServeGet, Shape
<1>9. ASSUME NEW k \in Keys, FoldValue(k) PROVE Shape'
  <2>1. get[k] \in Subscription(Values) /\ get[k].frames \in Seq(Values)
    BY DEF Shape, Subscription
  <2>2. Head(get[k].frames) \in Values
    BY <1>9, <2>1, HeadType DEF FoldValue
  <2>3. One(k, Head(get[k].frames)) \in Maps(Keys, Values)
    BY <2>2, OneMaps
  <2>4. cache' \in Maps(Keys, Values)
    BY <1>9, <2>3, OverMaps DEF FoldValue, Shape
  <2>5. get' \in [Keys -> Subscription(Values)]
    BY <1>9, <2>1, RestType DEF FoldValue, Shape
  <2>. QED  BY <1>9, <2>4, <2>5 DEF FoldValue, Shape
<1>10. ASSUME NEW k \in Keys, Interrupt(k) PROVE Shape'
  BY <1>10, SubscriptionTypes DEF Interrupt, Shape
<1>11. ASSUME NEW k \in Keys, Removed(k) PROVE Shape'
  BY <1>11, WithoutMaps DEF Removed, Shape
<1>12. CASE MirrorFails \/ MirrorEnds \/ LinkDrops
  BY <1>12, SubscriptionTypes DEF MirrorFails, MirrorEnds, LinkDrops, Unwind, Shape
<1>13. ASSUME NEW k \in Keys, Upsert(k) PROVE Shape'
  <2>1. writes + 1 \in Values /\ writes + 1 \in Marks
    BY <1>13, SurfaceMirrorAssumption DEF Upsert, Write, Shape, Values, Marks
  <2>2. One(k, writes + 1) \in Maps(Keys, Values)
    BY <2>1, OneMaps
  <2>3. value' \in Maps(Keys, Values)
    BY <1>13, <2>2, OverMaps DEF Upsert, Shape
  <2>4. get' \in [Keys -> Subscription(Values)]
    BY <1>13, <2>1, PublishType DEF Upsert, Shape
  <2>. QED  BY <1>13, <2>1, <2>3, <2>4, WriteShape DEF Upsert, Shape
<1>14. ASSUME NEW k \in Keys, Remove(k) PROVE Shape'
  <2>1. Removal \in Marks
    BY DEF Marks
  <2>2. value' \in Maps(Keys, Values)
    BY <1>14, WithoutMaps DEF Remove, Shape
  <2>. QED  BY <1>14, <2>1, <2>2, WriteShape DEF Remove, Shape
<1>15. ASSUME NEW k \in Keys, KeyFails(k) PROVE Shape'
  <2>1. [stage |-> "failed", frames |-> <<>>] \in Subscription(Values)
    BY DEF Subscription, Stages
  <2>. QED  BY <1>15, <2>1 DEF KeyFails, Shape
<1>16. CASE UNCHANGED vars
  BY <1>16 DEF vars, Shape
<1>. QED
  BY <1>1, <1>2, <1>3, <1>4, <1>5, <1>6, <1>7, <1>8, <1>9, <1>10, <1>11, <1>12, <1>13,
     <1>14, <1>15, <1>16 DEF Next, Progress

-----------------------------------------------------------------------------
(* A key that was never removed: whatever asserts it comes after it, and    *)
(* nothing that comes later denies it.                                     *)

Names(f) == IF f.kind = "keys" THEN f.keys ELSE DOMAIN f.ops
Removes(f, k) == f.kind = "delta" /\ k \in DOMAIN f.ops /\ f.ops[k] = Removal
Lacks(f, k) == f.kind # "delta" /\ k \notin Names(f)

\* The frames on their way are good for k, in a mirror that knows the keys
\* `known` of a collection that has the keys `there`.
Sound(fs, known, there, k) ==
  \A i \in DOMAIN fs :
    /\ ~Removes(fs[i], k)
    /\ k \in Names(fs[i]) => k \in there
    /\ k \in known => ~Lacks(fs[i], k)
    /\ \A j \in DOMAIN fs : i < j /\ k \in Names(fs[i]) => ~Lacks(fs[j], k)

Known == DOMAIN cache \cup Opened \cup held

Stays(k) ==
  /\ k \in Known => k \in DOMAIN value
  /\ k \notin sweep
  /\ k \in DOMAIN pending => k \in DOMAIN value /\ pending[k] # Removal
  /\ Sound(main.frames, Known, DOMAIN value, k)

AllStay == \A k \in Keys \ removed : Stays(k)

LEMMA SoundTail ==
  ASSUME NEW T, NEW fs \in Seq(T), fs # <<>>, NEW known, NEW known2, NEW there, NEW k,
         Sound(fs, known, there, k),
         k \in known2 => k \in known \cup Names(Head(fs))
  PROVE  Sound(Tail(fs), known2, there, k)
<1>. DEFINE gs == Tail(fs)
<1>1. /\ gs \in Seq(T) /\ Len(gs) = Len(fs) - 1 /\ Len(fs) \in Nat \ {0}
      /\ DOMAIN gs = 1 .. Len(gs) /\ DOMAIN fs = 1 .. Len(fs)
      /\ Head(fs) = fs[1]
      /\ \A i \in DOMAIN gs : gs[i] = fs[i + 1]
  OBVIOUS
<1>. HIDE DEF gs
<1>2. ASSUME NEW i \in DOMAIN gs
      PROVE  /\ ~Removes(gs[i], k)
             /\ k \in Names(gs[i]) => k \in there
             /\ k \in known2 => ~Lacks(gs[i], k)
             /\ \A j \in DOMAIN gs : i < j /\ k \in Names(gs[i]) => ~Lacks(gs[j], k)
  <2>1. i + 1 \in DOMAIN fs /\ gs[i] = fs[i + 1] /\ 1 \in DOMAIN fs /\ 1 < i + 1
    BY <1>1
  <2>2. \A j \in DOMAIN gs : i < j => j + 1 \in DOMAIN fs /\ gs[j] = fs[j + 1] /\ i + 1 < j + 1
    BY <1>1
  <2>. QED  BY <1>1, <2>1, <2>2 DEF Sound
<1>. QED  BY <1>2 DEF Sound, gs

LEMMA SoundAppend ==
  ASSUME NEW T, NEW fs \in Seq(T), NEW f \in T, NEW known, NEW there, NEW k,
         Sound(fs, known, there, k),
         ~Removes(f, k), k \in Names(f) => k \in there,
         k \in known \cup there => ~Lacks(f, k)
  PROVE  Sound(Append(fs, f), known, there, k)
<1>. DEFINE gs == Append(fs, f)
             n == Len(fs)
<1>1. /\ n \in Nat /\ DOMAIN gs = 1 .. n + 1 /\ DOMAIN fs = 1 .. n
      /\ gs[n + 1] = f
      /\ \A i \in DOMAIN fs : gs[i] = fs[i]
  OBVIOUS
<1>. HIDE DEF gs, n
<1>2. ASSUME NEW i \in DOMAIN gs
      PROVE  /\ ~Removes(gs[i], k)
             /\ k \in Names(gs[i]) => k \in there
             /\ k \in known => ~Lacks(gs[i], k)
             /\ \A j \in DOMAIN gs : i < j /\ k \in Names(gs[i]) => ~Lacks(gs[j], k)
  <2>1. CASE i = n + 1
    BY <1>1, <2>1
  <2>2. CASE i \in DOMAIN fs
    <3>1. \A j \in DOMAIN gs : j = n + 1 \/ j \in DOMAIN fs
      BY <1>1
    <3>. QED  BY <1>1, <2>2, <3>1 DEF Sound
  <2>. QED  BY <1>1, <2>1, <2>2
<1>. QED  BY <1>2 DEF Sound, gs

LEMMA SoundEmpty ==
  ASSUME NEW known, NEW there, NEW k
  PROVE  Sound(<<>>, known, there, k)
BY DEF Sound

LEMMA SoundOne ==
  ASSUME NEW f, NEW known, NEW there, NEW k,
         ~Removes(f, k), k \in Names(f) => k \in there, k \in known => ~Lacks(f, k)
  PROVE  Sound(<<f>>, known, there, k)
BY DEF Sound

LEMMA SoundPublish ==
  ASSUME NEW T, NEW s \in Subscription(T), NEW f \in T, NEW known, NEW there, NEW k,
         Sound(s.frames, known, there, k),
         ~Removes(f, k), k \in Names(f) => k \in there,
         k \in known \cup there => ~Lacks(f, k)
  PROVE  Sound(Publish(s, f).frames, known, there, k)
<1>1. s.frames \in Seq(T)
  BY DEF Subscription
<1>. QED  BY <1>1, SoundAppend, PublishType

\* The mirror may know less and the collection have more.
LEMMA SoundKept ==
  ASSUME NEW fs, NEW known, NEW known2, NEW there, NEW there2, NEW k,
         Sound(fs, known, there, k),
         k \in known2 => k \in known, k \in there => k \in there2
  PROVE  Sound(fs, known2, there2, k)
BY DEF Sound

LEMMA StaysInit == Init => AllStay
<1>. SUFFICES ASSUME Init, NEW k \in Keys PROVE Stays(k)
  BY DEF AllStay
<1>1. DOMAIN pending = {} /\ DOMAIN cache = {} /\ held = {} /\ sweep = {} /\ main.frames = <<>>
  BY EmptyMaps, SubscriptionTypes DEF Init
<1>2. Opened = {}
  BY DEF Init, Opened, Closed
<1>. QED  BY <1>1, <1>2, SoundEmpty DEF Stays, Known

\* What the first frame says of a key that was never removed, and what the
\* rest says once it is folded.
LEMMA HeadIsSound ==
  ASSUME Shape, NEW k \in Keys, Stays(k), main.frames # <<>>
  PROVE  /\ main.frames \in Seq(Frames(protocol)) /\ Head(main.frames) \in Frames(protocol)
         /\ ~Removes(Head(main.frames), k)
         /\ k \in Names(Head(main.frames)) => k \in DOMAIN value
         /\ k \in Known => ~Lacks(Head(main.frames), k)
<1>1. main.frames \in Seq(Frames(protocol))
  BY DEF Shape, Subscription
<1>2. 1 \in DOMAIN main.frames /\ Head(main.frames) = main.frames[1]
  BY <1>1
<1>3. Head(main.frames) \in Frames(protocol)
  BY <1>1, HeadType
<1>. QED  BY <1>1, <1>2, <1>3 DEF Stays, Sound

\* A fold of the main stream, which gets to know no key but those it was told of.
LEMMA FoldStays ==
  ASSUME Shape, NEW k \in Keys, Stays(k), Fold,
         UNCHANGED <<value, pending>>,
         k \notin sweep',
         k \in Known' => k \in Known \cup Names(Head(main.frames))
  PROVE  Stays(k)'
<1>1. main' = Rest(main) /\ main.frames # <<>>
  BY DEF Fold
<1>2. main'.frames = Tail(main.frames)
  BY <1>1, RestType DEF Shape
<1>3. k \in Known' => k \in DOMAIN value'
  BY <1>1, HeadIsSound DEF Stays
<1>4. Sound(main'.frames, Known', DOMAIN value', k)
  BY <1>1, <1>2, HeadIsSound, SoundTail DEF Stays
<1>. QED  BY <1>3, <1>4 DEF Stays

\* A step that leaves the main stream alone and from which the mirror knows no
\* more keys.
LEMMA IdleStays ==
  ASSUME NEW k \in Keys, Stays(k),
         main'.frames = main.frames \/ main'.frames = <<>>,
         k \in Known' => k \in Known,
         k \in DOMAIN value => k \in DOMAIN value',
         k \notin sweep',
         k \in DOMAIN pending' => k \in DOMAIN value' /\ pending'[k] # Removal
  PROVE  Stays(k)'
<1>1. Sound(main'.frames, Known', DOMAIN value', k)
  BY SoundEmpty, SoundKept DEF Stays
<1>. QED  BY <1>1 DEF Stays

\* Every step keeps a key that was never removed and still is not: what holds of
\* it goes on to hold, and it does not leave the cache.
LEMMA StaysStep ==
  ASSUME Shape, Next \/ UNCHANGED vars,
         NEW k \in Keys, k \notin removed', removed \subseteq removed' => Stays(k)
  PROVE  Stays(k)' /\ (k \in DOMAIN cache => k \in DOMAIN cache')
<1>. USE DEF server, mirror
<1>0. removed \subseteq removed'
  BY DEF Next, Progress, FlushDeltas, FlushKeys, ServeMain, FoldDeltas, FoldKeys, Connect,
         ProbeAnswers, ServeGet, FoldValue, Interrupt, Removed, MirrorFails, MirrorEnds,
         LinkDrops, Unwind, Upsert, Remove, KeyFails, vars
<1>. Stays(k)
  BY <1>0
<1>1. CASE FlushDeltas
  <2>. DEFINE f == [kind |-> "delta", ops |-> pending]
  <2>1. protocol = "deltas" /\ f \in Frames(protocol)
    BY <1>1, FrameTypes DEF FlushDeltas, Shape
  <2>2. ~Removes(f, k) /\ (k \in Names(f) => k \in DOMAIN value) /\ ~Lacks(f, k)
    BY DEF Stays, Removes, Names, Lacks
  <2>3. main' = Publish(main, f) /\ DOMAIN pending' = {}
    BY <1>1, EmptyMaps DEF FlushDeltas
  <2>. HIDE DEF f
  <2>4. Sound(main'.frames, Known, DOMAIN value, k)
    BY <2>1, <2>2, <2>3, SoundPublish DEF Shape, Stays
  <2>5. Known' = Known
    BY <1>1 DEF FlushDeltas, Known, Opened
  <2>. QED  BY <1>1, <2>3, <2>4, <2>5 DEF FlushDeltas, Stays
<1>2. CASE FlushKeys
  <2>. DEFINE f == [kind |-> "keys", keys |-> DOMAIN value]
  <2>1. Known' = Known
    BY <1>2 DEF FlushKeys, Known, Opened
  <2>2. CASE Repeats
    BY <1>2, <2>1, <2>2 DEF FlushKeys, Stays
  <2>3. CASE ~Repeats
    <3>1. protocol = "keys" /\ DOMAIN value \subseteq Keys
      BY <1>2, InMaps DEF FlushKeys, Shape
    <3>2. f \in Frames(protocol)
      BY <3>1, FrameTypes
    <3>3. ~Removes(f, k) /\ (k \in Names(f) <=> k \in DOMAIN value) /\ (k \in Known => ~Lacks(f, k))
      BY DEF Stays, Removes, Names, Lacks
    <3>4. k \in Known \cup DOMAIN value => ~Lacks(f, k)
      BY DEF Stays, Names, Lacks
    <3>5. main' = Publish(main, f)
      BY <1>2, <2>3 DEF FlushKeys
    <3>. HIDE DEF f
    <3>6. Sound(main'.frames, Known, DOMAIN value, k)
      BY <3>2, <3>3, <3>4, <3>5, SoundPublish DEF Shape, Stays
    <3>. QED  BY <1>2, <2>1, <3>6 DEF FlushKeys, Stays
  <2>. QED  BY <2>2, <2>3
<1>3. CASE ServeMain
  <2>. DEFINE f == IF protocol = "deltas" THEN [kind |-> "snapshot", ops |-> value]
                                          ELSE [kind |-> "keys", keys |-> DOMAIN value]
  <2>1. ~Removes(f, k) /\ (k \in Names(f) <=> k \in DOMAIN value) /\ (k \in Known => ~Lacks(f, k))
    BY DEF Stays, Removes, Names, Lacks
  <2>2. main'.frames = <<f>>
    BY <1>3 DEF ServeMain, Served
  <2>. HIDE DEF f
  <2>3. Sound(main'.frames, Known, DOMAIN value, k)
    BY <2>1, <2>2, SoundOne
  <2>4. Known' = Known
    BY <1>3 DEF ServeMain, Known, Opened
  <2>. QED  BY <1>3, <2>3, <2>4 DEF ServeMain, Stays
<1>4. CASE FoldDeltas
  <2>. DEFINE f == Head(main.frames)
  <2>1. Fold /\ protocol = "deltas" /\ main.frames # <<>>
    BY <1>4 DEF FoldDeltas, Fold
  <2>2. f \in Frames("deltas") /\ ~Removes(f, k) /\ (k \in Known => ~Lacks(f, k))
    BY <2>1, HeadIsSound
  <2>3. IF f.kind = "snapshot" THEN FoldSnapshot(f.ops) ELSE FoldDelta(f.ops)
    BY <1>4 DEF FoldDeltas
  <2>4. Opened' = Opened
    BY <1>4 DEF FoldDeltas, Opened
  <2>. HIDE DEF f
  <2>5. (k \in Known' => k \in Known \cup Names(f)) /\ (k \in DOMAIN cache => k \in DOMAIN cache')
    <3>1. CASE f.kind = "snapshot"
      <4>1. /\ DOMAIN cache' = DOMAIN f.ops \cup (DOMAIN cache \ (held \ DOMAIN f.ops))
            /\ held' = DOMAIN f.ops
        BY <2>3, <3>1 DEF FoldSnapshot, Departed, Without, Over
      <4>2. Names(f) = DOMAIN f.ops
        BY <3>1 DEF Names
      <4>. QED  BY <2>2, <2>4, <3>1, <4>1, <4>2 DEF Known, Lacks
    <3>2. CASE f.kind # "snapshot"
      <4>. DEFINE upserts == {j \in DOMAIN f.ops : f.ops[j] # Removal}
                  removes == (held \cup upserts) \cap (DOMAIN f.ops \ upserts)
      <4>1. f.kind = "delta"
        BY <2>2, <3>2, FrameTypes
      <4>2. /\ DOMAIN cache' = upserts \cup (DOMAIN cache \ removes)
            /\ held' = (held \cup upserts) \ removes
        BY <2>3, <3>2 DEF FoldDelta, Without, Over
      <4>3. k \notin removes
        BY <2>2, <4>1 DEF Removes
      <4>4. Names(f) = DOMAIN f.ops
        BY <4>1 DEF Names
      <4>. QED  BY <2>4, <4>2, <4>3, <4>4 DEF Known
    <3>. QED  BY <3>1, <3>2
  <2>. QED  BY <1>4, <2>1, <2>5, FoldStays DEF FoldDeltas, Stays, f
<1>5. CASE FoldKeys
  <2>. DEFINE f == Head(main.frames)
  <2>1. Fold /\ protocol = "keys" /\ main.frames # <<>>
    BY <1>5 DEF FoldKeys, Fold
  <2>2. f \in Frames("keys") /\ (k \in Known => ~Lacks(f, k))
    BY <2>1, HeadIsSound
  <2>3. f.kind = "keys" /\ Names(f) = f.keys
    BY <2>2, FrameTypes DEF Names
  <2>4. k \in Known => k \in f.keys
    BY <2>2, <2>3 DEF Lacks
  <2>5. /\ get' = [j \in Keys |-> IF j \in f.keys \ Opened THEN Requested ELSE get[j]]
        /\ sweep' = Opened \ f.keys
        /\ DOMAIN cache' = DOMAIN cache \ (held \ f.keys)
        /\ held' = {}
    BY <1>5 DEF FoldKeys, Without, Departed
  <2>6. Opened' \subseteq Opened \cup f.keys
    BY <2>5 DEF Opened
  <2>. HIDE DEF f
  <2>7. /\ k \notin sweep' /\ (k \in DOMAIN cache => k \in DOMAIN cache')
        /\ k \in Known' => k \in Known \cup Names(f)
    BY <2>3, <2>4, <2>5, <2>6 DEF Known
  <2>. QED  BY <1>5, <2>1, <2>7, FoldStays DEF FoldKeys, f
<1>6. CASE Connect
  <2>1. main'.frames = <<>>
    BY <1>6, SubscriptionTypes DEF Connect
  <2>2. Known' \subseteq Known
    BY <1>6 DEF Connect, CarriedOver, Known, Opened
  <2>. QED  BY <1>6, <2>1, <2>2, IdleStays DEF Connect, Stays
<1>7. CASE ProbeAnswers \/ UNCHANGED vars
  <2>1. Known' = Known
    BY <1>7 DEF ProbeAnswers, vars, Known, Opened
  <2>. QED  BY <1>7, <2>1, IdleStays DEF ProbeAnswers, vars, Stays
<1>8. ASSUME NEW j \in Keys, ServeGet(j)
      PROVE  Stays(k)' /\ (k \in DOMAIN cache => k \in DOMAIN cache')
  <2>1. Opened' = Opened
    BY <1>8 DEF ServeGet, Served, Opened, Shape
  <2>. QED  BY <1>8, <2>1, IdleStays DEF ServeGet, Stays, Known
<1>9. ASSUME NEW j \in Keys, FoldValue(j)
      PROVE  Stays(k)' /\ (k \in DOMAIN cache => k \in DOMAIN cache')
  <2>1. DOMAIN cache' = DOMAIN cache \cup {j} /\ j \in Opened
    BY <1>9 DEF FoldValue, Opened, Over, One
  <2>2. Opened' = Opened
    BY <1>9 DEF FoldValue, Rest, Opened, Shape, Subscription
  <2>. QED  BY <1>9, <2>1, <2>2, IdleStays DEF FoldValue, Stays, Known
<1>10. ASSUME NEW j \in Keys, Interrupt(j)
       PROVE  Stays(k)' /\ (k \in DOMAIN cache => k \in DOMAIN cache')
  <2>1. Opened' \subseteq Opened
    BY <1>10 DEF Interrupt, Closed, Opened, Shape
  <2>. QED  BY <1>10, <2>1, IdleStays DEF Interrupt, Stays, Known
<1>11. ASSUME NEW j \in Keys, Removed(j)
       PROVE  Stays(k)' /\ (k \in DOMAIN cache => k \in DOMAIN cache')
  <2>1. DOMAIN cache' = DOMAIN cache \ {j} /\ j \in sweep /\ Opened' = Opened
    BY <1>11 DEF Removed, MayRemove, Without, Opened
  <2>2. k # j
    BY <2>1 DEF Stays
  <2>. QED  BY <1>11, <2>1, <2>2, IdleStays DEF Removed, Stays, Known
<1>12. CASE MirrorFails \/ MirrorEnds \/ LinkDrops
  <2>1. main'.frames = <<>> /\ Opened' = {} /\ sweep' = {}
    BY <1>12, SubscriptionTypes DEF MirrorFails, MirrorEnds, LinkDrops, Unwind, Opened
  <2>2. UNCHANGED <<value, pending, cache, held>>
    BY <1>12 DEF MirrorFails, MirrorEnds, LinkDrops, Unwind
  <2>. QED  BY <2>1, <2>2, IdleStays DEF Stays, Known
<1>13. ASSUME NEW j \in Keys, Upsert(j)
       PROVE  Stays(k)' /\ (k \in DOMAIN cache => k \in DOMAIN cache')
  <2>1. writes + 1 \in Marks /\ writes + 1 # Removal
    BY <1>13, SurfaceMirrorAssumption DEF Upsert, Write, Shape, Values, Marks, Removal
  <2>2. DOMAIN value' = DOMAIN value \cup {j}
    BY <1>13 DEF Upsert, Over, One
  <2>3. Opened' = Opened
    BY <1>13 DEF Upsert, Publish, Opened, Shape, Subscription
  <2>4. /\ main' = main /\ cache' = cache /\ held' = held /\ sweep' = sweep
        /\ \A i \in DOMAIN pending' : \/ i = j /\ pending'[i] = writes + 1
                                      \/ i \in DOMAIN pending /\ pending'[i] = pending[i]
    BY <1>13, <2>1, WriteShape DEF Upsert
  <2>. QED  BY <2>1, <2>2, <2>3, <2>4, IdleStays DEF Stays, Known
<1>14. ASSUME NEW j \in Keys, Remove(j)
       PROVE  Stays(k)' /\ (k \in DOMAIN cache => k \in DOMAIN cache')
  <2>1. k # j /\ DOMAIN value' = DOMAIN value \ {j} /\ Opened' = Opened
    BY <1>14 DEF Remove, Without, Opened
  <2>2. /\ main' = main /\ cache' = cache /\ held' = held /\ sweep' = sweep
        /\ \A i \in DOMAIN pending' : \/ i = j
                                      \/ i \in DOMAIN pending /\ pending'[i] = pending[i]
    BY <1>14, WriteShape DEF Remove, Marks
  <2>. QED  BY <2>1, <2>2, IdleStays DEF Stays, Known
<1>15. ASSUME NEW j \in Keys, KeyFails(j)
       PROVE  Stays(k)' /\ (k \in DOMAIN cache => k \in DOMAIN cache')
  <2>1. Opened' = Opened
    BY <1>15 DEF KeyFails, Opened, Shape
  <2>. QED  BY <1>15, <2>1, IdleStays DEF KeyFails, Stays, Known
<1>. QED
  BY <1>1, <1>2, <1>3, <1>4, <1>5, <1>6, <1>7, <1>8, <1>9, <1>10, <1>11, <1>12, <1>13,
     <1>14, <1>15 DEF Next, Progress

\* The step that removes a key at the server leaves the cache alone.
LEMMA RemovalIsRemote ==
  ASSUME Next \/ UNCHANGED vars
  PROVE  removed' = removed \/ cache' = cache
BY DEF Next, Progress, FlushDeltas, FlushKeys, ServeMain, FoldDeltas, FoldKeys, Connect,
       ProbeAnswers, ServeGet, FoldValue, Interrupt, Removed, MirrorFails, MirrorEnds,
       LinkDrops, Unwind, Upsert, Remove, Write, KeyFails, vars, server, mirror

\* A key that the server never removed does not leave the cache again, for any
\* number of keys, writes, links that die and streams that fail.
THEOREM RowsStay == Spec => NoFlash
<1>1. Init => Shape /\ AllStay
  BY ShapeInit, StaysInit
<1>2. Shape /\ AllStay /\ [Next]_vars => (Shape /\ AllStay)'
  <2>1. SUFFICES ASSUME Shape, AllStay, Next \/ UNCHANGED vars
                 PROVE  Shape' /\ AllStay'
    OBVIOUS
  <2>2. ASSUME NEW k \in Keys \ removed' PROVE Stays(k)'
    BY <2>1, StaysStep DEF AllStay
  <2>. QED  BY <2>1, <2>2, ShapeStep DEF AllStay
<1>3. Shape /\ AllStay /\ [Next]_vars
        => \A k \in DOMAIN cache : k \notin DOMAIN cache' => k \in removed
  <2>1. SUFFICES ASSUME Shape, AllStay, Next \/ UNCHANGED vars,
                        NEW k \in DOMAIN cache, k \notin DOMAIN cache', k \notin removed
                 PROVE  FALSE
    OBVIOUS
  <2>2. k \in Keys /\ Stays(k)
    BY <2>1, InMaps DEF Shape, AllStay
  <2>3. k \in removed'
    BY <2>1, <2>2, StaysStep
  <2>. QED  BY <2>1, <2>3, RemovalIsRemote
<1>. QED  BY <1>1, <1>2, <1>3, PTL DEF Spec, NoFlash
-----------------------------------------------------------------------------
(* What was published last, and what is on its way.                        *)

\* The store's Map lists each of its keys once.
Ordered ==
  /\ order \in Seq(Keys) /\ Seqs!IsInjective(order)
  /\ Seqs!ToSet(order) = DOMAIN value
  /\ last \subseteq Seq(Keys)

PublishedKeys == UNION {Seqs!ToSet(s) : s \in last}

\* What the mirror will follow once the key sets on their way are folded.
KeysTold ==
  IF main.frames = <<>> THEN Opened \ sweep ELSE main.frames[Len(main.frames)].keys

\* A key set is due unless the last one published is the store's; what was
\* published last is what the mirror was told last.
KeysAgree ==
  protocol = "keys" =>
    /\ \A s, t \in last : s = t
    /\ ~keysDue => PublishedKeys = DOMAIN value
    /\ main.stage = "open" /\ ~torn => KeysTold = PublishedKeys

\* A key's stream ends with the store's value, or has delivered it.
StreamAgrees(k) ==
  get[k].stage = "open" /\ k \in DOMAIN value =>
    LET fs == get[k].frames
    IN  IF fs = <<>> THEN InStep(k) ELSE fs[Len(fs)] = value[k]

\* Does the frame say something of k, and is it what the map m holds?
Mentions(f, k) == f.kind = "snapshot" \/ k \in DOMAIN f.ops
Says(f, k, m) ==
  IF k \in DOMAIN m THEN k \in DOMAIN f.ops /\ f.ops[k] = m[k]
  ELSE k \in DOMAIN f.ops => f.ops[k] = Removal

\* The last of the frames that mentions k says what m holds.
EndsWith(fs, k, m) ==
  \A i \in DOMAIN fs :
    Mentions(fs[i], k) /\ (\A j \in DOMAIN fs : j > i => ~Mentions(fs[j], k)) => Says(fs[i], k, m)

Silent(fs, k) == \A i \in DOMAIN fs : ~Mentions(fs[i], k)

DeltasAgree(k) ==
  protocol = "deltas" =>
    /\ k \in DOMAIN pending => pending[k] = IF k \in DOMAIN value THEN value[k] ELSE Removal
    /\ main.stage = "open" /\ k \notin DOMAIN pending =>
         /\ EndsWith(main.frames, k, value)
         /\ Silent(main.frames, k) => True(k)

\* Nothing is in the cache that the mirror does not know of, and a mirror that
\* follows a key, or has nothing to read, has settled what it carried over.
Settled ==
  /\ main.stage # "open" => main.frames = <<>>
  /\ link = "down" => main.stage = "closed" /\ Opened = {}
  /\ protocol = "deltas" => Opened = {} /\ sweep = {}
  /\ main.stage \in {"requested", "open"} => DOMAIN cache \subseteq held \cup Opened \cup sweep
  /\ protocol = "keys" =>
       /\ Opened # {} => held = {}
       /\ main.stage = "open" /\ main.frames = <<>> => held = {}

Agreed ==
  /\ Ordered /\ KeysAgree /\ Settled
  /\ \A k \in Keys : StreamAgrees(k) /\ DeltasAgree(k)

-----------------------------------------------------------------------------
(* The order of the keys.                                                  *)

LEMMA AppendIs ==
  ASSUME NEW T, NEW s \in Seq(T), NEW k \in T \ Seqs!ToSet(s), Seqs!IsInjective(s)
  PROVE  /\ Append(s, k) \in Seq(T) /\ Seqs!IsInjective(Append(s, k))
         /\ Seqs!ToSet(Append(s, k)) = Seqs!ToSet(s) \cup {k}
<1>. DEFINE n == Len(s)
            d == Append(s, k)
<1>1. /\ n \in Nat /\ DOMAIN s = 1 .. n /\ d \in Seq(T) /\ DOMAIN d = 1 .. n + 1
      /\ d[n + 1] = k /\ \A i \in 1 .. n : d[i] = s[i] /\ i \in 1 .. n + 1
  OBVIOUS
<1>2. \A i \in 1 .. n : s[i] # k
  BY <1>1 DEF Seqs!ToSet
<1>3. \A i \in 1 .. n + 1 : i = n + 1 \/ i \in 1 .. n
  BY <1>1
<1>. HIDE DEF n, d
<1>4. Seqs!IsInjective(d)
  BY <1>1, <1>2, <1>3 DEF Seqs!IsInjective
<1>5. Seqs!ToSet(d) \subseteq Seqs!ToSet(s) \cup {k}
  BY <1>1, <1>3 DEF Seqs!ToSet
<1>6. Seqs!ToSet(s) \cup {k} \subseteq Seqs!ToSet(d)
  <2>1. n + 1 \in DOMAIN d
    BY <1>1
  <2>. QED  BY <1>1, <2>1 DEF Seqs!ToSet
<1>. QED  BY <1>1, <1>4, <1>5, <1>6 DEF d

LEMMA RemoveFirstIs ==
  ASSUME NEW T, NEW s \in Seq(T), NEW k, Seqs!IsInjective(s)
  PROVE  /\ Seqs!RemoveFirst(s, k) \in Seq(T) /\ Seqs!IsInjective(Seqs!RemoveFirst(s, k))
         /\ Seqs!ToSet(Seqs!RemoveFirst(s, k)) = Seqs!ToSet(s) \ {k}
<1>. DEFINE n == Len(s)
            d == Seqs!RemoveFirst(s, k)
<1>0. n \in Nat /\ DOMAIN s = 1 .. n
  OBVIOUS
<1>1. CASE ~\E i \in 1 .. n : s[i] = k
  <2>1. d = s
    BY <1>1 DEF Seqs!RemoveFirst
  <2>. QED  BY <1>0, <1>1, <2>1 DEF Seqs!ToSet
<1>2. CASE \E i \in 1 .. n : s[i] = k
  <2>1. PICK p \in 1 .. n : s[p] = k
    BY <1>2
  <2>2. {i \in 1 .. n : s[i] = k} = {p}
    BY <1>0, <2>1 DEF Seqs!IsInjective
  <2>3. Seqs!SelectInSeq(s, LAMBDA v : v = k) = p
    BY <2>1, <2>2 DEF Seqs!SelectInSeq, Seqs!Min
  <2>4. d = SubSeq(s, 1, p - 1) \o SubSeq(s, p + 1, n)
    BY <1>2, <2>3 DEF Seqs!RemoveFirst, Seqs!RemoveAt
  <2>. DEFINE l == SubSeq(s, 1, p - 1)
              r == SubSeq(s, p + 1, n)
  <2>. HIDE DEF l, r, d, n
  <2>5. l \in Seq(T) /\ Len(l) = p - 1 /\ \A i \in 1 .. p - 1 : l[i] = s[i]
    <3>1. \A i \in 1 .. p - 1 : s[i] \in T
      BY <1>0, <2>1
    <3>. QED  BY <2>1, <3>1, SubSeqProperties DEF l
  <2>6. r \in Seq(T) /\ Len(r) = n - p /\ \A i \in 1 .. n - p : r[i] = s[p + i]
    <3>1. \A i \in p + 1 .. n : s[i] \in T
      BY <1>0, <2>1
    <3>2. /\ r \in Seq(T)
          /\ Len(r) = IF p + 1 <= n THEN n - (p + 1) + 1 ELSE 0
          /\ \A i \in 1 .. n - (p + 1) + 1 : r[i] = s[(p + 1) + i - 1]
      BY <1>0, <2>1, <3>1, SubSeqProperties DEF r
    <3>3. p \in Nat /\ p <= n
      BY <1>0, <2>1
    <3>4. n - (p + 1) + 1 = n - p /\ \A i \in 1 .. n - p : (p + 1) + i - 1 = p + i
      BY <1>0, <3>3
    <3>5. Len(r) = n - p
      BY <1>0, <3>2, <3>3, <3>4
    <3>6. \A i \in 1 .. n - p : r[i] = s[p + i]
      BY <3>2, <3>4
    <3>. QED  BY <3>2, <3>5, <3>6
  <2>7. /\ d \in Seq(T) /\ Len(d) = n - 1 /\ DOMAIN d = 1 .. n - 1
        /\ \A i \in 1 .. n - 1 : d[i] = IF i <= p - 1 THEN l[i] ELSE r[i - (p - 1)]
    <3>1. /\ l \o r \in Seq(T) /\ Len(l \o r) = (p - 1) + (n - p)
          /\ \A i \in 1 .. (p - 1) + (n - p) :
               (l \o r)[i] = IF i <= p - 1 THEN l[i] ELSE r[i - (p - 1)]
      <4>1. /\ l \o r \in Seq(T) /\ Len(l \o r) = Len(l) + Len(r)
            /\ \A i \in 1 .. Len(l) + Len(r) :
                 (l \o r)[i] = IF i <= Len(l) THEN l[i] ELSE r[i - Len(l)]
        BY <2>5, <2>6, ConcatProperties
      <4>. QED  BY <2>5, <2>6, <4>1
    <3>2. (p - 1) + (n - p) = n - 1
      BY <1>0, <2>1
    <3>3. d = l \o r
      BY <2>4 DEF l, r
    <3>. QED  BY <3>1, <3>2, <3>3
  <2>8. \A i \in 1 .. n - 1 : d[i] = IF i < p THEN s[i] ELSE s[i + 1]
    <3>1. ASSUME NEW i \in 1 .. n - 1, i < p PROVE d[i] = s[i]
      BY <1>0, <2>1, <2>5, <2>7, <3>1
    <3>2. ASSUME NEW i \in 1 .. n - 1, ~(i < p) PROVE d[i] = s[i + 1]
      <4>1. i - (p - 1) \in 1 .. n - p /\ p + (i - (p - 1)) = i + 1 /\ ~(i <= p - 1)
        BY <1>0, <2>1, <3>2
      <4>. QED  BY <2>6, <2>7, <4>1
    <3>. QED  BY <3>1, <3>2
  <2>9. Seqs!IsInjective(d)
    <3>1. ASSUME NEW i \in 1 .. n - 1
          PROVE  \E a \in 1 .. n : d[i] = s[a] /\ a = IF i < p THEN i ELSE i + 1
      BY <1>0, <2>1, <2>8
    <3>2. ASSUME NEW i \in 1 .. n - 1, NEW j \in 1 .. n - 1, d[i] = d[j] PROVE i = j
      <4>1. PICK a \in 1 .. n : d[i] = s[a] /\ a = IF i < p THEN i ELSE i + 1
        BY <3>1
      <4>2. PICK b \in 1 .. n : d[j] = s[b] /\ b = IF j < p THEN j ELSE j + 1
        BY <3>1
      <4>3. a = b
        BY <1>0, <3>2, <4>1, <4>2 DEF Seqs!IsInjective
      <4>. QED  BY <1>0, <2>1, <4>1, <4>2, <4>3
    <3>. QED  BY <2>7, <3>2 DEF Seqs!IsInjective
  <2>10. ASSUME NEW i \in 1 .. n, i # p PROVE s[i] \in Seqs!ToSet(d)
    <3>1. CASE i < p
      <4>1. i \in 1 .. n - 1 /\ d[i] = s[i]
        BY <1>0, <2>1, <2>8, <3>1
      <4>. QED  BY <2>7, <4>1 DEF Seqs!ToSet
    <3>2. CASE i > p
      <4>1. i - 1 \in 1 .. n - 1 /\ d[i - 1] = s[i]
        BY <1>0, <2>1, <2>8, <2>10, <3>2
      <4>. QED  BY <2>7, <4>1 DEF Seqs!ToSet
    <3>. QED  BY <1>0, <2>1, <2>10, <3>1, <3>2
  <2>11. ASSUME NEW i \in 1 .. n - 1 PROVE d[i] \in Seqs!ToSet(s) \ {k}
    <3>1. PICK a \in 1 .. n : d[i] = s[a] /\ a = IF i < p THEN i ELSE i + 1
      BY <1>0, <2>1, <2>8
    <3>2. a # p
      BY <1>0, <2>1, <3>1
    <3>3. s[a] # k
      BY <1>0, <2>1, <3>1, <3>2 DEF Seqs!IsInjective
    <3>. QED  BY <1>0, <2>1, <3>1, <3>3 DEF Seqs!ToSet
  <2>12. Seqs!ToSet(d) = Seqs!ToSet(s) \ {k}
    BY <1>0, <2>1, <2>7, <2>10, <2>11 DEF Seqs!ToSet
  <2>. QED  BY <2>7, <2>9, <2>12 DEF d
<1>. QED  BY <1>1, <1>2

LEMMA OrderedInit == Init => Ordered
<1>1. Seqs!IsInjective(<<>>) /\ Seqs!ToSet(<<>>) = {}
  BY DEF Seqs!IsInjective, Seqs!ToSet
<1>. QED  BY <1>1, EmptyMaps DEF Init, Ordered

LEMMA OrderedStep ==
  ASSUME Ordered, Next \/ UNCHANGED vars
  PROVE  Ordered'
<1>1. ASSUME NEW k \in Keys, Upsert(k) PROVE Ordered'
  <2>1. DOMAIN value' = DOMAIN value \cup {k} /\ last' = last
    BY <1>1 DEF Upsert, Write, Over, One
  <2>2. CASE k \in DOMAIN value
    BY <1>1, <2>1, <2>2 DEF Upsert, Ordered
  <2>3. CASE k \notin DOMAIN value
    <3>1. order' = Append(order, k)
      BY <1>1, <2>3 DEF Upsert
    <3>. QED  BY <2>1, <2>3, <3>1, AppendIs DEF Ordered
  <2>. QED  BY <2>2, <2>3
<1>2. ASSUME NEW k \in Keys, Remove(k) PROVE Ordered'
  <2>1. /\ DOMAIN value' = DOMAIN value \ {k} /\ last' = last
        /\ order' = Seqs!RemoveFirst(order, k)
    BY <1>2 DEF Remove, Write, Without
  <2>. QED  BY <2>1, RemoveFirstIs DEF Ordered
<1>3. CASE FlushKeys
  BY <1>3 DEF FlushKeys, Ordered
<1>4. ASSUME ~FlushKeys, \A k \in Keys : ~Upsert(k) /\ ~Remove(k) PROVE Ordered'
  <2>1. UNCHANGED <<order, value, last>>
    BY <1>4 DEF Next, Progress, FlushDeltas, ServeMain, FoldDeltas, FoldKeys, Connect,
         ProbeAnswers, ServeGet, FoldValue, Interrupt, Removed, MirrorFails, MirrorEnds,
         LinkDrops, Unwind, KeyFails, vars, server, mirror
  <2>. QED  BY <2>1 DEF Ordered
<1>. QED  BY <1>1, <1>2, <1>3, <1>4

-----------------------------------------------------------------------------
(* What the mirror knows.                                                  *)

\* The steps that leave the streams a mirror has opened as they are.
LEMMA OpenedKept ==
  ASSUME Shape, NEW k \in Keys,
         ServeGet(k) \/ FoldValue(k) \/ Upsert(k) \/ KeyFails(k) \/ Remove(k)
  PROVE  Opened' = Opened
<1>1. CASE ServeGet(k)
  BY <1>1 DEF ServeGet, Served, Opened, Shape
<1>2. CASE FoldValue(k)
  BY <1>2 DEF FoldValue, Rest, Opened, Shape, Subscription
<1>3. CASE Upsert(k)
  BY <1>3 DEF Upsert, Publish, Opened, Shape, Subscription
<1>4. CASE KeyFails(k)
  BY <1>4 DEF KeyFails, Opened, Shape
<1>5. CASE Remove(k)
  BY <1>5 DEF Remove, Opened
<1>. QED  BY <1>1, <1>2, <1>3, <1>4, <1>5

LEMMA SettledInit == Init => Settled
<1>. SUFFICES ASSUME Init PROVE Settled
  OBVIOUS
<1>1. Opened = {} /\ sweep = {} /\ held = {} /\ main.stage = "closed" /\ main.frames = <<>>
  BY SubscriptionTypes DEF Init, Opened, Closed
<1>. QED  BY <1>1 DEF Settled

\* A step that leaves the mirror and what it has opened alone, and publishes at most.
LEMMA SettledKept ==
  ASSUME Settled, UNCHANGED <<protocol, mirror>>, Opened' = Opened,
         main' = main \/ (main'.stage = main.stage /\ (main.stage # "open" => main' = main)
                           /\ (main'.frames = <<>> => main.frames = <<>>))
  PROVE  Settled'
BY DEF Settled, mirror

LEMMA PublishKeeps ==
  ASSUME NEW T, NEW s \in Subscription(T), NEW f \in T
  PROVE  /\ Publish(s, f).stage = s.stage /\ (s.stage # "open" => Publish(s, f) = s)
         /\ Publish(s, f).frames = <<>> => s.frames = <<>>
<1>1. s.frames \in Seq(T)
  BY DEF Subscription
<1>2. Append(s.frames, f) # <<>>
  BY <1>1
<1>. QED  BY <1>2, PublishType DEF Publish

LEMMA SettledStep ==
  ASSUME Shape, Settled, Next \/ UNCHANGED vars
  PROVE  Settled'
<1>. USE DEF server, mirror
<1>1. CASE FlushDeltas
  <2>1. [kind |-> "delta", ops |-> pending] \in Frames(protocol)
    BY <1>1, FrameTypes DEF FlushDeltas, Shape
  <2>2. UNCHANGED <<protocol, mirror>> /\ Opened' = Opened
    BY <1>1 DEF FlushDeltas, Opened
  <2>. QED  BY <1>1, <2>1, <2>2, PublishKeeps, SettledKept DEF FlushDeltas, Shape
<1>2. CASE FlushKeys
  <2>1. [kind |-> "keys", keys |-> DOMAIN value] \in Frames(protocol)
    BY <1>2, FrameTypes, InMaps DEF FlushKeys, Shape
  <2>2. UNCHANGED <<protocol, mirror>> /\ Opened' = Opened
    BY <1>2 DEF FlushKeys, Opened
  <2>. QED  BY <1>2, <2>1, <2>2, PublishKeeps, SettledKept DEF FlushKeys, Shape
<1>3. CASE ServeMain
  <2>1. main.stage = "requested" /\ main'.stage = "open" /\ main'.frames # <<>>
    BY <1>3 DEF ServeMain, Served
  <2>2. Opened' = Opened
    BY <1>3 DEF ServeMain, Opened
  <2>. QED  BY <1>3, <2>1, <2>2 DEF ServeMain, Settled
<1>4. CASE FoldDeltas
  <2>. DEFINE f == Head(main.frames)
  <2>1. /\ protocol = "deltas" /\ main.stage = "open" /\ main'.stage = "open"
        /\ IF f.kind = "snapshot" THEN FoldSnapshot(f.ops) ELSE FoldDelta(f.ops)
    BY <1>4, RestType DEF FoldDeltas, Fold, Shape
  <2>2. Opened' = Opened
    BY <1>4 DEF FoldDeltas, Opened
  <2>. HIDE DEF f
  <2>3. DOMAIN cache' \subseteq held'
    <3>1. DOMAIN cache \subseteq held
      BY <2>1 DEF Settled
    <3>2. CASE f.kind = "snapshot"
      BY <2>1, <3>1, <3>2 DEF FoldSnapshot, Departed, Without, Over
    <3>3. CASE f.kind # "snapshot"
      BY <2>1, <3>1, <3>3 DEF FoldDelta, Without, Over
    <3>. QED  BY <3>2, <3>3
  <2>. QED  BY <1>4, <2>1, <2>2, <2>3 DEF FoldDeltas, Settled
<1>5. CASE FoldKeys
  <2>. DEFINE next == Head(main.frames).keys
  <2>1. /\ protocol = "keys" /\ sweep = {} /\ main.stage = "open" /\ main'.stage = "open"
        /\ get' = [j \in Keys |-> IF j \in next \ Opened THEN Requested ELSE get[j]]
        /\ sweep' = Opened \ next /\ held' = {}
        /\ DOMAIN cache' = DOMAIN cache \ (held \ next)
    BY <1>5, RestType DEF FoldKeys, Fold, Shape, Without, Departed
  <2>2. next \subseteq Keys
    BY <1>5, <2>1, HeadType, FrameTypes DEF FoldKeys, Fold, Shape, Subscription
  <2>. HIDE DEF next
  <2>3. Opened' = Opened \cup next
    BY <2>1, <2>2 DEF Opened, Requested
  <2>. QED  BY <1>5, <2>1, <2>3 DEF FoldKeys, Settled
<1>6. CASE Connect
  <2>1. main'.stage = "requested" /\ main'.frames = <<>> /\ Opened' = Opened
    BY <1>6, SubscriptionTypes DEF Connect, Opened
  <2>. QED  BY <1>6, <2>1 DEF Connect, CarriedOver, Settled
<1>7. CASE ProbeAnswers \/ UNCHANGED vars
  <2>1. Opened' = Opened
    BY <1>7 DEF ProbeAnswers, vars, Opened
  <2>. QED  BY <1>7, <2>1 DEF ProbeAnswers, vars, Settled
<1>8. ASSUME NEW k \in Keys, ServeGet(k) \/ Upsert(k) \/ Remove(k) \/ KeyFails(k) PROVE Settled'
  <2>1. UNCHANGED <<protocol, mirror, main>>
    BY <1>8 DEF ServeGet, Upsert, Remove, Write, KeyFails
  <2>. QED  BY <1>8, <2>1, OpenedKept, SettledKept
<1>9. ASSUME NEW k \in Keys, FoldValue(k) PROVE Settled'
  <2>1. Opened' = Opened /\ k \in Opened /\ DOMAIN cache' = DOMAIN cache \cup {k}
    BY <1>9, OpenedKept DEF FoldValue, Opened, Over, One
  <2>. QED  BY <1>9, <2>1 DEF FoldValue, Settled
<1>10. ASSUME NEW k \in Keys, Interrupt(k) PROVE Settled'
  <2>1. Opened' = Opened \ {k} /\ k \in sweep
    BY <1>10 DEF Interrupt, Closed, Opened, Shape
  <2>. QED  BY <1>10, <2>1 DEF Interrupt, Settled
<1>11. ASSUME NEW k \in Keys, Removed(k) PROVE Settled'
  <2>1. Opened' = Opened /\ sweep' = sweep \ {k} /\ DOMAIN cache' = DOMAIN cache \ {k}
    BY <1>11 DEF Removed, Without, Opened
  <2>. QED  BY <1>11, <2>1 DEF Removed, Settled
<1>12. CASE MirrorFails \/ MirrorEnds \/ LinkDrops
  <2>1. main'.stage = "closed" /\ main'.frames = <<>> /\ Opened' = {} /\ sweep' = {}
    BY <1>12, SubscriptionTypes DEF MirrorFails, MirrorEnds, LinkDrops, Unwind, Opened
  <2>. QED  BY <2>1 DEF Settled
<1>. QED
  BY <1>1, <1>2, <1>3, <1>4, <1>5, <1>6, <1>7, <1>8, <1>9, <1>10, <1>11, <1>12
  DEF Next, Progress

-----------------------------------------------------------------------------
(* Key sets.                                                               *)

\* The last element of a sequence outlives its first, unless it is the first.
LEMMA LastOfTail ==
  ASSUME NEW T, NEW fs \in Seq(T), fs # <<>>
  PROVE  IF Tail(fs) = <<>> THEN fs[Len(fs)] = Head(fs)
         ELSE Tail(fs)[Len(Tail(fs))] = fs[Len(fs)]
<1>. DEFINE n == Len(fs)
            t == Tail(fs)
<1>1. /\ n \in Nat /\ n # 0 /\ t \in Seq(T) /\ Len(t) = n - 1
      /\ Head(fs) = fs[1] /\ \A i \in 1 .. n - 1 : t[i] = fs[i + 1]
  OBVIOUS
<1>. HIDE DEF n, t
<1>2. t = <<>> <=> Len(t) = 0
  BY <1>1, EmptySeq
<1>3. CASE n = 1
  BY <1>1, <1>2, <1>3 DEF n, t
<1>4. CASE n # 1
  <2>1. n - 1 \in 1 .. n - 1 /\ (n - 1) + 1 = n
    BY <1>1, <1>4
  <2>. QED  BY <1>1, <1>2, <1>4, <2>1 DEF n, t
<1>. QED  BY <1>3, <1>4

LEMMA LastOfAppend ==
  ASSUME NEW T, NEW fs \in Seq(T), NEW f \in T
  PROVE  /\ Append(fs, f) # <<>>
         /\ Append(fs, f)[Len(Append(fs, f))] = f
OBVIOUS

LEMMA KeysInit == Init => KeysAgree
BY EmptyMaps DEF Init, KeysAgree, PublishedKeys, Closed

\* A step that publishes nothing and leaves what was told alone.
LEMMA KeysKept ==
  ASSUME KeysAgree, UNCHANGED <<protocol, last>>,
         protocol = "keys" /\ ~keysDue' => ~keysDue /\ DOMAIN value' = DOMAIN value,
         protocol = "keys" /\ main'.stage = "open" /\ ~torn'
           => main.stage = "open" /\ ~torn /\ KeysTold' = KeysTold
  PROVE  KeysAgree'
<1>1. PublishedKeys' = PublishedKeys
  BY DEF PublishedKeys
<1>. QED  BY <1>1 DEF KeysAgree

LEMMA KeysStep ==
  ASSUME Shape, Ordered, Settled, KeysAgree, Next \/ UNCHANGED vars
  PROVE  KeysAgree'
<1>. USE DEF server, mirror
<1>1. CASE protocol # "keys"
  <2>1. protocol' = protocol
    BY DEF Next, Progress, FlushDeltas, FlushKeys, ServeMain, FoldDeltas, FoldKeys, Connect,
           ProbeAnswers, ServeGet, FoldValue, Interrupt, Removed, MirrorFails, MirrorEnds,
           LinkDrops, Unwind, Upsert, Remove, Write, KeyFails, vars
  <2>. QED  BY <1>1, <2>1 DEF KeysAgree
<1>. SUFFICES ASSUME protocol = "keys" PROVE KeysAgree'
  BY <1>1
<1>2. CASE FlushKeys
  <2>. DEFINE f == [kind |-> "keys", keys |-> DOMAIN value]
  <2>1. protocol' = protocol /\ value' = value /\ get' = get /\ sweep' = sweep /\ Opened' = Opened
    BY <1>2 DEF FlushKeys, Opened
  <2>2. CASE Repeats
    <3>1. PublishedKeys = DOMAIN value
      BY <2>2 DEF Repeats, KeysAgree, PublishedKeys, Ordered
    <3>2. last' = last /\ main' = main /\ torn' = torn
      BY <1>2, <2>2 DEF FlushKeys
    <3>3. KeysTold' = KeysTold /\ PublishedKeys' = PublishedKeys
      BY <2>1, <3>2 DEF KeysTold, PublishedKeys
    <3>. QED  BY <2>1, <3>1, <3>2, <3>3 DEF KeysAgree
  <2>3. CASE ~Repeats
    <3>1. last' = {order} /\ main' = Publish(main, f)
      BY <1>2, <2>3 DEF FlushKeys
    <3>2. PublishedKeys' = DOMAIN value
      BY <3>1 DEF PublishedKeys, Ordered
    <3>3. f \in Frames(protocol) /\ main.frames \in Seq(Frames(protocol)) /\ f.keys = DOMAIN value
      BY FrameTypes, InMaps DEF Shape, Subscription
    <3>. HIDE DEF f
    <3>4. main'.stage = "open" => main'.frames = Append(main.frames, f)
      BY <3>1 DEF Publish, Shape, Subscription
    <3>5. main'.stage = "open" => KeysTold' = DOMAIN value
      BY <3>3, <3>4, LastOfAppend DEF KeysTold
    <3>. QED  BY <2>1, <3>1, <3>2, <3>5 DEF KeysAgree
  <2>. QED  BY <2>2, <2>3
<1>3. CASE ServeMain
  <2>. DEFINE f == [kind |-> "keys", keys |-> DOMAIN value]
  <2>1. main'.frames = <<f>> /\ UNCHANGED <<protocol, last, value, keysDue>>
    BY <1>3 DEF ServeMain, Served
  <2>2. main'.stage = "open" /\ torn' = keysDue
    BY <1>3 DEF ServeMain, Served, Shape
  <2>3. KeysTold' = DOMAIN value /\ PublishedKeys' = PublishedKeys
    BY <2>1 DEF KeysTold, PublishedKeys
  <2>. QED  BY <2>1, <2>2, <2>3 DEF KeysAgree
<1>4. CASE FoldKeys
  <2>. DEFINE next == Head(main.frames).keys
              fs == main.frames
  <2>1. /\ main.stage = "open" /\ fs # <<>> /\ fs \in Seq(Frames(protocol))
        /\ main'.stage = main.stage /\ main'.frames = Tail(fs)
    BY <1>4, RestType DEF FoldKeys, Fold, Shape, Subscription
  <2>2. /\ get' = [j \in Keys |-> IF j \in next \ Opened THEN Requested ELSE get[j]]
        /\ sweep' = Opened \ next
    BY <1>4 DEF FoldKeys
  <2>3. next \subseteq Keys
    BY <2>1, HeadType, FrameTypes
  <2>4. Opened' \ sweep' = next
    BY <2>2, <2>3 DEF Opened, Requested
  <2>5. KeysTold = fs[Len(fs)].keys
    BY <2>1 DEF KeysTold
  <2>6. KeysTold' = KeysTold
    BY <2>1, <2>4, <2>5, LastOfTail DEF KeysTold
  <2>7. UNCHANGED <<protocol, last, value, keysDue, torn>>
    BY <1>4 DEF FoldKeys
  <2>. QED  BY <2>1, <2>6, <2>7, KeysKept
<1>5. CASE Connect
  <2>1. main'.stage = "requested"
    BY <1>5, SubscriptionTypes DEF Connect
  <2>. QED  BY <1>5, <2>1, KeysKept DEF Connect
<1>6. CASE ProbeAnswers \/ UNCHANGED vars
  <2>1. KeysTold' = KeysTold
    BY <1>6 DEF ProbeAnswers, vars, KeysTold, Opened
  <2>. QED  BY <1>6, <2>1, KeysKept DEF ProbeAnswers, vars
<1>7. ASSUME NEW k \in Keys, ServeGet(k) \/ FoldValue(k) \/ KeyFails(k) PROVE KeysAgree'
  <2>1. UNCHANGED <<protocol, last, value, keysDue, torn, main, sweep>>
    BY <1>7 DEF ServeGet, FoldValue, KeyFails
  <2>2. KeysTold' = KeysTold
    BY <1>7, <2>1, OpenedKept DEF KeysTold
  <2>. QED  BY <2>1, <2>2, KeysKept
<1>8. ASSUME NEW k \in Keys, Interrupt(k) PROVE KeysAgree'
  <2>1. Opened' = Opened \ {k} /\ k \in sweep /\ sweep' = sweep /\ main' = main
    BY <1>8 DEF Interrupt, Closed, Opened, Shape
  <2>2. KeysTold' = KeysTold
    BY <2>1 DEF KeysTold
  <2>. QED  BY <1>8, <2>2, KeysKept DEF Interrupt
<1>9. ASSUME NEW k \in Keys, Removed(k) PROVE KeysAgree'
  <2>1. Opened' = Opened /\ k \notin Opened /\ sweep' = sweep \ {k} /\ main' = main
    BY <1>9 DEF Removed, MayRemove, Opened
  <2>2. KeysTold' = KeysTold
    BY <2>1 DEF KeysTold
  <2>. QED  BY <1>9, <2>2, KeysKept DEF Removed
<1>10. CASE MirrorFails \/ MirrorEnds \/ LinkDrops
  <2>1. main'.stage = "closed" /\ UNCHANGED <<protocol, last, value, keysDue>>
    BY <1>10, SubscriptionTypes DEF MirrorFails, MirrorEnds, LinkDrops, Unwind
  <2>. QED  BY <2>1, KeysKept
<1>11. ASSUME NEW k \in Keys, Upsert(k) PROVE KeysAgree'
  <2>1. UNCHANGED <<protocol, last, torn, main, sweep>>
    BY <1>11 DEF Upsert, Write
  <2>2. KeysTold' = KeysTold
    BY <1>11, <2>1, OpenedKept DEF KeysTold
  <2>3. DOMAIN value' = DOMAIN value \cup {k}
    BY <1>11 DEF Upsert, Over, One
  <2>4. keysDue' = (keysDue \/ k \notin DOMAIN value)
    <3>1. writes + 1 # Removal
      BY <1>11 DEF Removal, Shape
    <3>. QED  BY <1>11, <3>1 DEF Upsert, Write, ChangesMembership
  <2>. QED  BY <2>1, <2>2, <2>3, <2>4, KeysKept
<1>12. ASSUME NEW k \in Keys, Remove(k) PROVE KeysAgree'
  <2>1. UNCHANGED <<protocol, last, torn, main, sweep>>
    BY <1>12 DEF Remove, Write
  <2>2. KeysTold' = KeysTold
    BY <1>12, <2>1, OpenedKept DEF KeysTold
  <2>3. DOMAIN value' = DOMAIN value \ {k}
    BY <1>12 DEF Remove, Without
  <2>4. keysDue' = (keysDue \/ k \in DOMAIN value)
    BY <1>12 DEF Remove, Write, ChangesMembership
  <2>. QED  BY <2>1, <2>2, <2>3, <2>4, KeysKept
<1>13. ~FlushDeltas /\ ~FoldDeltas
  BY EmptyMaps DEF FlushDeltas, FoldDeltas, Shape
<1>. QED
  BY <1>2, <1>3, <1>4, <1>5, <1>6, <1>7, <1>8, <1>9, <1>10, <1>11, <1>12, <1>13
  DEF Next, Progress

-----------------------------------------------------------------------------
(* Values of keys.                                                         *)

LEMMA OverOne ==
  ASSUME NEW k, NEW v, NEW g
  PROVE  k \in DOMAIN Over(One(k, v), g) /\ Over(One(k, v), g)[k] = v
BY DEF Over, One

LEMMA StreamsInit == Init => \A k \in Keys : StreamAgrees(k)
BY DEF Init, StreamAgrees, Closed

\* A step that leaves k's stream, the store and what the cache holds for k alone.
LEMMA StreamKept ==
  ASSUME NEW k \in Keys, StreamAgrees(k), get'[k] = get[k],
         k \in DOMAIN value' => k \in DOMAIN value /\ value'[k] = value[k],
         k \in Opened /\ k \in DOMAIN cache => k \in DOMAIN cache' /\ cache'[k] = cache[k]
  PROVE  StreamAgrees(k)'
BY DEF StreamAgrees, InStep, Opened

LEMMA StreamStep ==
  ASSUME Shape, Settled, Next \/ UNCHANGED vars, NEW k \in Keys, StreamAgrees(k)
  PROVE  StreamAgrees(k)'
<1>. USE DEF server, mirror
<1>1. CASE \/ FlushDeltas \/ FlushKeys \/ ServeMain \/ Connect \/ ProbeAnswers
           \/ UNCHANGED vars
  BY <1>1, StreamKept DEF FlushDeltas, FlushKeys, ServeMain, Connect, ProbeAnswers, vars
<1>2. CASE FoldDeltas
  <2>1. k \notin Opened /\ get' = get /\ value' = value
    BY <1>2 DEF FoldDeltas, Settled
  <2>. QED  BY <2>1, StreamKept
<1>3. CASE FoldKeys
  <2>. DEFINE next == Head(main.frames).keys
  <2>1. /\ get' = [j \in Keys |-> IF j \in next \ Opened THEN Requested ELSE get[j]]
        /\ cache' = Without(cache, Departed(held, next)) /\ value' = value
    BY <1>3 DEF FoldKeys
  <2>. HIDE DEF next
  <2>2. CASE k \in next \ Opened
    BY <2>1, <2>2, SubscriptionTypes DEF StreamAgrees
  <2>3. CASE k \in Opened
    <3>1. held = {}
      BY <1>3, <2>3 DEF FoldKeys, Settled
    <3>2. get'[k] = get[k]
      BY <2>1, <2>3
    <3>. QED  BY <2>1, <3>1, <3>2, StreamKept DEF Without, Departed
  <2>4. CASE k \notin next \cup Opened
    BY <2>1, <2>4, StreamKept
  <2>. QED  BY <2>2, <2>3, <2>4
<1>4. ASSUME NEW j \in Keys, ServeGet(j) PROVE StreamAgrees(k)'
  <2>1. CASE j = k
    <3>1. k \in DOMAIN value' => get'[k].frames = <<value'[k]>>
      BY <1>4, <2>1 DEF ServeGet, Served, Shape
    <3>. QED  BY <3>1 DEF StreamAgrees
  <2>2. CASE j # k
    BY <1>4, <2>2, StreamKept DEF ServeGet, Shape
  <2>. QED  BY <2>1, <2>2
<1>5. ASSUME NEW j \in Keys, FoldValue(j) PROVE StreamAgrees(k)'
  <2>1. CASE j = k
    <3>. DEFINE fs == get[k].frames
    <3>1. /\ fs \in Seq(Values) /\ fs # <<>> /\ get[k].stage = "open"
          /\ get'[k].frames = Tail(fs) /\ value' = value
          /\ cache' = Over(One(k, Head(fs)), cache)
      BY <1>5, <2>1, RestType DEF FoldValue, Shape, Subscription
    <3>2. k \in DOMAIN cache' /\ cache'[k] = Head(fs)
      BY <3>1, OverOne
    <3>3. k \in DOMAIN value => fs[Len(fs)] = value[k]
      BY <3>1 DEF StreamAgrees
    <3>. HIDE DEF fs
    <3>. QED  BY <3>1, <3>2, <3>3, LastOfTail DEF StreamAgrees, InStep
  <2>2. CASE j # k
    <3>1. get'[k] = get[k] /\ value' = value
      BY <1>5, <2>2 DEF FoldValue, Shape
    <3>2. k \in DOMAIN cache => k \in DOMAIN cache' /\ cache'[k] = cache[k]
      BY <1>5, <2>2 DEF FoldValue, Over, One
    <3>. QED  BY <3>1, <3>2, StreamKept
  <2>. QED  BY <2>1, <2>2
<1>6. ASSUME NEW j \in Keys, Interrupt(j) \/ KeyFails(j) PROVE StreamAgrees(k)'
  <2>1. get'[k] = get[k] \/ get'[k].stage # "open"
    BY <1>6 DEF Interrupt, KeyFails, Closed, Shape
  <2>2. value' = value /\ cache' = cache
    BY <1>6 DEF Interrupt, KeyFails
  <2>. QED  BY <2>1, <2>2, StreamKept DEF StreamAgrees
<1>7. ASSUME NEW j \in Keys, Removed(j) PROVE StreamAgrees(k)'
  <2>1. /\ j \notin Opened /\ get' = get /\ value' = value
        /\ cache' = Without(cache, {j})
    BY <1>7 DEF Removed, MayRemove
  <2>. QED  BY <2>1, StreamKept DEF Without
<1>8. CASE MirrorFails \/ MirrorEnds \/ LinkDrops
  <2>1. get'[k].stage = "closed"
    BY <1>8, SubscriptionTypes DEF MirrorFails, MirrorEnds, LinkDrops, Unwind
  <2>. QED  BY <2>1 DEF StreamAgrees
<1>9. ASSUME NEW j \in Keys, Upsert(j) PROVE StreamAgrees(k)'
  <2>. DEFINE v == writes + 1
  <2>1. /\ value' = Over(One(j, v), value) /\ cache' = cache
        /\ get' = [get EXCEPT ![j] = Publish(@, v)]
    BY <1>9 DEF Upsert, Write
  <2>2. v \in Values
    BY <1>9, SurfaceMirrorAssumption DEF Upsert, Write, Shape, Values
  <2>. HIDE DEF v
  <2>3. CASE j = k
    <3>1. value'[k] = v
      BY <2>1, <2>3, OverOne
    <3>2. get'[k] = Publish(get[k], v) /\ get[k].frames \in Seq(Values)
      BY <2>1, <2>3 DEF Shape, Subscription
    <3>3. get'[k].stage = "open" => get'[k].frames = Append(get[k].frames, v)
      BY <3>2 DEF Publish, Shape, Subscription
    <3>. QED  BY <2>2, <3>1, <3>2, <3>3, LastOfAppend DEF StreamAgrees
  <2>4. CASE j # k
    <3>1. k \in DOMAIN value' => k \in DOMAIN value /\ value'[k] = value[k]
      BY <2>1, <2>4 DEF Over, One
    <3>. QED  BY <2>1, <2>4, <3>1, StreamKept DEF Shape
  <2>. QED  BY <2>3, <2>4
<1>10. ASSUME NEW j \in Keys, Remove(j) PROVE StreamAgrees(k)'
  BY <1>10, StreamKept DEF Remove, Write, Without
<1>. QED
  BY <1>1, <1>2, <1>3, <1>4, <1>5, <1>6, <1>7, <1>8, <1>9, <1>10 DEF Next, Progress

-----------------------------------------------------------------------------
(* Deltas.                                                                 *)

LEMMA EndsWithAppend ==
  ASSUME NEW T, NEW fs \in Seq(T), NEW f \in T, NEW k, NEW m,
         IF Mentions(f, k) THEN Says(f, k, m) ELSE EndsWith(fs, k, m)
  PROVE  /\ EndsWith(Append(fs, f), k, m)
         /\ Silent(Append(fs, f), k) => ~Mentions(f, k) /\ Silent(fs, k)
<1>. DEFINE n == Len(fs)
            gs == Append(fs, f)
<1>1. /\ n \in Nat /\ DOMAIN fs = 1 .. n /\ DOMAIN gs = 1 .. n + 1 /\ gs[n + 1] = f
      /\ \A i \in 1 .. n : gs[i] = fs[i] /\ i \in 1 .. n + 1 /\ n + 1 > i
      /\ \A i \in 1 .. n + 1 : i = n + 1 \/ i \in 1 .. n
      /\ n + 1 \in 1 .. n + 1
  OBVIOUS
<1>. HIDE DEF n, gs
<1>2. Silent(gs, k) => ~Mentions(f, k) /\ Silent(fs, k)
  BY <1>1 DEF Silent
<1>3. ASSUME NEW i \in DOMAIN gs, Mentions(gs[i], k),
             \A j \in DOMAIN gs : j > i => ~Mentions(gs[j], k)
      PROVE  Says(gs[i], k, m)
  <2>1. CASE i = n + 1
    BY <1>1, <1>3, <2>1
  <2>2. CASE i \in 1 .. n
    <3>1. ~Mentions(f, k)
      BY <1>1, <1>3, <2>2
    <3>2. \A j \in DOMAIN fs : j > i => ~Mentions(fs[j], k)
      BY <1>1, <1>3, <2>2
    <3>3. Mentions(fs[i], k)
      BY <1>1, <1>3, <2>2
    <3>4. EndsWith(fs, k, m)
      BY <3>1
    <3>5. Says(fs[i], k, m)
      BY <1>1, <2>2, <3>2, <3>3, <3>4 DEF EndsWith
    <3>. QED  BY <1>1, <2>2, <3>5
  <2>. QED  BY <1>1, <2>1, <2>2
<1>. QED  BY <1>2, <1>3 DEF EndsWith, gs

LEMMA EndsWithTail ==
  ASSUME NEW T, NEW fs \in Seq(T), fs # <<>>, NEW k, NEW m, EndsWith(fs, k, m)
  PROVE  /\ EndsWith(Tail(fs), k, m)
         /\ Silent(Tail(fs), k) => IF Mentions(Head(fs), k) THEN Says(Head(fs), k, m)
                                   ELSE Silent(fs, k)
<1>. DEFINE n == Len(fs)
            t == Tail(fs)
<1>1. /\ n \in Nat /\ DOMAIN fs = 1 .. n /\ DOMAIN t = 1 .. n - 1 /\ Head(fs) = fs[1]
      /\ 1 \in 1 .. n
      /\ \A i \in 1 .. n - 1 : t[i] = fs[i + 1] /\ i + 1 \in 1 .. n
      /\ \A i \in 1 .. n : i = 1 \/ (i - 1 \in 1 .. n - 1 /\ t[i - 1] = fs[i])
  OBVIOUS
<1>. HIDE DEF n, t
<1>2. ASSUME NEW i \in DOMAIN t, Mentions(t[i], k),
             \A j \in DOMAIN t : j > i => ~Mentions(t[j], k)
      PROVE  Says(t[i], k, m)
  <2>1. ASSUME NEW j \in DOMAIN fs, j > i + 1 PROVE ~Mentions(fs[j], k)
    <3>1. j # 1 /\ j - 1 > i
      BY <1>1, <2>1
    <3>. QED  BY <1>1, <1>2, <3>1
  <2>2. i + 1 \in DOMAIN fs /\ Mentions(fs[i + 1], k)
    BY <1>1, <1>2
  <2>3. Says(fs[i + 1], k, m)
    BY <2>1, <2>2 DEF EndsWith
  <2>. QED  BY <1>1, <2>3
<1>3. ASSUME Silent(t, k)
      PROVE  IF Mentions(fs[1], k) THEN Says(fs[1], k, m) ELSE Silent(fs, k)
  <2>1. \A j \in DOMAIN fs : j # 1 => ~Mentions(fs[j], k)
    BY <1>1, <1>3 DEF Silent
  <2>2. \A j \in DOMAIN fs : j > 1 => j # 1
    BY <1>1
  <2>. QED  BY <1>1, <2>1, <2>2 DEF EndsWith, Silent
<1>. QED  BY <1>1, <1>2, <1>3 DEF EndsWith, t

LEMMA DeltasInit == Init => \A k \in Keys : DeltasAgree(k)
BY EmptyMaps DEF Init, DeltasAgree, Closed

\* A step that leaves the store, the tick and the main stream alone, and what
\* the cache holds for k.
LEMMA DeltasKept ==
  ASSUME NEW k \in Keys, DeltasAgree(k), UNCHANGED <<protocol, main>>,
         protocol = "deltas" =>
           /\ k \in DOMAIN pending' => k \in DOMAIN pending /\ pending'[k] = pending[k]
           /\ k \in DOMAIN pending => k \in DOMAIN pending'
           /\ k \in DOMAIN value' <=> k \in DOMAIN value
           /\ k \in DOMAIN value => value'[k] = value[k]
           /\ k \in DOMAIN cache' <=> k \in DOMAIN cache
           /\ k \in DOMAIN cache => cache'[k] = cache[k]
  PROVE  DeltasAgree(k)'
BY DEF DeltasAgree, EndsWith, Silent, Says, Mentions, True, InStep

\* What the fold of a frame makes of a key.
LEMMA FoldSays ==
  ASSUME Shape, NEW k \in Keys, NEW f \in Frames("deltas"), DOMAIN cache \subseteq held,
         IF f.kind = "snapshot" THEN FoldSnapshot(f.ops) ELSE FoldDelta(f.ops), value' = value
  PROVE  /\ Mentions(f, k) /\ Says(f, k, value) => True(k)'
         /\ ~Mentions(f, k) => (True(k)' <=> True(k))
<1>1. /\ 0 \notin Values /\ Removal = 0
      /\ k \in DOMAIN value => value[k] \in Values
  BY SurfaceMirrorAssumption, InMaps DEF Values, Removal, Shape
<1>2. CASE f.kind = "snapshot"
  <2>1. f.ops \in Maps(Keys, Values)
    BY <1>2, FrameTypes
  <2>2. \A j \in DOMAIN f.ops : f.ops[j] \in Values
    BY <2>1, InMaps
  <2>3. cache' = Over(f.ops, Without(cache, held \ DOMAIN f.ops))
    BY <1>2 DEF FoldSnapshot, Departed
  <2>4. /\ DOMAIN cache' = DOMAIN f.ops
        /\ \A j \in DOMAIN f.ops : cache'[j] = f.ops[j]
    BY <2>3 DEF Over, Without
  <2>5. Mentions(f, k) /\ (Says(f, k, value) => (k \in DOMAIN f.ops <=> k \in DOMAIN value))
    BY <1>1, <1>2, <2>2 DEF Mentions, Says
  <2>. QED  BY <2>4, <2>5 DEF True, InStep, Says
<1>3. CASE f.kind # "snapshot"
  <2>. DEFINE upserts == {j \in DOMAIN f.ops : f.ops[j] # Removal}
              removes == (held \cup upserts) \cap (DOMAIN f.ops \ upserts)
  <2>1. cache' = Over([j \in upserts |-> f.ops[j]], Without(cache, removes))
    BY <1>3 DEF FoldDelta
  <2>2. /\ DOMAIN cache' = upserts \cup (DOMAIN cache \ removes)
        /\ \A j \in upserts : cache'[j] = f.ops[j]
        /\ \A j \in DOMAIN cache \ (removes \cup upserts) : cache'[j] = cache[j]
    BY <2>1 DEF Over, Without
  <2>3. CASE ~Mentions(f, k)
    <3>1. k \notin DOMAIN f.ops
      BY <2>3 DEF Mentions
    <3>. QED  BY <2>2, <2>3, <3>1 DEF True, InStep
  <2>4. CASE Mentions(f, k)
    <3>1. k \in DOMAIN f.ops
      BY <1>3, <2>4 DEF Mentions
    <3>2. CASE k \in DOMAIN value
      BY <1>1, <2>2, <2>4, <3>1, <3>2 DEF True, InStep, Says
    <3>3. CASE k \notin DOMAIN value
      BY <2>2, <2>4, <3>1, <3>3 DEF True, Says
    <3>. QED  BY <3>2, <3>3
  <2>. QED  BY <2>3, <2>4
<1>. QED  BY <1>2, <1>3

LEMMA DeltasStep ==
  ASSUME Shape, Settled, Next \/ UNCHANGED vars, NEW k \in Keys, DeltasAgree(k)
  PROVE  DeltasAgree(k)'
<1>. USE DEF server, mirror
<1>0. protocol' = protocol
  BY DEF Next, Progress, FlushDeltas, FlushKeys, ServeMain, FoldDeltas, FoldKeys, Connect,
         ProbeAnswers, ServeGet, FoldValue, Interrupt, Removed, MirrorFails, MirrorEnds,
         LinkDrops, Unwind, Upsert, Remove, Write, KeyFails, vars
<1>. SUFFICES ASSUME protocol = "deltas" PROVE DeltasAgree(k)'
  BY <1>0 DEF DeltasAgree
<1>1. Opened = {} /\ sweep = {} /\ \A j \in Keys : get[j].stage = "closed"
  BY DEF Settled, Opened
<1>2. CASE FlushDeltas
  <2>. DEFINE f == [kind |-> "delta", ops |-> pending]
  <2>1. /\ f \in Frames(protocol) /\ main.frames \in Seq(Frames(protocol))
        /\ DOMAIN pending' = {} /\ value' = value /\ cache' = cache /\ main' = Publish(main, f)
    BY <1>2, FrameTypes, EmptyMaps DEF FlushDeltas, Shape, Subscription
  <2>2. /\ Mentions(f, k) <=> k \in DOMAIN pending
        /\ k \in DOMAIN pending => Says(f, k, value)
    BY DEF Mentions, Says, DeltasAgree
  <2>. HIDE DEF f
  <2>3. main'.stage = "open" => main.stage = "open" /\ main'.frames = Append(main.frames, f)
    BY <2>1 DEF Publish, Shape, Subscription
  <2>4. ASSUME main.stage = "open"
        PROVE  /\ EndsWith(Append(main.frames, f), k, value)
               /\ Silent(Append(main.frames, f), k) => True(k)
    BY <2>1, <2>2, <2>4, EndsWithAppend DEF DeltasAgree
  <2>5. True(k)' <=> True(k)
    BY <2>1 DEF True, InStep
  <2>. QED  BY <2>1, <2>3, <2>4, <2>5 DEF DeltasAgree
<1>3. CASE ServeMain
  <2>. DEFINE f == [kind |-> "snapshot", ops |-> value]
  <2>1. Mentions(f, k) /\ Says(f, k, value)
    BY DEF Mentions, Says
  <2>2. main'.frames = <<f>> /\ UNCHANGED <<value, pending>>
    BY <1>3 DEF ServeMain, Served
  <2>. HIDE DEF f
  <2>3. DOMAIN <<f>> = {1} /\ <<f>>[1] = f
    OBVIOUS
  <2>4. EndsWith(<<f>>, k, value) /\ ~Silent(<<f>>, k)
    BY <2>1, <2>3 DEF EndsWith, Silent
  <2>. QED  BY <2>2, <2>4 DEF DeltasAgree
<1>4. CASE FoldDeltas
  <2>. DEFINE f == Head(main.frames)
  <2>1. /\ main.stage = "open" /\ main.frames # <<>> /\ main.frames \in Seq(Frames(protocol))
        /\ main'.frames = Tail(main.frames) /\ UNCHANGED <<value, pending>>
        /\ IF f.kind = "snapshot" THEN FoldSnapshot(f.ops) ELSE FoldDelta(f.ops)
    BY <1>4, RestType DEF FoldDeltas, Fold, Shape, Subscription
  <2>2. f \in Frames("deltas") /\ DOMAIN cache \subseteq held
    BY <1>1, <2>1, HeadType DEF Settled
  <2>3. ASSUME k \notin DOMAIN pending
        PROVE  /\ EndsWith(Tail(main.frames), k, value)
               /\ Silent(Tail(main.frames), k)
                    => IF Mentions(f, k) THEN Says(f, k, value) ELSE True(k)
    BY <2>1, <2>3, EndsWithTail DEF DeltasAgree
  <2>. HIDE DEF f
  <2>4. /\ Mentions(f, k) /\ Says(f, k, value) => True(k)'
        /\ ~Mentions(f, k) => (True(k)' <=> True(k))
    BY <2>1, <2>2, FoldSays
  <2>. QED  BY <2>1, <2>3, <2>4 DEF DeltasAgree
<1>5. CASE Connect
  <2>1. main'.stage = "requested" /\ UNCHANGED <<value, pending>>
    BY <1>5, SubscriptionTypes DEF Connect
  <2>. QED  BY <2>1 DEF DeltasAgree
<1>6. CASE MirrorFails \/ MirrorEnds \/ LinkDrops
  <2>1. main'.stage = "closed" /\ UNCHANGED <<value, pending>>
    BY <1>6, SubscriptionTypes DEF MirrorFails, MirrorEnds, LinkDrops, Unwind
  <2>. QED  BY <2>1 DEF DeltasAgree
<1>7. CASE ProbeAnswers \/ UNCHANGED vars
  BY <1>7, DeltasKept DEF ProbeAnswers, vars
<1>8. ASSUME NEW j \in Keys, Upsert(j) PROVE DeltasAgree(k)'
  <2>. DEFINE v == writes + 1
  <2>1. /\ value' = Over(One(j, v), value) /\ pending' = Over(One(j, v), pending)
        /\ cache' = cache /\ main' = main
    BY <1>8 DEF Upsert, Write, Batched
  <2>. HIDE DEF v
  <2>2. CASE j = k
    <3>1. /\ k \in DOMAIN value' /\ value'[k] = v
          /\ k \in DOMAIN pending' /\ pending'[k] = v
      BY <2>1, <2>2, OverOne
    <3>. QED  BY <3>1 DEF DeltasAgree
  <2>3. CASE j # k
    BY <1>0, <2>1, <2>3, DeltasKept DEF Over, One
  <2>. QED  BY <2>2, <2>3
<1>9. ASSUME NEW j \in Keys, Remove(j) PROVE DeltasAgree(k)'
  <2>1. /\ value' = Without(value, {j}) /\ pending' = Over(One(j, Removal), pending)
        /\ cache' = cache /\ main' = main
    BY <1>9 DEF Remove, Write, Batched
  <2>2. CASE j = k
    <3>1. k \notin DOMAIN value' /\ k \in DOMAIN pending' /\ pending'[k] = Removal
      BY <2>1, <2>2, OverOne DEF Without
    <3>. QED  BY <3>1 DEF DeltasAgree
  <2>3. CASE j # k
    BY <1>0, <2>1, <2>3, DeltasKept DEF Over, One, Without
  <2>. QED  BY <2>2, <2>3
<1>10. /\ ~FlushKeys /\ ~FoldKeys
       /\ \A j \in Keys : ~(ServeGet(j) \/ FoldValue(j) \/ Interrupt(j) \/ Removed(j) \/ KeyFails(j))
  BY <1>1 DEF FlushKeys, FoldKeys, ServeGet, FoldValue, Interrupt, Removed, MayRemove, KeyFails, Shape
<1>. QED
  BY <1>2, <1>3, <1>4, <1>5, <1>6, <1>7, <1>8, <1>9, <1>10 DEF Next, Progress

-----------------------------------------------------------------------------
(* The mirror and the collection.                                          *)

LEMMA QuietIsEqual ==
  ASSUME Shape, Agreed
  PROVE  QuietMeansEqual
<1>. SUFFICES ASSUME Quiet, NEW k \in Keys, Followed(k) PROVE True(k)
  BY DEF QuietMeansEqual
<1>0. StreamAgrees(k) /\ DeltasAgree(k)
  BY DEF Agreed
<1>1. CASE protocol = "deltas"
  <2>1. DOMAIN pending = {} /\ Silent(main.frames, k)
    BY EmptyMaps DEF Quiet, Silent
  <2>. QED  BY <1>0, <1>1, <2>1 DEF Quiet, DeltasAgree
<1>2. CASE protocol = "keys"
  <2>1. KeysTold = Opened /\ KeysTold = DOMAIN value
    BY <1>2 DEF Agreed, KeysAgree, Quiet, Followed, KeysTold
  <2>2. DOMAIN cache \subseteq Opened
    BY <1>2 DEF Agreed, Settled, Quiet
  <2>3. CASE k \in DOMAIN value
    <3>1. get[k].stage = "open" /\ get[k].frames = <<>>
      BY <2>1, <2>3 DEF Opened, Quiet, Followed, Shape, Subscription, Stages
    <3>. QED  BY <1>0, <2>3, <3>1 DEF StreamAgrees, True
  <2>4. CASE k \notin DOMAIN value
    BY <2>1, <2>2, <2>4 DEF True
  <2>. QED  BY <2>3, <2>4
<1>. QED  BY <1>1, <1>2 DEF Shape

LEMMA AgreedInit == Init => Agreed
BY OrderedInit, KeysInit, SettledInit, StreamsInit, DeltasInit DEF Agreed

LEMMA AgreedStep ==
  ASSUME Shape, Agreed, Next \/ UNCHANGED vars
  PROVE  Agreed'
<1>1. Ordered' /\ KeysAgree' /\ Settled'
  BY OrderedStep, KeysStep, SettledStep DEF Agreed
<1>2. ASSUME NEW k \in Keys PROVE StreamAgrees(k)' /\ DeltasAgree(k)'
  BY StreamStep, DeltasStep DEF Agreed
<1>. QED  BY <1>1, <1>2 DEF Agreed

\* The inductive invariant of the mirror.
THEOREM MirrorAgrees == Spec => [](Shape /\ Agreed)
<1>1. Init => Shape /\ Agreed
  BY ShapeInit, AgreedInit
<1>2. Shape /\ Agreed /\ [Next]_vars => (Shape /\ Agreed)'
  BY ShapeStep, AgreedStep
<1>. QED  BY <1>1, <1>2, PTL DEF Spec

\* When nothing is in flight, the cache is the collection.
THEOREM QuietEqual == Spec => []QuietMeansEqual
BY MirrorAgrees, QuietIsEqual, PTL

-----------------------------------------------------------------------------
(* The values the mirror shows of a key only get newer.                    *)

\* The frames that bring a value of k.
Brings(f, k) == k \in DOMAIN f.ops /\ f.ops[k] # Removal
Bringing(fs, k) == {i \in DOMAIN fs : Brings(fs[i], k)}

\* Values, and the values that frames bring: all from v on, up to v, in order.
From(fs, v) == \A i \in DOMAIN fs : v <= fs[i]
UpTo(fs, v) == \A i \in DOMAIN fs : fs[i] <= v
Rising(fs) == \A i, j \in DOMAIN fs : i < j => fs[i] <= fs[j]
OpsFrom(fs, k, v) == \A i \in Bringing(fs, k) : v <= fs[i].ops[k]
OpsUpTo(fs, k, v) == \A i \in Bringing(fs, k) : fs[i].ops[k] <= v
OpsRising(fs, k) == \A i, j \in Bringing(fs, k) : i < j => fs[i].ops[k] <= fs[j].ops[k]

\* Whatever of k is stored, due or on its way is no older than v.
NotOlder(k, v) ==
  /\ v <= writes
  /\ k \in DOMAIN value => v <= value[k]
  /\ k \in DOMAIN pending => pending[k] = Removal \/ v <= pending[k]
  /\ From(get[k].frames, v)
  /\ protocol = "deltas" => OpsFrom(main.frames, k, v)

\* Nor is what the mirror shows.
Past(k, v) == NotOlder(k, v) /\ (k \in DOMAIN cache => v <= cache[k])

\* What is on its way comes in the order in which it was written.
FramesRise(k) ==
  /\ k \in DOMAIN value => value[k] <= writes /\ UpTo(get[k].frames, value[k])
  /\ UpTo(get[k].frames, writes) /\ Rising(get[k].frames)
  /\ get[k].stage = "closed" => get[k].frames = <<>>
OpsRise(k) ==
  protocol = "deltas" =>
    /\ OpsUpTo(main.frames, k, writes) /\ OpsRising(main.frames, k)
    /\ k \in DOMAIN value => OpsUpTo(main.frames, k, value[k])
    /\ k \in DOMAIN pending => pending[k] = Removal \/ OpsUpTo(main.frames, k, pending[k])

Newest(k) == k \in DOMAIN cache => NotOlder(k, cache[k])

InOrder(k) == FramesRise(k) /\ OpsRise(k) /\ Newest(k)

LEMMA TailRises ==
  ASSUME NEW T, NEW fs \in Seq(T), fs # <<>>, NEW v
  PROVE  /\ From(fs, v) => From(Tail(fs), v) /\ v <= Head(fs)
         /\ UpTo(fs, v) => UpTo(Tail(fs), v) /\ Head(fs) <= v
         /\ Rising(fs) => Rising(Tail(fs)) /\ From(Tail(fs), Head(fs))
<1>. DEFINE t == Tail(fs)
<1>1. /\ Head(fs) = fs[1] /\ 1 \in DOMAIN fs
      /\ \A i \in DOMAIN t : t[i] = fs[i + 1] /\ i + 1 \in DOMAIN fs /\ 1 < i + 1
      /\ \A i, j \in DOMAIN t : i < j => i + 1 < j + 1
  OBVIOUS
<1>. HIDE DEF t
<1>2. From(fs, v) => From(t, v) /\ v <= fs[1]
  BY <1>1 DEF From
<1>3. UpTo(fs, v) => UpTo(t, v) /\ fs[1] <= v
  BY <1>1 DEF UpTo
<1>4. Rising(fs) => Rising(t) /\ From(t, fs[1])
  BY <1>1 DEF Rising, From
<1>. QED  BY <1>1, <1>2, <1>3, <1>4 DEF t

LEMMA AppendRises ==
  ASSUME NEW T, NEW fs \in Seq(T), NEW f \in T, NEW v
  PROVE  /\ From(fs, v) /\ v <= f => From(Append(fs, f), v)
         /\ UpTo(fs, v) /\ f <= v => UpTo(Append(fs, f), v)
         /\ Rising(fs) /\ UpTo(fs, f) => Rising(Append(fs, f))
<1>. DEFINE gs == Append(fs, f)
            n == Len(fs)
<1>1. /\ \A i \in DOMAIN gs : (i = n + 1 /\ gs[i] = f) \/ (i \in DOMAIN fs /\ gs[i] = fs[i])
      /\ \A i \in DOMAIN gs : ~(n + 1 < i)
  OBVIOUS
<1>. HIDE DEF gs, n
<1>2. From(fs, v) /\ v <= f => From(gs, v)
  BY <1>1 DEF From
<1>3. UpTo(fs, v) /\ f <= v => UpTo(gs, v)
  BY <1>1 DEF UpTo
<1>4. ASSUME Rising(fs), UpTo(fs, f), NEW i \in DOMAIN gs, NEW j \in DOMAIN gs, i < j
      PROVE  gs[i] <= gs[j]
  <2>1. i \in DOMAIN fs /\ gs[i] = fs[i]
    BY <1>1, <1>4
  <2>2. CASE j = n + 1 /\ gs[j] = f
    BY <1>4, <2>1, <2>2 DEF UpTo
  <2>3. CASE j \in DOMAIN fs /\ gs[j] = fs[j]
    BY <1>4, <2>1, <2>3 DEF Rising
  <2>. QED  BY <1>1, <2>2, <2>3
<1>. QED  BY <1>2, <1>3, <1>4 DEF Rising, gs

LEMMA TailOpsRise ==
  ASSUME NEW T, NEW fs \in Seq(T), fs # <<>>, NEW k, NEW v
  PROVE  /\ OpsFrom(fs, k, v) => /\ OpsFrom(Tail(fs), k, v)
                                 /\ Brings(Head(fs), k) => v <= Head(fs).ops[k]
         /\ OpsUpTo(fs, k, v) => /\ OpsUpTo(Tail(fs), k, v)
                                 /\ Brings(Head(fs), k) => Head(fs).ops[k] <= v
         /\ OpsRising(fs, k) => /\ OpsRising(Tail(fs), k)
                                /\ Brings(Head(fs), k) => OpsFrom(Tail(fs), k, Head(fs).ops[k])
<1>. DEFINE t == Tail(fs)
<1>1. /\ Head(fs) = fs[1] /\ 1 \in DOMAIN fs
      /\ \A i \in DOMAIN t : t[i] = fs[i + 1] /\ i + 1 \in DOMAIN fs /\ 1 < i + 1
      /\ \A i, j \in DOMAIN t : i < j => i + 1 < j + 1
  OBVIOUS
<1>. HIDE DEF t
<1>2. /\ \A i \in Bringing(t, k) : t[i] = fs[i + 1] /\ i + 1 \in Bringing(fs, k) /\ 1 < i + 1
      /\ Brings(fs[1], k) => 1 \in Bringing(fs, k)
  BY <1>1 DEF Bringing
<1>3. \A i, j \in Bringing(t, k) : i < j => i + 1 < j + 1
  BY <1>1 DEF Bringing
<1>4. OpsFrom(fs, k, v) => OpsFrom(t, k, v) /\ (Brings(fs[1], k) => v <= fs[1].ops[k])
  BY <1>2 DEF OpsFrom
<1>5. OpsUpTo(fs, k, v) => OpsUpTo(t, k, v) /\ (Brings(fs[1], k) => fs[1].ops[k] <= v)
  BY <1>2 DEF OpsUpTo
<1>6. OpsRising(fs, k) => OpsRising(t, k)
  BY <1>2, <1>3 DEF OpsRising
<1>7. OpsRising(fs, k) /\ Brings(fs[1], k) => OpsFrom(t, k, fs[1].ops[k])
  BY <1>2 DEF OpsRising, OpsFrom
<1>. QED  BY <1>1, <1>4, <1>5, <1>6, <1>7 DEF t

LEMMA AppendOpsRise ==
  ASSUME NEW T, NEW fs \in Seq(T), NEW f \in T, NEW k, NEW v
  PROVE  /\ OpsFrom(fs, k, v) /\ (Brings(f, k) => v <= f.ops[k]) => OpsFrom(Append(fs, f), k, v)
         /\ OpsUpTo(fs, k, v) /\ (Brings(f, k) => f.ops[k] <= v) => OpsUpTo(Append(fs, f), k, v)
         /\ OpsRising(fs, k) /\ (Brings(f, k) => OpsUpTo(fs, k, f.ops[k]))
              => OpsRising(Append(fs, f), k)
<1>. DEFINE gs == Append(fs, f)
            n == Len(fs)
<1>1. /\ \A i \in DOMAIN gs : (i = n + 1 /\ gs[i] = f) \/ (i \in DOMAIN fs /\ gs[i] = fs[i])
      /\ \A i \in DOMAIN gs : ~(n + 1 < i)
  OBVIOUS
<1>. HIDE DEF gs, n
<1>2. \A i \in Bringing(gs, k) : \/ i = n + 1 /\ gs[i] = f /\ Brings(f, k)
                                 \/ i \in Bringing(fs, k) /\ gs[i] = fs[i]
  BY <1>1 DEF Bringing
<1>3. OpsFrom(fs, k, v) /\ (Brings(f, k) => v <= f.ops[k]) => OpsFrom(gs, k, v)
  BY <1>2 DEF OpsFrom
<1>4. OpsUpTo(fs, k, v) /\ (Brings(f, k) => f.ops[k] <= v) => OpsUpTo(gs, k, v)
  BY <1>2 DEF OpsUpTo
<1>5. ASSUME OpsRising(fs, k), Brings(f, k) => OpsUpTo(fs, k, f.ops[k]),
             NEW i \in Bringing(gs, k), NEW j \in Bringing(gs, k), i < j
      PROVE  gs[i].ops[k] <= gs[j].ops[k]
  <2>1. i \in Bringing(fs, k) /\ gs[i] = fs[i]
    BY <1>1, <1>2, <1>5 DEF Bringing
  <2>2. CASE j = n + 1 /\ gs[j] = f /\ Brings(f, k)
    BY <1>5, <2>1, <2>2 DEF OpsUpTo
  <2>3. CASE j \in Bringing(fs, k) /\ gs[j] = fs[j]
    BY <1>5, <2>1, <2>3 DEF OpsRising
  <2>. QED  BY <1>2, <2>2, <2>3
<1>. QED  BY <1>3, <1>4, <1>5 DEF OpsRising, gs

\* The numbers that are compared.
LEMMA NumbersAre ==
  ASSUME Shape, NEW k \in Keys
  PROVE  /\ writes \in Nat /\ Values \subseteq Nat
         /\ k \in DOMAIN value => value[k] \in Nat
         /\ k \in DOMAIN cache => cache[k] \in Nat
         /\ k \in DOMAIN pending => pending[k] \in Nat
         /\ get[k].frames \in Seq(Values)
         /\ \A i \in DOMAIN get[k].frames : get[k].frames[i] \in Nat
         /\ main.frames \in Seq(Frames(protocol))
         /\ protocol = "deltas" =>
              \A i \in Bringing(main.frames, k) : main.frames[i].ops[k] \in Nat
<1>1. Values \subseteq Nat /\ Marks \subseteq Nat /\ writes \in Nat
  BY SurfaceMirrorAssumption DEF Values, Marks, Removal, Shape
<1>2. /\ k \in DOMAIN value => value[k] \in Nat
      /\ k \in DOMAIN cache => cache[k] \in Nat
      /\ k \in DOMAIN pending => pending[k] \in Nat
  BY <1>1, InMaps DEF Shape
<1>3. get[k].frames \in Seq(Values) /\ main.frames \in Seq(Frames(protocol))
  BY DEF Shape, Subscription
<1>4. \A i \in DOMAIN get[k].frames : get[k].frames[i] \in Nat
  <2>. DEFINE fs == get[k].frames
  <2>1. fs \in Seq(Values)
    BY <1>3
  <2>. HIDE DEF fs
  <2>2. \A i \in DOMAIN fs : fs[i] \in Values
    BY <2>1
  <2>. QED  BY <1>1, <2>2 DEF fs
<1>5. ASSUME protocol = "deltas", NEW i \in Bringing(main.frames, k)
      PROVE  main.frames[i].ops[k] \in Nat
  <2>1. main.frames[i] \in Frames("deltas") /\ k \in DOMAIN main.frames[i].ops
    BY <1>3, <1>5 DEF Bringing, Brings
  <2>2. \/ main.frames[i].ops \in Maps(Keys, Values)
        \/ main.frames[i].ops \in Maps(Keys, Marks)
    BY <2>1, FrameTypes
  <2>. QED  BY <1>1, <2>1, <2>2, InMaps
<1>. QED  BY <1>1, <1>2, <1>3, <1>4, <1>5

LEMMA OrderInit == Init => \A k \in Keys : InOrder(k)
<1>. SUFFICES ASSUME Init, NEW k \in Keys PROVE InOrder(k)
  OBVIOUS
<1>1. /\ DOMAIN value = {} /\ DOMAIN pending = {} /\ DOMAIN cache = {}
      /\ main.frames = <<>> /\ get[k].frames = <<>>
  BY EmptyMaps, SubscriptionTypes DEF Init
<1>. QED
  BY <1>1 DEF InOrder, FramesRise, OpsRise, Newest, UpTo, Rising, OpsUpTo, OpsRising, Bringing

\* A step that shows and writes nothing of k, though frames may be dropped and
\* k be removed.
LEMMA OrderKept ==
  ASSUME Shape, writes' \in Nat, NEW k \in Keys, InOrder(k),
         protocol' = protocol, writes <= writes',
         k \in DOMAIN value' => k \in DOMAIN value /\ value'[k] = value[k],
         k \in DOMAIN pending' => \/ pending'[k] = Removal
                                  \/ k \in DOMAIN pending /\ pending'[k] = pending[k],
         k \in DOMAIN cache' => k \in DOMAIN cache /\ cache'[k] = cache[k],
         get'[k] = get[k] \/ get'[k].frames = <<>>,
         protocol = "deltas" => main'.frames = main.frames \/ main'.frames = <<>>
  PROVE  InOrder(k)' /\ \A v \in Nat : Past(k, v) => Past(k, v)'
<1>. USE NumbersAre
<1>1. /\ From(<<>>, 0) /\ \A v : From(<<>>, v) /\ UpTo(<<>>, v) /\ OpsFrom(<<>>, k, v)
      /\ \A v : OpsUpTo(<<>>, k, v)
      /\ Rising(<<>>) /\ OpsRising(<<>>, k)
  BY DEF From, UpTo, Rising, OpsFrom, OpsUpTo, OpsRising, Bringing
<1>2. ASSUME NEW v \in Nat, NotOlder(k, v) PROVE NotOlder(k, v)'
  <2>1. v <= writes'
    BY <1>2 DEF NotOlder
  <2>2. From(get'[k].frames, v)
    BY <1>1, <1>2 DEF NotOlder
  <2>3. protocol = "deltas" => OpsFrom(main'.frames, k, v)
    BY <1>1, <1>2 DEF NotOlder
  <2>. QED  BY <1>2, <2>1, <2>2, <2>3 DEF NotOlder
<1>3. \A v \in Nat : Past(k, v) => Past(k, v)'
  BY <1>2 DEF Past
<1>4. UpTo(get[k].frames, writes) => UpTo(get[k].frames, writes')
  BY DEF UpTo
<1>5. protocol = "deltas" /\ OpsUpTo(main.frames, k, writes) => OpsUpTo(main.frames, k, writes')
  BY DEF OpsUpTo
<1>6. FramesRise(k)'
  BY <1>1, <1>4 DEF InOrder, FramesRise
<1>7. OpsRise(k)'
  BY <1>1, <1>5 DEF InOrder, OpsRise
<1>8. Newest(k)'
  BY <1>2 DEF InOrder, Newest
<1>. QED  BY <1>3, <1>6, <1>7, <1>8 DEF InOrder

\* A frame of deltas: it is folded, and what it brings of k is shown.
LEMMA OrderFold ==
  ASSUME Shape, Settled, NEW k \in Keys, InOrder(k), FoldDeltas
  PROVE  InOrder(k)' /\ \A v \in Nat : Past(k, v) => Past(k, v)'
<1>. DEFINE fs == main.frames
            f == Head(fs)
<1>1. /\ protocol = "deltas" /\ fs # <<>> /\ main'.frames = Tail(fs)
      /\ fs \in Seq(Frames("deltas"))
      /\ UNCHANGED <<protocol, value, writes, pending, get>>
      /\ IF f.kind = "snapshot" THEN FoldSnapshot(f.ops) ELSE FoldDelta(f.ops)
  BY RestType DEF FoldDeltas, Fold, Shape, Subscription, server
<1>2. f \in Frames("deltas")
  BY <1>1, HeadType
<1>3. k \in DOMAIN cache' => \/ k \in DOMAIN cache /\ cache'[k] = cache[k]
                             \/ Brings(f, k) /\ cache'[k] = f.ops[k]
  <2>1. CASE f.kind = "snapshot"
    <3>1. k \in DOMAIN f.ops => f.ops[k] # Removal
      BY <1>2, <2>1, FrameTypes, InMaps, SurfaceMirrorAssumption DEF Values, Removal
    <3>. QED  BY <1>1, <2>1, <3>1 DEF FoldSnapshot, Over, Without, Brings
  <2>2. CASE f.kind # "snapshot"
    BY <1>1, <2>2 DEF FoldDelta, Over, Without, Brings
  <2>. QED  BY <2>1, <2>2
<1>. HIDE DEF f
<1>4. ASSUME NEW v, NotOlder(k, v) PROVE NotOlder(k, v)'
  BY <1>1, <1>4, TailOpsRise DEF NotOlder, f
<1>5. ASSUME NEW x, Brings(f, k), x = f.ops[k] PROVE NotOlder(k, x)'
  <2>1. get[k].frames = <<>>
    BY <1>1 DEF Settled, Opened, InOrder, FramesRise
  <2>2. From(get'[k].frames, x)
    BY <1>1, <2>1 DEF From
  <2>3. OpsFrom(main'.frames, k, x)
    BY <1>1, <1>5, TailOpsRise DEF InOrder, OpsRise, f
  <2>4. /\ x <= writes
        /\ k \in DOMAIN value => x <= value[k]
        /\ k \in DOMAIN pending => pending[k] = Removal \/ x <= pending[k]
    BY <1>1, <1>5, TailOpsRise DEF InOrder, OpsRise, f
  <2>. QED  BY <1>1, <2>2, <2>3, <2>4 DEF NotOlder
<1>6. ASSUME NEW v \in Nat, Past(k, v) PROVE Past(k, v)'
  <2>1. Brings(f, k) => v <= f.ops[k]
    BY <1>1, <1>6, TailOpsRise DEF Past, NotOlder, f
  <2>. QED  BY <1>3, <1>4, <1>6, <2>1 DEF Past
<1>7. FramesRise(k)'
  BY <1>1 DEF InOrder, FramesRise
<1>8. OpsRise(k)'
  <2>1. /\ OpsUpTo(Tail(fs), k, writes) /\ OpsRising(Tail(fs), k)
        /\ k \in DOMAIN value => OpsUpTo(Tail(fs), k, value[k])
    BY <1>1, TailOpsRise DEF InOrder, OpsRise
  <2>2. k \in DOMAIN pending => pending[k] = Removal \/ OpsUpTo(Tail(fs), k, pending[k])
    BY <1>1, TailOpsRise DEF InOrder, OpsRise
  <2>. QED  BY <1>1, <2>1, <2>2 DEF OpsRise
<1>9. Newest(k)'
  BY <1>3, <1>4, <1>5 DEF InOrder, Newest
<1>. QED  BY <1>6, <1>7, <1>8, <1>9 DEF InOrder

\* A value of k's own stream: it is folded and shown.
LEMMA OrderValue ==
  ASSUME Shape, Settled, NEW k \in Keys, InOrder(k), FoldValue(k)
  PROVE  InOrder(k)' /\ \A v \in Nat : Past(k, v) => Past(k, v)'
<1>. DEFINE fs == get[k].frames
            f == Head(fs)
<1>1. /\ fs \in Seq(Values) /\ fs # <<>> /\ get'[k].frames = Tail(fs) /\ k \in Opened
      /\ UNCHANGED <<protocol, value, writes, pending, main>>
      /\ cache' = Over(One(k, f), cache)
  BY RestType DEF FoldValue, Shape, Subscription, server, Opened
<1>2. protocol # "deltas" /\ DOMAIN pending = {}
  BY <1>1, EmptyMaps DEF Settled, Shape
<1>3. k \in DOMAIN cache' /\ cache'[k] = f
  BY <1>1, OverOne
<1>. HIDE DEF f
<1>4. ASSUME NEW v, NotOlder(k, v) PROVE NotOlder(k, v)'
  BY <1>1, <1>4, TailRises DEF NotOlder
<1>5. ASSUME NEW x, x = f PROVE NotOlder(k, x)'
  <2>1. /\ x <= writes
        /\ k \in DOMAIN value => x <= value[k]
        /\ From(get'[k].frames, x)
    BY <1>1, <1>5, TailRises DEF InOrder, FramesRise, f
  <2>. QED  BY <1>1, <1>2, <2>1 DEF NotOlder
<1>6. ASSUME NEW v \in Nat, Past(k, v) PROVE Past(k, v)'
  <2>1. v <= f
    BY <1>1, <1>6, TailRises DEF Past, NotOlder, f
  <2>. QED  BY <1>3, <1>4, <1>6, <2>1 DEF Past
<1>7. FramesRise(k)'
  BY <1>1, TailRises DEF InOrder, FramesRise, FoldValue, Rest
<1>8. OpsRise(k)' /\ Newest(k)'
  BY <1>1, <1>2, <1>3, <1>5 DEF OpsRise, Newest
<1>. QED  BY <1>6, <1>7, <1>8 DEF InOrder

\* What is published or read afresh is no older than anything of k before it.
LEMMA OrderServed ==
  ASSUME Shape, NEW k \in Keys, InOrder(k), DeltasAgree(k),
         FlushDeltas \/ ServeMain \/ ServeGet(k)
  PROVE  InOrder(k)' /\ \A v \in Nat : Past(k, v) => Past(k, v)'
<1>0. /\ UNCHANGED <<protocol, value, writes, cache>>
      /\ k \in DOMAIN pending' => k \in DOMAIN pending /\ pending'[k] = pending[k]
  BY EmptyMaps DEF FlushDeltas, ServeMain, ServeGet, server, mirror
<1>1. SUFFICES /\ FramesRise(k)' /\ OpsRise(k)'
               /\ \A v \in Nat : NotOlder(k, v) => NotOlder(k, v)'
  <2>1. Newest(k)'
    BY <1>0, <1>1, NumbersAre DEF InOrder, Newest
  <2>. QED  BY <1>0, <1>1, <2>1 DEF InOrder, Past
<1>2. CASE FlushDeltas
  <2>. DEFINE f == [kind |-> "delta", ops |-> pending]
              fs == main.frames
  <2>1. /\ DOMAIN pending' = {} /\ get' = get
        /\ protocol = "deltas" => fs \in Seq(Frames("deltas")) /\ f \in Frames("deltas")
        /\ main'.frames = fs \/ main'.frames = Append(fs, f)
    BY <1>2, EmptyMaps, FrameTypes DEF FlushDeltas, Shape, Subscription, Publish
  <2>2. Brings(f, k) => k \in DOMAIN pending /\ pending[k] # Removal /\ f.ops[k] = pending[k]
    BY DEF Brings
  <2>3. protocol = "deltas" /\ Brings(f, k) => k \in DOMAIN value /\ f.ops[k] = value[k]
    BY <2>2 DEF DeltasAgree
  <2>. HIDE DEF f, fs
  <2>4. FramesRise(k)'
    BY <1>0, <2>1 DEF InOrder, FramesRise
  <2>5. ASSUME protocol = "deltas" PROVE OpsRise(k)'
    <3>1. /\ OpsUpTo(fs, k, writes) /\ OpsRising(fs, k)
          /\ k \in DOMAIN value => OpsUpTo(fs, k, value[k])
          /\ Brings(f, k) => OpsUpTo(fs, k, f.ops[k])
      BY <2>2, <2>5 DEF InOrder, OpsRise, fs
    <3>2. Brings(f, k) => f.ops[k] <= writes
      BY <2>3, <2>5 DEF InOrder, FramesRise
    <3>3. k \in DOMAIN value => value[k] \in Nat
      BY NumbersAre
    <3>4. /\ OpsUpTo(Append(fs, f), k, writes) /\ OpsRising(Append(fs, f), k)
      BY <2>1, <2>5, <3>1, <3>2, AppendOpsRise
    <3>5. ASSUME k \in DOMAIN value PROVE OpsUpTo(Append(fs, f), k, value[k])
      <4>1. Brings(f, k) => f.ops[k] <= value[k]
        BY <2>3, <2>5, <3>3, <3>5
      <4>. QED  BY <2>1, <2>5, <3>1, <3>5, <4>1, AppendOpsRise
    <3>. QED  BY <1>0, <2>1, <3>1, <3>4, <3>5 DEF OpsRise
  <2>6. ASSUME NEW v \in Nat, NotOlder(k, v) PROVE NotOlder(k, v)'
    <3>1. ASSUME protocol = "deltas" PROVE OpsFrom(main'.frames, k, v)
      <4>1. OpsFrom(fs, k, v) /\ (Brings(f, k) => v <= f.ops[k])
        BY <2>2, <2>6, <3>1 DEF NotOlder, fs
      <4>. QED  BY <2>1, <3>1, <4>1, AppendOpsRise
    <3>. QED  BY <1>0, <2>1, <2>6, <3>1 DEF NotOlder
  <2>. QED  BY <1>0, <2>4, <2>5, <2>6 DEF OpsRise
<1>3. CASE ServeMain
  <2>. DEFINE f == [kind |-> "snapshot", ops |-> value]
  <2>1. /\ protocol = "deltas" => main'.frames = <<f>>
        /\ get' = get /\ pending' = pending
    BY <1>3 DEF ServeMain, Served, server
  <2>2. DOMAIN <<f>> = {1} /\ <<f>>[1] = f
    OBVIOUS
  <2>3. Brings(f, k) => k \in DOMAIN value /\ f.ops[k] = value[k]
    BY DEF Brings
  <2>. HIDE DEF f
  <2>4. \A i \in Bringing(<<f>>, k) : i = 1 /\ <<f>>[i].ops[k] = value[k] /\ k \in DOMAIN value
    BY <2>2, <2>3 DEF Bringing
  <2>5. FramesRise(k)'
    BY <1>0, <2>1 DEF InOrder, FramesRise
  <2>6. ASSUME protocol = "deltas" PROVE OpsRise(k)'
    <3>1. OpsUpTo(<<f>>, k, writes)
      BY <2>4 DEF OpsUpTo, InOrder, FramesRise
    <3>2. OpsRising(<<f>>, k)
      BY <2>4 DEF OpsRising
    <3>3. k \in DOMAIN value => OpsUpTo(<<f>>, k, value[k])
      BY <2>4, NumbersAre DEF OpsUpTo
    <3>4. k \in DOMAIN pending /\ pending[k] # Removal => OpsUpTo(<<f>>, k, pending[k])
      <4>1. k \in DOMAIN pending /\ k \in DOMAIN value => pending[k] = value[k]
        BY <2>6 DEF DeltasAgree
      <4>2. k \in DOMAIN pending /\ k \notin DOMAIN value => pending[k] = Removal
        BY <2>6 DEF DeltasAgree
      <4>. QED  BY <3>3, <4>1, <4>2
    <3>. QED  BY <1>0, <2>1, <3>1, <3>2, <3>3, <3>4 DEF OpsRise
  <2>7. ASSUME NEW v \in Nat, NotOlder(k, v) PROVE NotOlder(k, v)'
    <3>1. OpsFrom(<<f>>, k, v)
      BY <2>4, <2>7 DEF OpsFrom, NotOlder
    <3>. QED  BY <1>0, <2>1, <2>7, <3>1 DEF NotOlder
  <2>. QED  BY <1>0, <2>5, <2>6, <2>7 DEF OpsRise
<1>4. CASE ServeGet(k)
  <2>1. /\ get'[k].frames = IF k \in DOMAIN value THEN <<value[k]>> ELSE <<>>
        /\ get'[k].stage = "open"
        /\ main' = main /\ pending' = pending
    BY <1>4 DEF ServeGet, Served, Shape, server
  <2>2. \A i \in DOMAIN get'[k].frames :
          i = 1 /\ get'[k].frames[i] = value[k] /\ k \in DOMAIN value
    BY <2>1
  <2>3. FramesRise(k)'
    <3>1. UpTo(get'[k].frames, writes) /\ Rising(get'[k].frames)
      BY <2>2, NumbersAre DEF UpTo, Rising, InOrder, FramesRise
    <3>2. k \in DOMAIN value => UpTo(get'[k].frames, value[k])
      BY <2>2, NumbersAre DEF UpTo
    <3>. QED  BY <1>0, <2>1, <3>1, <3>2 DEF FramesRise, InOrder
  <2>4. OpsRise(k)'
    BY <1>0, <2>1 DEF InOrder, OpsRise
  <2>5. ASSUME NEW v \in Nat, NotOlder(k, v) PROVE NotOlder(k, v)'
    <3>1. From(get'[k].frames, v)
      BY <2>2, <2>5 DEF From, NotOlder
    <3>. QED  BY <1>0, <2>1, <2>5, <3>1 DEF NotOlder
  <2>. QED  BY <2>3, <2>4, <2>5
<1>. QED  BY <1>2, <1>3, <1>4

\* A new value of k is newer than everything of k.
LEMMA OrderUpsert ==
  ASSUME Shape, Settled, NEW k \in Keys, InOrder(k), Upsert(k)
  PROVE  InOrder(k)' /\ \A v \in Nat : Past(k, v) => Past(k, v)'
<1>. DEFINE n == writes + 1
            fs == get[k].frames
<1>1. /\ writes' = n /\ UNCHANGED <<protocol, main, cache>>
      /\ value' = Over(One(k, n), value)
      /\ protocol = "deltas" => pending' = Over(One(k, n), pending)
      /\ protocol # "deltas" => pending' = pending
      /\ get'[k] = Publish(get[k], n)
  BY DEF Upsert, Write, Batched, mirror, Shape
<1>2. n \in Values /\ n \in Nat /\ writes \in Nat /\ writes <= n
  BY NumbersAre, SurfaceMirrorAssumption DEF Upsert, Write, Values
<1>. HIDE DEF n
<1>3. /\ k \in DOMAIN value' /\ value'[k] = n
      /\ k \in DOMAIN pending' /\ protocol = "deltas" => pending'[k] = n
  BY <1>1, OverOne
<1>4. /\ fs \in Seq(Values)
      /\ get'[k].frames = fs \/ get'[k].frames = Append(fs, n)
      /\ get'[k].stage = "closed" => get'[k].frames = <<>>
  BY <1>1, NumbersAre DEF Publish, Shape, Subscription, InOrder, FramesRise
<1>5. UpTo(fs, n) /\ Rising(fs)
  BY <1>2, NumbersAre DEF InOrder, FramesRise, UpTo
<1>6. UpTo(get'[k].frames, n) /\ Rising(get'[k].frames)
  <2>1. n <= n
    BY <1>2
  <2>2. UpTo(Append(fs, n), n) /\ Rising(Append(fs, n))
    BY <1>2, <1>4, <1>5, <2>1, AppendRises
  <2>. QED  BY <1>4, <1>5, <2>2
<1>7. protocol = "deltas" => OpsUpTo(main.frames, k, n) /\ OpsRising(main.frames, k)
  BY <1>2, NumbersAre DEF InOrder, OpsRise, OpsUpTo
<1>8. FramesRise(k)'
  BY <1>1, <1>2, <1>3, <1>4, <1>6 DEF FramesRise
<1>9. OpsRise(k)'
  BY <1>1, <1>3, <1>7 DEF OpsRise
<1>10. ASSUME NEW v \in Nat, NotOlder(k, v) PROVE NotOlder(k, v)'
  <2>1. v <= n
    BY <1>2, <1>10 DEF NotOlder
  <2>2. From(get'[k].frames, v)
    BY <1>2, <1>4, <1>10, <2>1, AppendRises DEF NotOlder
  <2>3. k \in DOMAIN pending' => pending'[k] = Removal \/ v <= pending'[k]
    BY <1>1, <1>3, <1>10, <2>1 DEF NotOlder
  <2>. QED  BY <1>1, <1>3, <1>10, <2>1, <2>2, <2>3 DEF NotOlder
<1>11. Newest(k)'
  BY <1>1, <1>10, NumbersAre DEF InOrder, Newest
<1>. QED  BY <1>1, <1>8, <1>9, <1>10, <1>11 DEF InOrder, Past

LEMMA OrderStep ==
  ASSUME Shape, Shape', Settled, Next \/ UNCHANGED vars,
         NEW k \in Keys, InOrder(k), DeltasAgree(k)
  PROVE  InOrder(k)' /\ \A v \in Nat : Past(k, v) => Past(k, v)'
<1>. USE DEF server, mirror
<1>0. writes' \in Nat /\ writes <= writes'
  <2>1. writes' \in Nat /\ writes \in Nat
    BY SurfaceMirrorAssumption DEF Shape
  <2>2. writes' = writes \/ writes' = writes + 1
    BY DEF Next, Progress, FlushDeltas, FlushKeys, ServeMain, FoldDeltas, FoldKeys, Connect,
           ProbeAnswers, ServeGet, FoldValue, Interrupt, Removed, MirrorFails, MirrorEnds,
           LinkDrops, Unwind, Upsert, Remove, Write, KeyFails, vars
  <2>. QED  BY <2>1, <2>2
<1>1. CASE FlushDeltas \/ ServeMain
  BY <1>1, OrderServed
<1>2. CASE FoldDeltas
  BY <1>2, OrderFold
<1>3. CASE FlushKeys
  <2>1. protocol # "deltas"
    BY <1>3 DEF FlushKeys, Shape
  <2>. QED  BY <1>0, <1>3, <2>1, OrderKept DEF FlushKeys
<1>4. CASE FoldKeys
  <2>1. protocol # "deltas" /\ UNCHANGED <<protocol, value, writes, pending>>
    BY <1>4 DEF FoldKeys
  <2>2. get'[k] = get[k] \/ get'[k].frames = <<>>
    BY <1>4, SubscriptionTypes DEF FoldKeys
  <2>3. k \in DOMAIN cache' => k \in DOMAIN cache /\ cache'[k] = cache[k]
    BY <1>4 DEF FoldKeys, Without
  <2>. QED  BY <1>0, <2>1, <2>2, <2>3, OrderKept
<1>5. CASE ProbeAnswers \/ UNCHANGED vars
  BY <1>0, <1>5, OrderKept DEF ProbeAnswers, vars
<1>6. CASE Connect \/ MirrorFails \/ MirrorEnds \/ LinkDrops
  <2>1. UNCHANGED <<protocol, value, writes, pending, cache>> /\ main'.frames = <<>>
    BY <1>6, SubscriptionTypes DEF Connect, MirrorFails, MirrorEnds, LinkDrops, Unwind
  <2>2. get'[k] = get[k] \/ get'[k].frames = <<>>
    BY <1>6, SubscriptionTypes DEF Connect, MirrorFails, MirrorEnds, LinkDrops, Unwind
  <2>. QED  BY <1>0, <2>1, <2>2, OrderKept
<1>7. ASSUME NEW j \in Keys, ServeGet(j) \/ FoldValue(j)
      PROVE  InOrder(k)' /\ \A v \in Nat : Past(k, v) => Past(k, v)'
  <2>1. CASE j = k
    BY <1>7, <2>1, OrderServed, OrderValue
  <2>2. CASE j # k
    <3>1. /\ UNCHANGED <<protocol, value, writes, pending, main>> /\ get'[k] = get[k]
      BY <1>7, <2>2 DEF ServeGet, FoldValue, Shape
    <3>2. k \in DOMAIN cache' => k \in DOMAIN cache /\ cache'[k] = cache[k]
      BY <1>7, <2>2 DEF ServeGet, FoldValue, Over, One
    <3>. QED  BY <1>0, <3>1, <3>2, OrderKept
  <2>. QED  BY <2>1, <2>2
<1>8. ASSUME NEW j \in Keys, Interrupt(j) \/ Removed(j) \/ KeyFails(j)
      PROVE  InOrder(k)' /\ \A v \in Nat : Past(k, v) => Past(k, v)'
  <2>1. /\ UNCHANGED <<protocol, value, writes, pending, main>>
        /\ get'[k] = get[k] \/ get'[k].frames = <<>>
    BY <1>8, SubscriptionTypes DEF Interrupt, Removed, KeyFails, Shape
  <2>2. k \in DOMAIN cache' => k \in DOMAIN cache /\ cache'[k] = cache[k]
    BY <1>8 DEF Interrupt, Removed, KeyFails, Without
  <2>. QED  BY <1>0, <2>1, <2>2, OrderKept
<1>9. ASSUME NEW j \in Keys, Upsert(j)
      PROVE  InOrder(k)' /\ \A v \in Nat : Past(k, v) => Past(k, v)'
  <2>1. CASE j = k
    BY <1>9, <2>1, OrderUpsert
  <2>2. CASE j # k
    <3>1. /\ UNCHANGED <<protocol, main, cache>> /\ get'[k] = get[k]
          /\ value' = Over(One(j, writes + 1), value)
          /\ pending' = pending \/ pending' = Over(One(j, writes + 1), pending)
      BY <1>9, <2>2 DEF Upsert, Write, Batched, Shape
    <3>2. k \in DOMAIN value' => k \in DOMAIN value /\ value'[k] = value[k]
      BY <2>2, <3>1 DEF Over, One
    <3>3. k \in DOMAIN pending' => k \in DOMAIN pending /\ pending'[k] = pending[k]
      BY <2>2, <3>1 DEF Over, One
    <3>. QED  BY <1>0, <3>1, <3>2, <3>3, OrderKept
  <2>. QED  BY <2>1, <2>2
<1>10. ASSUME NEW j \in Keys, Remove(j)
       PROVE  InOrder(k)' /\ \A v \in Nat : Past(k, v) => Past(k, v)'
  <2>1. /\ UNCHANGED <<protocol, main, cache, get>>
        /\ value' = Without(value, {j})
        /\ pending' = pending \/ pending' = Over(One(j, Removal), pending)
    BY <1>10 DEF Remove, Write, Batched
  <2>2. k \in DOMAIN value' => k \in DOMAIN value /\ value'[k] = value[k]
    BY <2>1 DEF Without
  <2>3. k \in DOMAIN pending' => \/ pending'[k] = Removal
                                 \/ k \in DOMAIN pending /\ pending'[k] = pending[k]
    BY <2>1 DEF Over, One
  <2>. QED  BY <1>0, <2>1, <2>2, <2>3, OrderKept
<1>. QED
  BY <1>1, <1>2, <1>3, <1>4, <1>5, <1>6, <1>7, <1>8, <1>9, <1>10 DEF Next, Progress

AllInOrder == \A k \in Keys : InOrder(k)

LEMMA OrderHolds == Spec => [](Shape /\ Agreed /\ AllInOrder)
<1>1. Init => AllInOrder
  BY OrderInit DEF AllInOrder
<1>2. Shape /\ Shape' /\ Agreed /\ AllInOrder /\ [Next]_vars => AllInOrder'
  BY OrderStep DEF Agreed, AllInOrder
<1>. QED  BY <1>1, <1>2, MirrorAgrees, PTL DEF Spec

\* A value of a key that the mirror has shown is never followed by an older
\* one, not even after the key was gone in between, over any number of links,
\* streams that fail, snapshots and batches that overtake each other: what
\* subscribeBeforeSnapshot, the coalescer's last-write-wins and the interrupt
\* before onRemove are for (server.ts, mirrorRemoteSurface.ts).
THEOREM NeverOlder ==
  ASSUME NEW k \in Keys, NEW v \in Values
  PROVE  Spec => [](k \in DOMAIN cache /\ cache[k] = v => [](k \in DOMAIN cache => v <= cache[k]))
<1>. DEFINE Shown == k \in DOMAIN cache /\ cache[k] = v
            NotBack == k \in DOMAIN cache => v <= cache[k]
<1>0. v \in Nat
  BY SurfaceMirrorAssumption DEF Values
<1>1. AllInOrder /\ Shown => Past(k, v)
  BY <1>0 DEF AllInOrder, InOrder, Newest, Past
<1>2. Shape /\ Shape' /\ Agreed /\ AllInOrder /\ Past(k, v) /\ [Next]_vars => Past(k, v)'
  BY <1>0, OrderStep DEF Agreed, AllInOrder
<1>3. Past(k, v) => NotBack
  BY DEF Past
<1>. HIDE DEF Shown, NotBack
<1>4. Spec => [](Shown => []NotBack)
  BY <1>1, <1>2, <1>3, OrderHolds, PTL DEF Spec
<1>. QED  BY <1>4 DEF Shown, NotBack

-----------------------------------------------------------------------------
\* The types that no other invariant needs.
Flags ==
  /\ pump \in {"waiting", "mirroring", "probing", "exited"} /\ link \in {"up", "down"}
  /\ torn \in BOOLEAN /\ faults \in 0 .. MaxFaults

LEMMA FlagsInit == Init => Flags
<1>1. Init => faults \in 0 .. MaxFaults
  BY SurfaceMirrorAssumption DEF Init
<1>. QED  BY <1>1, Zenon DEF Init, Flags

LEMMA FlagsStep ==
  ASSUME Shape, Flags, Next \/ UNCHANGED vars
  PROVE  Flags'
<1>. USE DEF server, mirror
<1>1. CASE MirrorFails \/ MirrorEnds \/ LinkDrops
  <2>1. faults' \in 0 .. MaxFaults
    BY <1>1, SurfaceMirrorAssumption DEF MirrorFails, MirrorEnds, LinkDrops, Fault, Flags
  <2>2. torn' = FALSE
    BY <1>1 DEF MirrorFails, MirrorEnds, LinkDrops, Unwind
  <2>3. /\ pump' \in {"waiting", "mirroring", "probing", "exited"}
        /\ link' \in {"up", "down"}
    BY <1>1 DEF MirrorFails, MirrorEnds, LinkDrops, Flags
  <2>. QED  BY <2>1, <2>2, <2>3, Zenon DEF Flags
<1>2. ASSUME NEW k \in Keys, KeyFails(k) PROVE Flags'
  BY <1>2, SurfaceMirrorAssumption DEF KeyFails, Fault, Flags
<1>3. CASE ServeMain
  BY <1>3 DEF ServeMain, Flags, Shape
<1>4. CASE Progress /\ ~ServeMain
  BY <1>4 DEF Progress, FlushDeltas, FlushKeys, FoldDeltas, FoldKeys, Connect, ProbeAnswers,
              ServeGet, FoldValue, Interrupt, Removed, Flags
<1>5. ASSUME NEW k \in Keys, Upsert(k) \/ Remove(k) PROVE Flags'
  BY <1>5 DEF Upsert, Remove, Write, Flags
<1>6. CASE UNCHANGED vars
  BY <1>6 DEF vars, Flags
<1>. QED  BY <1>1, <1>2, <1>3, <1>4, <1>5, <1>6 DEF Next

\* Every variable keeps its type, the order of the keys and the frames on their
\* way included.
THEOREM TypeCorrect == Spec => []TypeOK
<1>1. Shape /\ Agreed /\ Flags => TypeOK
  <2>. SUFFICES ASSUME Shape, Agreed, Flags PROVE TypeOK
    OBVIOUS
  <2>1. order \in Seq(Keys) /\ last \subseteq Seq(Keys)
    BY DEF Agreed, Ordered
  <2>2. /\ pending \in Maps(Keys, Values \cup {Removal})
        /\ main \in [stage : Stages, frames : Seq(Frames(protocol))]
        /\ get \in [Keys -> [stage : Stages, frames : Seq(Values)]]
    BY DEF Shape, Marks, Subscription
  <2>. QED  BY <2>1, <2>2 DEF Shape, Flags, TypeOK
<1>2. Init => Flags
  BY FlagsInit
<1>3. Shape /\ Flags /\ [Next]_vars => Flags'
  BY FlagsStep
<1>. QED  BY <1>1, <1>2, <1>3, MirrorAgrees, PTL DEF Spec
=============================================================================
