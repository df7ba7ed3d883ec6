---------------------------- MODULE SurfaceMirror ----------------------------
(***************************************************************************)
(* One collection of a surface, served over a link that may die, and its   *)
(* mirror on the other side, whose cache outlives every link.              *)
(*                                                                         *)
(* The server keeps the collection and publishes what changed once per     *)
(* tick; the mirror subscribes, folds snapshot and changes into its cache, *)
(* and after a reconnect reconciles the cache with the new snapshot.  A    *)
(* collection is mirrored in one of two ways: by one stream of deltas, or  *)
(* by its stream of key sets and a stream of values per key.               *)
(*                                                                         *)
(* Code: packages/surface/src/{server,mirrorRemoteSurface}.ts,             *)
(* packages/surface-remote/src/{hostFanout,reServeSurface}.ts.             *)
(*                                                                         *)
(* Simplifications:                                                        *)
(*   - the n-th write writes the value n; values are otherwise opaque, and *)
(*     a frame that is split for the wire travels as one;                  *)
(*   - what a stream has yet to deliver is one queue: the subscriber's     *)
(*     queue of the channel (unbounded, its default), the stream's buffer  *)
(*     and the wire, in that order;                                        *)
(*   - a dead link takes its subscriptions and the mirror along at once;   *)
(*     when the session dials again is module RemoteSession's question.    *)
(***************************************************************************)
EXTENDS Naturals, Sequences

Seqs == INSTANCE SequencesExt

CONSTANTS
  Keys,
  MaxWrites,  \* bound: writes to the collection
  MaxFaults   \* bound: links that die and streams that fail

ASSUME SurfaceMirrorAssumption == MaxWrites \in Nat /\ MaxFaults \in Nat

VARIABLES
  protocol,   \* "deltas" or "keys": does the collection declare the deltas verb?
  order,      \* the store's keys, in the order of its Map
  value,      \* the store: a value for each of its keys
  writes,
  pending,    \* createTickCoalescer's Map of this tick's operations
  keysDue,    \* createKeysetCoalescer has a flush scheduled
  last,       \* the keys it published last, none before the first time
  main,       \* the subscription to deltas or keys
  get,        \* [Keys -> the subscription to the key's values]
  pump,       \* "waiting" for a client, "mirroring" one, "probing" the link
              \* whose mirror ended, or "exited"
  link,       \* "up" or "down"
  cache,      \* the mirror's copy of the collection
  held,       \* `present`, or the keys carried over until the first key set came
  sweep,      \* departed keys that the mirror has yet to remove
  removed,    \* history: the keys that were ever removed
  torn,       \* history: the key set that was sent first was read in mid tick
  faults

server == <<order, value, writes, pending, keysDue, last, removed>>
mirror == <<pump, link, cache, held, sweep>>
vars == <<protocol, server, main, get, mirror, torn, faults>>

Maps(S, T) == UNION {[D -> T] : D \in SUBSET S}
Without(m, S) == [k \in DOMAIN m \ S |-> m[k]]
One(k, v) == [j \in {k} |-> v]
Over(f, g) == [k \in DOMAIN f \cup DOMAIN g |-> IF k \in DOMAIN f THEN f[k] ELSE g[k]]
Empty == [k \in {} |-> 0]

Values == 1 .. MaxWrites
Removal == 0        \* in a delta: the key is removed

Stages == {"closed", "requested", "open", "failed"}

\* What the main stream carries.
Frames(p) ==
  IF p = "keys"
  THEN [kind : {"keys"}, keys : SUBSET Keys]
  ELSE [kind : {"snapshot"}, ops : Maps(Keys, Values)]
         \cup [kind : {"delta"}, ops : Maps(Keys, Values \cup {Removal})]

TypeOK ==
  /\ protocol \in {"deltas", "keys"}
  /\ order \in Seq(Keys)
  /\ value \in Maps(Keys, Values)
  /\ writes \in 0 .. MaxWrites
  /\ pending \in Maps(Keys, Values \cup {Removal})
  /\ keysDue \in BOOLEAN
  /\ IF protocol = "keys" THEN pending = Empty ELSE ~keysDue
  /\ last \subseteq Seq(Keys)
  /\ main \in [stage : Stages, frames : Seq(Frames(protocol))]
  /\ get \in [Keys -> [stage : Stages, frames : Seq(Values)]]
  /\ pump \in {"waiting", "mirroring", "probing", "exited"} /\ link \in {"up", "down"}
  /\ cache \in Maps(Keys, Values)
  /\ held \subseteq Keys /\ sweep \subseteq Keys
  /\ removed \subseteq Keys
  /\ torn \in BOOLEAN
  /\ faults \in 0 .. MaxFaults

-----------------------------------------------------------------------------
(* Subscriptions.                                                          *)

Closed == [stage |-> "closed", frames |-> <<>>]
Requested == [stage |-> "requested", frames |-> <<>>]

\* inMemoryChannel.publish: only who has subscribed is told.
Publish(s, f) == IF s.stage = "open" THEN [s EXCEPT !.frames = Append(@, f)] ELSE s

\* (mutant) the snapshot is read first, the subscription comes a step later.
ServedSnapshotFirst(s, snapshot) ==
  IF s.frames = <<>> THEN [s EXCEPT !.frames = snapshot] ELSE [s EXCEPT !.stage = "open"]

\* subscribeBeforeSnapshot, in one synchronous stretch: what is published from
\* here on waits behind the snapshot.
Served(s, snapshot) == [stage |-> "open", frames |-> snapshot]

\* The handlers of deltas and keys.
ServeMain ==
  /\ main.stage = "requested"
  /\ main' = Served(main, IF protocol = "deltas"
                          THEN <<[kind |-> "snapshot", ops |-> value]>>
                          ELSE <<[kind |-> "keys", keys |-> DOMAIN value]>>)
  /\ torn' = (protocol = "keys" /\ main'.stage = "open" /\ keysDue)
  /\ UNCHANGED <<protocol, server, get, mirror, faults>>

\* The handler of get: an absent key holds the stream open, without a frame.
ServeGet(k) ==
  /\ get[k].stage = "requested"
  /\ get' = [get EXCEPT ![k] =
       Served(@, IF k \in DOMAIN value THEN <<value[k]>> ELSE <<>>)]
  /\ UNCHANGED <<protocol, server, main, mirror, torn, faults>>

-----------------------------------------------------------------------------
(* The server: what a write does at once, and what waits for the tick.     *)

\* (mutant) an operation does not replace the tick's earlier one on its key.
BatchedFirstWins(k, op) == IF protocol = "deltas" THEN Over(pending, One(k, op)) ELSE pending

\* createTickCoalescer: the last operation on a key wins.
Batched(k, op) == IF protocol = "deltas" THEN Over(One(k, op), pending) ELSE pending

\* (mutant) only a key that leaves changes the membership.
ChangesMembershipLeaving(k, there) == k \in DOMAIN value /\ ~there

\* broadcastKeys: an upsert of a new key, or a remove of a known one.
ChangesMembership(k, there) == (k \in DOMAIN value) # there

Write(k, op) ==
  /\ writes < MaxWrites
  /\ writes' = writes + 1
  /\ pending' = Batched(k, op)
  /\ keysDue' = (keysDue \/ (protocol = "keys" /\ ChangesMembership(k, op # Removal)))
  /\ UNCHANGED <<protocol, last, main, mirror, torn, faults>>

\* wrappedUpsert.
Upsert(k) ==
  /\ Write(k, writes + 1)
  /\ value' = Over(One(k, writes + 1), value)
  /\ order' = IF k \in DOMAIN value THEN order ELSE Append(order, k)
  /\ get' = [get EXCEPT ![k] = Publish(@, writes + 1)]
  /\ UNCHANGED removed

\* wrappedRemove, of a key that may be absent.
Remove(k) ==
  /\ Write(k, Removal)
  /\ value' = Without(value, {k})
  /\ order' = Seqs!RemoveFirst(order, k)
  /\ removed' = removed \cup {k}
  /\ UNCHANGED get

\* createTickCoalescer's flush.
FlushDeltas ==
  /\ pending # Empty
  /\ pending' = Empty
  /\ main' = Publish(main, [kind |-> "delta", ops |-> pending])
  /\ UNCHANGED <<protocol, order, value, writes, keysDue, last, removed, get, mirror, torn,
                 faults>>

\* (mutant) the keys are compared by their number.
RepeatsByLength == \E keys \in last : Len(keys) = Len(order)

\* createKeysetCoalescer: the same keys in the same order.
Repeats == order \in last

\* createKeysetCoalescer's flush: a repeat is dropped.
FlushKeys ==
  /\ keysDue
  /\ keysDue' = FALSE
  /\ IF Repeats
     THEN UNCHANGED <<last, main, torn>>
     ELSE /\ last' = {order}
          /\ main' = Publish(main, [kind |-> "keys", keys |-> DOMAIN value])
          /\ torn' = FALSE
  /\ UNCHANGED <<protocol, order, value, writes, pending, removed, get, mirror, faults>>

-----------------------------------------------------------------------------
(* The mirror.                                                             *)

\* The keys of mirrorCollection's Map `open`: a failed stream keeps its entry.
Opened == {k \in Keys : get[k].stage # "closed"}

\* (mutant) the keys carried over are taken for departed.
DepartedAll(before, next) == before

\* What was there and is not asserted again has departed.
Departed(before, next) == before \ next

Rest(s) == [s EXCEPT !.frames = Tail(@)]

\* mirrorCollectionDeltas, the snapshot: survivors are replaced, never removed.
FoldSnapshot(ops) ==
  /\ cache' = Over(ops, Without(cache, Departed(held, DOMAIN ops)))
  /\ held' = DOMAIN ops

\* (mutant) a removal is taken for one more value.
FoldDeltaBlindly(ops) == cache' = Over(ops, cache) /\ held' = held \cup DOMAIN ops

\* mirrorCollectionDeltas, a delta: upserts, then removes.
FoldDelta(ops) ==
  LET upserts == {k \in DOMAIN ops : ops[k] # Removal}
      removes == (held \cup upserts) \cap (DOMAIN ops \ upserts)
  IN  /\ cache' = Over([k \in upserts |-> ops[k]], Without(cache, removes))
      /\ held' = (held \cup upserts) \ removes

Fold == main.stage = "open" /\ main.frames # <<>> /\ main' = Rest(main)

FoldDeltas ==
  /\ protocol = "deltas"
  /\ Fold
  /\ LET f == Head(main.frames)
     IN  IF f.kind = "snapshot" THEN FoldSnapshot(f.ops) ELSE FoldDelta(f.ops)
  /\ UNCHANGED <<protocol, server, get, pump, link, sweep, torn, faults>>

\* mirrorCollection, a key set: new keys are followed, departed ones are swept
\* before the next set is looked at, and the first set settles the carry-over.
FoldKeys ==
  /\ protocol = "keys"
  /\ sweep = {}
  /\ Fold
  /\ LET next == Head(main.frames).keys
     IN  /\ get' = [k \in Keys |-> IF k \in next \ Opened THEN Requested ELSE get[k]]
         /\ sweep' = Opened \ next
         /\ cache' = Without(cache, Departed(held, next))
         /\ held' = {}
  /\ UNCHANGED <<protocol, server, pump, link, torn, faults>>

\* Fiber.interrupt of a departed key's pump.
Interrupt(k) ==
  /\ k \in sweep /\ k \in Opened
  /\ get' = [get EXCEPT ![k] = Closed]
  /\ UNCHANGED <<protocol, server, main, mirror, torn, faults>>

\* (mutant) the removal does not wait for the interrupt.
MayRemoveEarly(k) == k \in sweep

MayRemove(k) == k \in sweep /\ k \notin Opened

\* onRemove of a departed key, once its pump has ended.
Removed(k) ==
  /\ MayRemove(k)
  /\ sweep' = sweep \ {k}
  /\ cache' = Without(cache, {k})
  /\ UNCHANGED <<protocol, server, main, get, pump, link, held, torn, faults>>

\* A key's pump: onUpsert of the stream's next value.
FoldValue(k) ==
  /\ get[k].stage = "open" /\ get[k].frames # <<>>
  /\ cache' = Over(One(k, Head(get[k].frames)), cache)
  /\ get' = [get EXCEPT ![k] = Rest(@)]
  /\ UNCHANGED <<protocol, server, main, pump, link, held, sweep, torn, faults>>

-----------------------------------------------------------------------------
(* Faults, and the pump that mirrors one client after the other.           *)

Fault == faults < MaxFaults /\ faults' = faults + 1

\* The stream of one key fails: the key is no longer followed, the others are.
KeyFails(k) ==
  /\ Fault
  /\ get[k].stage \in {"requested", "open"}
  /\ get' = [get EXCEPT ![k] = [stage |-> "failed", frames |-> <<>>]]
  /\ UNCHANGED <<protocol, server, main, mirror, torn>>

\* Every subscription ends.  The cache stays.
Unwind ==
  /\ main' = Closed
  /\ get' = [k \in Keys |-> Closed]
  /\ sweep' = {}
  /\ torn' = FALSE
  /\ UNCHANGED <<protocol, server, cache, held>>

\* The collection's main stream fails on a link that lives: the mirror fails as
\* a whole, and the pump goes to wait for the next client.
MirrorFails ==
  /\ Fault
  /\ pump = "mirroring" /\ pump' = "waiting"
  /\ Unwind
  /\ UNCHANGED link

\* The far end closes its streams: the mirror ends without a failure, and the
\* pump asks over the same link.
MirrorEnds ==
  /\ Fault
  /\ pump = "mirroring" /\ pump' = "probing"
  /\ Unwind
  /\ UNCHANGED link

\* probeEndedLink: the link answers, so no next client will come.
ProbeAnswers ==
  /\ pump = "probing" /\ link = "up"
  /\ pump' = "exited"
  /\ UNCHANGED <<protocol, server, main, get, link, cache, held, sweep, torn, faults>>

LinkDrops ==
  /\ Fault
  /\ link = "up" /\ link' = "down"
  /\ pump' = IF pump = "exited" THEN "exited" ELSE "waiting"
  /\ Unwind

\* (mutant) what a new mirror finds in the cache is no concern of its own.
CarriedOverNothing == {}

\* initialKeys.
CarriedOver == DOMAIN cache

\* pumpRemoteSurface: the session has a new client, which is mirrored afresh.
Connect ==
  /\ link = "down" /\ link' = "up"
  /\ pump = "waiting" /\ pump' = "mirroring"
  /\ held' = CarriedOver
  /\ main' = Requested
  /\ UNCHANGED <<protocol, server, get, cache, sweep, torn, faults>>

-----------------------------------------------------------------------------
Init ==
  /\ protocol \in {"deltas", "keys"}
  /\ order = <<>> /\ value = Empty /\ writes = 0
  /\ pending = Empty /\ keysDue = FALSE /\ last = {}
  /\ main = Closed /\ get = [k \in Keys |-> Closed]
  /\ pump = "waiting" /\ link = "down"
  /\ cache = Empty /\ held = {} /\ sweep = {}
  /\ removed = {} /\ torn = FALSE /\ faults = 0

\* What the server and the mirror do of their own accord.
Progress ==
  \/ FlushDeltas \/ FlushKeys
  \/ ServeMain
  \/ FoldDeltas \/ FoldKeys
  \/ Connect \/ ProbeAnswers
  \/ \E k \in Keys : ServeGet(k) \/ FoldValue(k) \/ Interrupt(k) \/ Removed(k)

Next ==
  \/ Progress
  \/ MirrorFails \/ MirrorEnds \/ LinkDrops
  \/ \E k \in Keys : Upsert(k) \/ Remove(k) \/ KeyFails(k)

Spec == Init /\ [][Next]_vars

\* Every flush, frame and interrupt comes in the end, and a session that is held
\* dials until it has a client.
FairSpec == Spec /\ WF_vars(Progress)

-----------------------------------------------------------------------------
\* A key the mirror can follow: its stream has not failed, and the key set that
\* came first was not read in the middle of a tick.  A tick whose writes cancel
\* out publishes nothing, so a set read before it ended is not corrected until
\* the membership changes again.
Followed(k) == get[k].stage # "failed" /\ ~torn

InStep(k) == k \in DOMAIN cache \cap DOMAIN value /\ cache[k] = value[k]

\* The cache tells the truth about k.
True(k) == IF k \in DOMAIN value THEN InStep(k) ELSE k \notin DOMAIN cache

\* Nothing is due, asked for, on its way or half done.
Quiet ==
  /\ pump = "mirroring"
  /\ pending = Empty /\ ~keysDue
  /\ main.stage = "open" /\ main.frames = <<>>
  /\ sweep = {}
  /\ \A k \in Keys : get[k].stage # "requested" /\ get[k].frames = <<>>

\* When nothing is in flight, the cache is the collection: no update was lost
\* between a snapshot and the subscription, no late value brought a departed
\* key back, no key of an earlier link was left over (server.ts
\* subscribeBeforeSnapshot, mirrorRemoteSurface.ts mirrorCollection and
\* mirrorCollectionDeltas).
QuietMeansEqual == Quiet => \A k \in Keys : Followed(k) => True(k)

\* A key that the server never removed does not leave the cache again, whatever
\* becomes of the links and the streams: nobody downstream sees a row go that
\* did not go (no empty flash, mirrorRemoteSurface.ts initialKeys).
NoFlash == [][\A k \in DOMAIN cache : k \notin DOMAIN cache' => k \in removed]_vars

\* While the pump mirrors, the mirror catches up with the last write, after any
\* number of links that died.
CatchesUp ==
  <>[](pump = "mirroring") => <>[](\A k \in Keys : Followed(k) => True(k))

\* hostFanout.ts: "each mirror end races the next-spawn wait against
\* probeEndedLink: an answering corpse-of-a-mirror ends the pump loudly".
NeverParked == []<>(pump # "waiting" \/ link = "down")
=============================================================================
