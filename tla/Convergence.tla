---------------------------- MODULE Convergence ----------------------------
(***************************************************************************)
(* How a supervisor brings the daemon at its rendezvous to its own policy: *)
(* probe, decide, drain within a budget or take over, bind, characterize   *)
(* what was bound, and decide again; with several supervisors doing so at  *)
(* one rendezvous.                                                         *)
(*                                                                         *)
(* Code: packages/surface-daemon-supervisor/src: convergence/converge.ts,  *)
(* decide.ts, budget.ts, giveUp.ts, drainAndAwaitExit.ts, and the binds of *)
(* endpoint.ts (adoptSurvivor, takeOver, characterizeHeld).                *)
(*                                                                         *)
(* Each action is what one call of a supervisor does between two waits;    *)
(* the daemon at the rendezvous may be another one after every wait.       *)
(* Simplifications:                                                        *)
(*   - gate and socket agree (how they are taken and lost is PidGate), so  *)
(*     gate-less recovery finds the rendezvous free; no adopt hint;        *)
(*   - an OS pid and a start time are unique to one daemon;                *)
(*   - a retried dial is one dial with the result of the last attempt;     *)
(*   - a budget lasts as long as the model: supervisors do not restart.    *)
(***************************************************************************)
EXTENDS Integers, Sequences, FiniteSets

CONSTANTS
  Sup,          \* supervisors of one rendezvous
  Baked,        \* [Sup -> Identity]: policy.baked, the daemon it would spawn
  OnSkew,       \* [Sup -> SkewPolicies]: policy.onContractSkew
  OnMismatch,   \* [Sup -> MismatchPolicies]: policy.onBuildMismatch
  OnGiveUp,     \* [Sup -> {"refuse", "adopt-stale"}]
  MaxAttempts,  \* drainBudget.maxAttempts
  Builds,       \* known build ids
  Survivors,    \* the daemons that may be resident at the start
  MaxDaemons,   \* bound: daemons ever started
  MayFail,      \* may a probe, a dial, a spawn fail?
  MayIgnore,    \* may a drain call fail, or the daemon not act on it?
  MayCrash      \* may a daemon die on its own?

OffNix == "off-nix"
SkewPolicies == {"recycle", "refuse", "drain-newer-else-refuse"}
MismatchPolicies == {"nudge-human", "drain-and-replace"}

\* epoch: the wire protocol; keyed: does its handshake report startedAt?
Identity == [epoch : Nat, major : Nat, minor : Nat,
             build : Builds \cup {OffNix}, keyed : BOOLEAN]

ASSUME ConvergenceAssumption ==
  /\ Baked \in [Sup -> Identity]
  /\ OnSkew \in [Sup -> SkewPolicies]
  /\ OnMismatch \in [Sup -> MismatchPolicies]
  /\ OnGiveUp \in [Sup -> {"refuse", "adopt-stale"}]
  /\ MaxAttempts \in Nat \ {0} /\ MaxDaemons \in Nat \ {0}
  /\ Survivors \subseteq Identity
  /\ MayFail \in BOOLEAN /\ MayIgnore \in BOOLEAN /\ MayCrash \in BOOLEAN
  /\ OffNix \notin Builds

None == 0     \* no daemon
Daemons == 1 .. MaxDaemons

VARIABLES
  born,       \* Seq(Identity): every daemon so far; a daemon is its index
  resident,   \* the daemon that holds the gate and serves the socket
  dying,      \* daemons that were signalled or told to drain
  pc,         \* [Sup -> Pcs]
  obs,        \* [Sup -> Observation]: the last observation
  bind,       \* [Sup -> BindTransition]: the bind under way
  target,     \* [Sup -> daemon]: the holder read from the gate
  held,       \* [Sup -> daemon]: whose connection the endpoint holds
  rideStale,  \* [Sup -> daemon]: the one the adopted-stale anomaly names
  replaced,   \* [Sup -> daemon]: drained before the resident was adopted
  attempts,   \* [Sup -> [Lineages -> Nat]]: the drain budget's memory
  outcome,    \* [Sup -> Outcome]: what converge returned
  unheard,    \* history: [Sup -> daemon]: whom this converge's probe reached and
              \* could not decode
  drained     \* history: <<s, d>>, s was admitted to drain d

world == <<born, resident, dying>>
local == <<obs, bind, target, held, rideStale, replaced, attempts, outcome>>
hist  == <<unheard, drained>>
vars  == <<world, pc, local, hist>>

Lineages == (Builds \cup {OffNix}) \X (0 .. MaxDaemons)

NoOutcome == [kind |-> "none", running |-> None]
NoBind == [kind |-> "plain", axis |-> "none", running |-> None]
Absent(b) == [kind |-> "absent", daemon |-> None, bound |-> b]
Found(d, b) == [kind |-> "identity", daemon |-> d, bound |-> b]
Lost(k) == [kind |-> k, daemon |-> None, bound |-> FALSE]

Goto(s, l) == pc' = [pc EXCEPT ![s] = l]

-----------------------------------------------------------------------------
(* Identities and the decision.                                            *)

Speaks(s, d) == born[d].epoch = Baked[s].epoch
Answers(s) == resident # None /\ Speaks(s, resident)

\* instanceKey: 0 is the key of every daemon that reports no startedAt.
KeyOf(d) == IF born[d].keyed THEN d ELSE 0
Lineage(d) == <<born[d].build, KeyOf(d)>>

\* isContractVersionCompatible: a daemon ahead by a minor is compatible.
Compatible(s, d) ==
  /\ born[d].major = Baked[s].major
  /\ born[d].minor >= Baked[s].minor

Newer(s, d) ==
  \/ Baked[s].major > born[d].major
  \/ Baked[s].major = born[d].major /\ Baked[s].minor > born[d].minor

SameBuild(s, d) == born[d].build # OffNix /\ born[d].build = Baked[s].build

SkewDecision(s, d) ==
  IF OnSkew[s] = "drain-newer-else-refuse"
  THEN IF Newer(s, d) THEN "drain" ELSE "refuse"
  ELSE OnSkew[s]

Decide(s, d) ==
  IF ~Compatible(s, d) THEN SkewDecision(s, d)
  ELSE IF Baked[s].build = OffNix \/ SameBuild(s, d) THEN "adopt"
  ELSE IF OnMismatch[s] = "nudge-human" THEN "report" ELSE "drain"

Axis(s, d) == IF Compatible(s, d) THEN "build" ELSE "contract"

\* (mutant) no memory of the builds drained.
VerdictForgets(s, d) ==
  IF attempts[s][Lineage(d)] >= MaxAttempts THEN "budget" ELSE "drain"

\* admitAgainst: a build this supervisor drained is back as another instance,
\* the lineage's attempts are spent, or the drain may go ahead.
DrainedBuild(s, d) == \E k \in 0 .. MaxDaemons : attempts[s][<<born[d].build, k>>] > 0

\* (mutant) one attempt past the budget.
VerdictOnePast(s, d) ==
  IF attempts[s][Lineage(d)] = 0 /\ DrainedBuild(s, d) THEN "cross-supervisor"
  ELSE IF attempts[s][Lineage(d)] > MaxAttempts THEN "budget" ELSE "drain"

Verdict(s, d) ==
  IF attempts[s][Lineage(d)] = 0 /\ DrainedBuild(s, d) THEN "cross-supervisor"
  ELSE IF attempts[s][Lineage(d)] >= MaxAttempts THEN "budget" ELSE "drain"

-----------------------------------------------------------------------------
Init ==
  /\ born \in {<<>>} \cup {<<i>> : i \in Survivors}
  /\ resident = Len(born)
  /\ dying = {}
  /\ pc = [s \in Sup |-> "done"]
  /\ obs = [s \in Sup |-> Absent(FALSE)]
  /\ bind = [s \in Sup |-> NoBind]
  /\ target = [s \in Sup |-> None]
  /\ held = [s \in Sup |-> None]
  /\ rideStale = [s \in Sup |-> None]
  /\ replaced = [s \in Sup |-> None]
  /\ attempts = [s \in Sup |-> [l \in Lineages |-> 0]]
  /\ outcome = [s \in Sup |-> NoOutcome]
  /\ unheard = [s \in Sup |-> None]
  /\ drained = {}

\* How converge ends, holding what it holds or releasing it.
Finish(s, kind, running) ==
  /\ Goto(s, "done")
  /\ outcome' = [outcome EXCEPT ![s] = [kind |-> kind, running |-> running]]

Release(s) == held' = [held EXCEPT ![s] = None]

RequestBind(s, kind, axis, running) ==
  /\ Goto(s, "bind")
  /\ bind' = [bind EXCEPT ![s] = [kind |-> kind, axis |-> axis, running |-> running]]

-----------------------------------------------------------------------------
(* Observing.                                                              *)

\* A supervisor that holds no connection converges: at boot, and whenever its
\* reconnect loop comes round.
Converge(s) ==
  /\ pc[s] = "done" /\ held[s] = None
  /\ Goto(s, "probe")
  /\ rideStale' = [rideStale EXCEPT ![s] = None]
  /\ replaced' = [replaced EXCEPT ![s] = None]
  /\ outcome' = [outcome EXCEPT ![s] = NoOutcome]
  /\ unheard' = [unheard EXCEPT ![s] = None]
  /\ UNCHANGED <<world, obs, bind, target, held, attempts, drained>>

Observe(s, o) == obs' = [obs EXCEPT ![s] = o]

\* The probe dials the socket and asks who is there.
Probe(s) ==
  /\ pc[s] = "probe"
  /\ resident # None => Speaks(s, resident)
  /\ Observe(s, IF resident = None THEN Absent(FALSE) ELSE Found(resident, FALSE))
  /\ Goto(s, "fold")
  /\ UNCHANGED <<world, bind, target, held, rideStale, replaced, attempts, outcome, hist>>

\* ... or reaches a peer whose first frame it cannot decode, or one that stays
\* mute for UNSPEAKABLE_SILENCE_MS: of another epoch, or of ours and stalled.
\* Neither is an observation yet.
Undecodable(s) ==
  /\ pc[s] = "probe"
  /\ resident # None
  /\ ~Speaks(s, resident) \/ MayFail
  /\ unheard' = [unheard EXCEPT ![s] = resident]
  /\ Goto(s, "corroborate")
  /\ UNCHANGED <<world, local, drained>>

\* Somebody did not speak our protocol; the gate is read for who that is.
Corroborate(s) ==
  /\ pc[s] = "corroborate"
  /\ Observe(s, IF resident = None THEN Lost("failed")
               ELSE [Lost("unspeakable") EXCEPT !.daemon = resident])
  /\ Goto(s, "fold")
  /\ UNCHANGED <<world, bind, target, held, rideStale, replaced, attempts, outcome, hist>>

\* A dial that times out, a handshake that breaks, a gate that cannot be read.
ProbeFails(s) ==
  /\ MayFail
  /\ pc[s] \in {"probe", "corroborate", "characterize"}
  /\ Observe(s, Lost("failed"))
  /\ Goto(s, "fold")
  /\ UNCHANGED <<world, bind, target, held, rideStale, replaced, attempts, outcome, hist>>

-----------------------------------------------------------------------------
(* foldObserved and enactDecision.                                         *)

\* probe-failed, identity-unverifiable.
FoldLost(s) ==
  /\ pc[s] = "fold"
  /\ obs[s].kind \in {"failed", "uncorrelated"} \/ obs[s] = Absent(TRUE)
  /\ Release(s)
  /\ Finish(s, "refused", None)
  /\ UNCHANGED <<world, obs, bind, target, rideStale, replaced, attempts, hist>>

FoldAbsent(s) ==
  /\ pc[s] = "fold" /\ obs[s] = Absent(FALSE)
  /\ RequestBind(s, "plain", "none", None)
  /\ UNCHANGED <<world, obs, target, held, rideStale, replaced, attempts, outcome, hist>>

FoldUnspeakable(s) ==
  /\ pc[s] = "fold" /\ obs[s].kind = "unspeakable"
  /\ Goto(s, "attest")
  /\ UNCHANGED <<world, local, hist>>

Decided(s, d) ==
  /\ pc[s] = "fold" /\ obs[s].kind = "identity"
  /\ Decide(s, obs[s].daemon) = d

\* An identity that was only probed is bound first; one that is bound is the
\* outcome, in the words of the drain that led here.
FoldAdopt(s) ==
  /\ Decided(s, "adopt")
  /\ IF obs[s].bound
     THEN /\ IF replaced[s] # None
             THEN Finish(s, "drained-replacing", replaced[s])
             ELSE Finish(s, "adopted", None)
          /\ bind' = bind
     ELSE /\ RequestBind(s, "plain", "none", None)
          /\ outcome' = outcome
  /\ UNCHANGED <<world, obs, target, held, rideStale, replaced, attempts, hist>>

FoldReport(s) ==
  /\ Decided(s, "report")
  /\ IF obs[s].bound
     THEN /\ Finish(s, "mismatch-reported", obs[s].daemon)
          /\ bind' = bind
     ELSE /\ RequestBind(s, "plain", "none", None)
          /\ outcome' = outcome
  /\ UNCHANGED <<world, obs, target, held, rideStale, replaced, attempts, hist>>

FoldRefuse(s) ==
  /\ Decided(s, "refuse")
  /\ Release(s)
  /\ Finish(s, "refused", obs[s].daemon)
  /\ UNCHANGED <<world, obs, bind, target, rideStale, replaced, attempts, hist>>

FoldRecycle(s) ==
  /\ Decided(s, "recycle")
  /\ RequestBind(s, "recycle", "none", None)
  /\ UNCHANGED <<world, obs, target, held, rideStale, replaced, attempts, outcome, hist>>

\* (mutant) a resident ridden after the give-up is drained once more.
FoldDrainAgain(s) ==
  /\ Decided(s, "drain")
  /\ Goto(s, IF obs[s].bound THEN "probe" ELSE "admit")
  /\ UNCHANGED <<world, local, hist>>

\* A drain is enacted on a probe that can drain: a bound resident is probed
\* anew.  Once the budget is spent the stale resident is ridden instead.
FoldDrain(s) ==
  /\ Decided(s, "drain")
  /\ IF rideStale[s] # None
     THEN Finish(s, "adopted-stale", rideStale[s])
     ELSE /\ Goto(s, IF obs[s].bound THEN "probe" ELSE "admit")
          /\ outcome' = outcome
  /\ UNCHANGED <<world, obs, bind, target, held, rideStale, replaced, attempts, hist>>

-----------------------------------------------------------------------------
(* enactDrainOnce and enactGiveUp.                                         *)

\* The drain verb goes to the probed daemon itself; one that has left, or a call
\* that fails, is not noticed here.
Drain(s) ==
  /\ pc[s] = "admit"
  /\ LET d == obs[s].daemon IN
     /\ Verdict(s, d) = "drain"
     /\ attempts' = [attempts EXCEPT ![s][Lineage(d)] = @ + 1]
     /\ drained' = drained \cup {<<s, d>>}
     /\ \/ dying' = dying \cup ({d} \cap {resident})
        \/ MayIgnore /\ dying' = dying
  /\ Goto(s, "awaitExit")
  /\ UNCHANGED <<born, resident, obs, bind, target, held, rideStale, replaced, outcome, unheard>>

\* (mutant) a refusal that keeps what was bound on the way to it.
GiveUpKeepsHold(s, why) ==
  LET d == obs[s].daemon IN
  IF why = "budget" /\ Axis(s, d) = "build" /\ OnGiveUp[s] = "adopt-stale"
  THEN /\ rideStale' = [rideStale EXCEPT ![s] = d]
       /\ RequestBind(s, "give-up", Axis(s, d), d)
       /\ UNCHANGED <<held, outcome>>
  ELSE /\ Finish(s, "refused", d)
       /\ UNCHANGED <<held, rideStale, bind>>

\* giveUpOutcome: ride the resident, or refuse.
GiveUp(s, why) ==
  LET d == obs[s].daemon IN
  IF why = "budget" /\ Axis(s, d) = "build" /\ OnGiveUp[s] = "adopt-stale"
  THEN /\ rideStale' = [rideStale EXCEPT ![s] = d]
       /\ RequestBind(s, "give-up", Axis(s, d), d)
       /\ UNCHANGED <<held, outcome>>
  ELSE /\ Release(s)
       /\ Finish(s, "refused", d)
       /\ UNCHANGED <<rideStale, bind>>

DrainNotAdmitted(s) ==
  /\ pc[s] = "admit"
  /\ Verdict(s, obs[s].daemon) # "drain"
  /\ GiveUp(s, Verdict(s, obs[s].daemon))
  /\ UNCHANGED <<world, obs, target, replaced, attempts, hist>>

\* The exit oracle: a fresh dial finds no listener.
DrainTaken(s) ==
  /\ pc[s] = "awaitExit" /\ resident = None
  /\ RequestBind(s, "post-drain", Axis(s, obs[s].daemon), obs[s].daemon)
  /\ UNCHANGED <<world, obs, target, held, rideStale, replaced, attempts, outcome, hist>>

\* The ceiling passes first.
DrainNotTaken(s) ==
  /\ pc[s] = "awaitExit"
  /\ GiveUp(s, "budget")
  /\ UNCHANGED <<world, obs, target, replaced, attempts, hist>>

-----------------------------------------------------------------------------
(* The bind: adoptOrEnsure or adoptOrSpawnOrRefuse, and consumeBindResult. *)

\* The gate is read for a live holder: one is adopted, none is spawned.
ReadHolder(s) ==
  /\ pc[s] = "bind"
  /\ target' = [target EXCEPT ![s] = resident]
  /\ Goto(s, IF resident = None THEN "spawn" ELSE "dial")
  /\ UNCHANGED <<world, obs, bind, held, rideStale, replaced, attempts, outcome, hist>>

\* (mutant) a successor met after the drain is the outcome without a decision.
AdoptUndecided(s) ==
  /\ pc[s] = "dial"
  /\ Answers(s) /\ Compatible(s, resident)
  /\ held' = [held EXCEPT ![s] = resident]
  /\ replaced' = [replaced EXCEPT ![s] =
                    IF bind[s].kind = "post-drain" THEN bind[s].running ELSE @]
  /\ IF bind[s].kind = "post-drain"
     THEN Finish(s, "drained-replacing", bind[s].running)
     ELSE Goto(s, "characterize") /\ outcome' = outcome
  /\ UNCHANGED <<world, obs, bind, target, rideStale, attempts, hist>>

\* holdConnection on an adopted resident.
Adopt(s) ==
  /\ pc[s] = "dial"
  /\ Answers(s) /\ Compatible(s, resident)
  /\ held' = [held EXCEPT ![s] = resident]
  /\ replaced' = [replaced EXCEPT ![s] =
                    IF bind[s].kind = "post-drain" THEN bind[s].running ELSE @]
  /\ Goto(s, "characterize")
  /\ UNCHANGED <<world, obs, bind, target, rideStale, attempts, outcome, hist>>

\* No usable bind.
BindRefused(s) ==
  /\ Release(s)
  /\ IF bind[s].kind \in {"plain", "recycle"}
     THEN Finish(s, "not-adopted", None)
     ELSE Finish(s, "refused", bind[s].running)

\* Only a proven contract skew is recycled, and only under that policy.
DialSkewed(s) ==
  /\ pc[s] = "dial"
  /\ Answers(s) /\ ~Compatible(s, resident)
  /\ IF OnSkew[s] = "recycle"
     THEN Goto(s, "signal") /\ UNCHANGED <<held, outcome>>
     ELSE BindRefused(s)
  /\ UNCHANGED <<world, obs, bind, target, rideStale, replaced, attempts, hist>>

\* (mutant) a survivor that cannot be reached is recycled like a skewed one.
DialFailsRecycles(s) ==
  /\ pc[s] = "dial"
  /\ ~MayFail => ~Answers(s)
  /\ IF OnSkew[s] = "recycle"
     THEN Goto(s, "signal") /\ UNCHANGED <<held, outcome>>
     ELSE BindRefused(s)
  /\ UNCHANGED <<world, obs, bind, target, rideStale, replaced, attempts, hist>>

\* A survivor that cannot be reached is left up.
DialFails(s) ==
  /\ pc[s] = "dial"
  /\ ~MayFail => ~Answers(s)
  /\ BindRefused(s)
  /\ UNCHANGED <<world, obs, bind, target, rideStale, replaced, attempts, hist>>

\* (mutant) whoever answers is taken for the daemon we hold.
SameInstanceByRendezvous(s) == held[s] # None

\* Does the probe's answer describe the held connection?
SameInstance(s) ==
  /\ held[s] # None
  /\ KeyOf(resident) # 0 => KeyOf(resident) = KeyOf(held[s])

\* characterizeHeld: a second connection asks who is there.
Characterize(s) ==
  /\ pc[s] = "characterize"
  /\ Observe(s, CASE resident = None -> Absent(TRUE)
                  [] ~Answers(s) /\ resident # None -> Lost("failed")
                  [] Answers(s) -> IF SameInstance(s) THEN Found(resident, TRUE)
                                   ELSE Lost("uncorrelated"))
  /\ Goto(s, "fold")
  /\ UNCHANGED <<world, bind, target, held, rideStale, replaced, attempts, outcome, hist>>

\* takeOver: the gate must still name the daemon that was classified.
Attest(s) ==
  /\ pc[s] = "attest"
  /\ IF resident = obs[s].daemon
     THEN /\ target' = [target EXCEPT ![s] = resident]
          /\ bind' = [bind EXCEPT ![s] = [NoBind EXCEPT !.kind = "recycle"]]
          /\ Goto(s, "signal")
          /\ UNCHANGED <<held, outcome>>
     ELSE /\ Release(s)
          /\ Finish(s, "refused", None)
          /\ UNCHANGED <<target, bind>>
  /\ UNCHANGED <<world, obs, rideStale, replaced, attempts, hist>>

\* killLiveHolder: the pid read from the gate is signalled.
Signal(s) ==
  /\ pc[s] = "signal"
  /\ dying' = dying \cup ({target[s]} \cap {resident})
  /\ Goto(s, "reap")
  /\ UNCHANGED <<born, resident, local, hist>>

Reaped(s) ==
  /\ pc[s] = "reap" /\ resident # target[s]
  /\ Goto(s, "spawn")
  /\ UNCHANGED <<world, local, hist>>

\* A daemon launched while another one holds the gate yields and exits.
Start(i) ==
  IF resident = None /\ Len(born) < MaxDaemons
  THEN born' = Append(born, i) /\ resident' = Len(born')
  ELSE UNCHANGED <<born, resident>>

Spawn(s) ==
  /\ pc[s] = "spawn"
  /\ Start(Baked[s])
  /\ Goto(s, "connect")
  /\ UNCHANGED <<dying, local, hist>>

\* waitForSocket and the handshake, with whoever serves.
ConnectSpawned(s) ==
  /\ pc[s] = "connect"
  /\ Answers(s) /\ Compatible(s, resident)
  /\ held' = [held EXCEPT ![s] = resident]
  /\ Finish(s, CASE bind[s].kind = "recycle" -> "recycled"
                 [] bind[s].kind = "post-drain" -> "drained-replacing"
                 [] OTHER -> "spawned-fresh",
               bind[s].running)
  /\ UNCHANGED <<world, obs, bind, target, rideStale, replaced, attempts, hist>>

\* converge fails: nobody serves, or somebody we cannot talk to; a gate that
\* cannot be read, a process that survives SIGKILL, a spawn that fails.
Throw(s) ==
  /\ \/ pc[s] = "connect" /\ ~(Answers(s) /\ Compatible(s, resident))
     \/ MayFail /\ pc[s] \in {"bind", "attest", "reap", "spawn", "connect"}
  /\ Finish(s, "threw", None)
  /\ UNCHANGED <<world, obs, bind, target, held, rideStale, replaced, attempts, hist>>

-----------------------------------------------------------------------------
(* The world.                                                              *)

\* A daemon that was asked to leave is gone, or one dies on its own.
DaemonExits ==
  /\ resident # None
  /\ resident \in dying \/ MayCrash
  /\ resident' = None
  /\ UNCHANGED <<born, dying, pc, local, hist>>

\* The endpoint hears that its connection closed.
ConnectionCloses(s) ==
  /\ held[s] # None /\ held[s] # resident
  /\ Release(s)
  /\ UNCHANGED <<world, pc, obs, bind, target, rideStale, replaced, attempts, outcome, hist>>

Fold(s) ==
  \/ FoldLost(s) \/ FoldAbsent(s) \/ FoldUnspeakable(s) \/ FoldAdopt(s)
  \/ FoldReport(s) \/ FoldRefuse(s) \/ FoldRecycle(s) \/ FoldDrain(s)

Enact(s) ==
  \/ Drain(s) \/ DrainNotAdmitted(s) \/ DrainTaken(s) \/ DrainNotTaken(s)

Bind(s) ==
  \/ ReadHolder(s) \/ Adopt(s) \/ DialSkewed(s) \/ DialFails(s) \/ Characterize(s)
  \/ Attest(s) \/ Signal(s) \/ Reaped(s) \/ Spawn(s) \/ ConnectSpawned(s) \/ Throw(s)

Step(s) ==
  Probe(s) \/ Undecodable(s) \/ Corroborate(s) \/ ProbeFails(s) \/ Fold(s) \/ Enact(s) \/ Bind(s)

Next ==
  \/ \E s \in Sup : Converge(s) \/ Step(s) \/ ConnectionCloses(s)
  \/ DaemonExits

Spec == Init /\ [][Next]_vars

\* A converge runs on, connections report their end, reconnect loops come
\* round, and a daemon told to leave leaves.
FairSpec ==
  /\ Spec
  /\ \A s \in Sup : WF_vars(Step(s)) /\ WF_vars(ConnectionCloses(s)) /\ WF_vars(Converge(s))
  /\ WF_vars(resident \in dying /\ DaemonExits)

-----------------------------------------------------------------------------
TypeOK ==
  /\ born \in Seq(Identity) /\ Len(born) =< MaxDaemons
  /\ resident \in {None, Len(born)}
  /\ dying \subseteq 1 .. Len(born)
  /\ pc \in [Sup -> {"done", "probe", "corroborate", "fold", "attest", "admit", "awaitExit",
                    "bind", "dial", "characterize", "signal", "reap", "spawn", "connect"}]
  /\ \A s \in Sup :
       /\ obs[s].daemon \in 0 .. Len(born) /\ bind[s].running \in 0 .. Len(born)
       /\ target[s] \in 0 .. Len(born) /\ held[s] \in 0 .. Len(born)
       /\ rideStale[s] \in 0 .. Len(born) /\ replaced[s] \in 0 .. Len(born)
       /\ unheard[s] \in 0 .. Len(born)
       /\ \A l \in Lineages : attempts[s][l] \in 0 .. MaxAttempts

\* What an outcome says of the daemon h that is held, d being the one it names.
\* A daemon met after the wait for a drain is decided on like any other
\* (d = replaced[s]); the one that answers after our own spawn may be a rival's
\* and is only known to be compatible.  adopted-stale names the daemon the
\* give-up was about (anomaly.ts), whose drains were spent; the bind may meet a
\* successor of it, which is held because it too would have been drained.
Describes(s, kind, d, h) ==
  /\ Compatible(s, h)
  /\ kind = "adopted" => Decide(s, h) = "adopt"
  /\ kind = "mismatch-reported" => Decide(s, h) = "report" /\ d = h
  /\ kind = "drained-replacing" =>
       <<s, d>> \in drained /\ d < h /\ (d = replaced[s] => Decide(s, h) = "adopt")
  /\ kind = "adopted-stale" =>
       /\ Decide(s, h) = "drain" /\ d \in 1 .. h
       /\ \E e \in 1 .. Len(born) : <<s, e>> \in drained /\ Lineage(e) = Lineage(d)

\* An outcome is about the daemon whose connection is held, not about one that
\* was probed before or answered after it: a verdict that adopts nothing holds
\* nothing, whatever was bound on the way to it (converge.ts, W4.2), and every
\* other one tells what decide says of the held daemon, or what became of its
\* predecessor.
OutcomeIsAboutHeld ==
  \A s \in Sup : pc[s] = "done" =>
    /\ outcome[s].kind \in {"refused", "not-adopted"} => held[s] = None
    /\ held[s] # None => Describes(s, outcome[s].kind, outcome[s].running, held[s])

\* A supervisor drains at most one instance of a build: the second one is
\* somebody else's, and fighting over it would never end.
OneInstancePerBuild ==
  \A s \in Sup : \A d, e \in Daemons :
    /\ <<s, d>> \in drained /\ <<s, e>> \in drained
    /\ born[d].build = born[e].build /\ born[d].keyed
    => d = e

\* A supervisor that is about to signal a compatible daemon of its own epoch has
\* got nothing it could decode out of it, or out of a daemon that it succeeded, in
\* this very converge: it never signals because a dial failed or timed out, and
\* never on a reading of an earlier converge.  The second case is the hole that is
\* left: the gate is read after the probe (endpoint.ts), and a healthy daemon that
\* started in between is taken for the one that did not speak.
KillsFollowTheUnheard ==
  \A s \in Sup :
    pc[s] = "signal" /\ target[s] = resident /\ Speaks(s, resident) /\ Compatible(s, resident)
    => unheard[s] \in 1 .. resident

\* Every converge comes to an end.
ConvergeEnds == \A s \in Sup : pc[s] # "done" ~> pc[s] = "done"

\* Supervisors that want different builds stop replacing each other's daemon.
RivalsSettle == <>[](resident # None)

\* Rivals fight no more than once over a build, each of them is told how it
\* ended, and one daemon remains (convergence/budget.ts).
FightsEnd == []OneInstancePerBuild /\ ConvergeEnds /\ RivalsSettle
=============================================================================
