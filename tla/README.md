# Verification of kolu's daemons

kolu is a terminal workspace whose pieces live in separate processes: a web
server, a workspace daemon (`padi`), a PTY daemon (`kaval`), ssh sessions to
remote hosts, and browser and terminal clients. Every one of them must survive
the restart, the crash and the upgrade of the others, and no terminal and no row
on a screen may get lost on the way. Modelled here are the three layers of that
promise: *one* daemon per scope, that goes away when its reason is gone and that
supervisors of different versions converge on (`surface-daemon`,
`surface-daemon-supervisor`); a session to a remote one that comes back as long as
somebody holds it, and a mirror that equals its source after every reconnect
(`surface-remote`, `surface`); and padi, which looks after its kaval and keeps the
user's terminals on disk.

Paths below are relative to `src/packages/`.

## 1. Inventory

| Component | State | Operations | Talks to | Hard behaviour | Correct when | Here |
|---|---|---|---|---|---|---|
| Single-instance rendezvous (`surface-daemon/src/pidGate.ts`, `surface/src/unix-socket.ts`) | gate file (pid, start time), socket inode | claim, confirm, reap, listen, close, release | other launches, through the file system only | interleaved file calls, crashes that leave both files, pid reuse, failing reads, one-field gates of earlier releases | one holder; a claim ends; nobody unlinks what is a live holder's | `PidGate`, `EvictableLock` |
| Daemon tenure (`surface-daemon/src/daemonMain.ts`, `tenure.ts`, `bindPidWatchdog.ts`, `runtimeFault.ts`) | armed triggers, reason, files held, exit code, sibling process | arm, announce, poll, finish, close, release, stand down, exit, kill after grace | kernel signals, the bind pid, the anchor path, the runtime's fault signal | signals around the announcement, faults during boot, a wedged loop, transient lstat errors | ordered teardown on every way out, no orphan, no reap on a transient, no fault reported as success | `DaemonTenure` |
| Convergence (`surface-daemon-supervisor/src/convergence/`) | observation, bind under way, drain budget, held connection, outcome | probe, decide, drain, give up, take over, bind, characterize | the resident daemon, the endpoint, rival supervisors | the resident changes between any two waits; drains that do not take; rivals that want another build | no fight without end; budgets kept; refusals hold nothing; no daemon killed because a dial failed | `Convergence` |
| Supervisor endpoint (`surface-daemon-supervisor/src/endpoint.ts`, `restart.ts`, `reapHolder.ts`) | held connection, reported status, restart hold and restart in flight | adopt, spawn, take over, recover without a gate, restart, heal, release, reap | gate, socket, process table | gate and socket disagree, pids reused during a dial, overlapping restarts, late closes | no foreign process signalled; status follows the connection held; one restart at a time | partly: the binds in `Convergence`; status, hold, close and restart in `KavalUpkeep` |
| Identity probe (`probeDaemonIdentity.ts`, `dialSocket.ts`, `daemonDial.ts`) | none | dial, hello, wait for exit | the resident | mute, slow and undecodable peers | a peer that spoke is never taken for a mute one; silence for the whole deadline is a verdict, and leads to a take-over | partly: its answers, in `Convergence` |
| Survivable spawn (`driver.ts`) | none | spawn detached, in a systemd unit or not | init, the new daemon | spawn that fails late | the daemon outlives its spawner | partly: its results, in `Convergence` |
| Connector admission and anomalies (`convergeAdmit.ts`, `anomaly.ts`, `unspeakable.ts`) | per-link drain budget | admit a drain over a link | remote session | relinks that repeat a drain | budget kept across links | planned |
| Remote session (`surface-remote/src/session.ts`, `surface/src/failureLedger.ts`) | phase, pins, client promise, connection, dial epoch, one timer slot, release grace, backstop, failure ledger | pin, release, dial, admit, adopt, refuse, retry, give up, recheck, nudge, reconnect, destroy | connectors, the far end, holders | late settles of superseded dials, closes of links let go of, a shared timer slot, flags set for a close that comes later | one link; a holder is never stranded; dormant means empty; give-up only on remote failures in a row | `RemoteSession` |
| Connectors and relays (`surface-remote/src/sshConnector.ts`, `hostFanout.ts`, `relayStream.ts`, `keepalive.ts`, ...) | child processes, provisioning steps | probe, provision, copy, dial, relay | ssh, nix, host agents | silent steps, orphaned children | bounded silence, no leaked child | what they may answer, in `RemoteSession` |
| Surface: collections and their mirror (`surface/src/server.ts`, `mirrorRemoteSurface.ts`, `surface-remote/src/hostFanout.ts`, `reServeSurface.ts`) | the collection, what a tick has yet to publish, subscriptions, the mirror's cache and what it follows | upsert, remove, flush, serve, fold, sweep, reconcile, pump | the session's clients, everything downstream of a mirror | snapshot against changes, batches, departed keys, a cache that outlives links, streams that fail alone | a quiet mirror equals its source; no row goes that did not go | partly: one collection, in `SurfaceMirror` |
| Surface: cells, streams, procedures, links (`surface/src`) | cells, streams, demand, heartbeat | publish, subscribe, resubscribe, supersede | every client | supersession, reconnect gaps | as the collections' | planned |
| padi: upkeep of kaval (`padi/src/ptyHost/{endpointClaim,linkLoss,reconcileConverged,restartLocal}.ts`, `kavalSupervision.ts`) | claims, healer's timer and ticks, attempt's verdict, failure ledger | tick, probe, heal, claim, restart, press, supervise, stand down | the endpoint, the kaval daemon | decisions on readings older than an await, callers that share a restart, two owners of one endpoint, retries not armed | one owner; a lost link is healed or given up; an outage ends or is given up on the record | `KavalUpkeep` |
| padi: saved session (`padi/src/session/*`, `terminalEndpoint/{local,reattach,inventoryReconcile}.ts`) | registry of rows, calls in flight, autosave timer and freeze, the session and the pairing on disk | create, exit, close, sleep, wake, adopt, autosave, capture, park, restore, forfeit, boot | kaval, the disk | four writers of one file; crash and reboot between any two steps; restarts that fail half way | what the user had stays on disk; nothing twice; no shell unseen | `SavedSession` |
| padi: the rest (watch registry, agents, watchers, `servePadi.ts` wiring) | – | – | server, clients | – | – | not modelled |
| kaval (`kaval/src`) | PTYs, scrollback, attachers, sizes | spawn, attach, write, resize | padi | attach in the middle of output | replay then live, no gap and no repeat | planned |
| kolu server (`server/src`) | padi binding, deliveries in flight | bind, deliver to an agent, upload | padi, browser | delivery racing agent state | each delivery once | planned in part |
| Port forwarding (`port-forward/src`) | forwards and their processes | open, close, reap | ssh | forwards closed while opening | no leaked process | planned |
| Browser client (`client/src`), padi client | streams, UI state | attach, resubscribe | server | reattaching streams | as the link's | `reattachingStream` planned, the UI not |
| Agent integrations, application kits, command lines, terminal data, UI components, small libraries, tests, packaging | – | – | – | parsing, rendering, wiring | – | not modelled: no protocol of their own |

How the modelled parts meet. A supervisor *converges* on the rendezvous; a
spawn starts a process that *claims* the gate and the socket; once it holds
both it runs its *tenure*, whose teardown closes the socket and releases the
gate; the next converge meets whatever is left. `Convergence` therefore takes
gate and socket for one atomic "resident", which is justified by `PidGate`
(`OneUnevictedHolder`), and `DaemonTenure` starts where both are held. After its
boot padi is such a supervisor for good: `KavalUpkeep` is what happens to the
endpoint that `Convergence` bound, with a daemon whose contract and build fit.
`SavedSession` sees of all this that a kaval serves or does not, and when padi asks
for a restart. A `RemoteSession` is the other end of the wire: its connector reaches
a daemon, over ssh or not, and its admission hook asks that daemon for the
convergence above; here the hook's three verdicts (adopt, refuse, replaced) may come
in any order. `SurfaceMirror` runs over the clients such a session hands out, and
sees of it that a link is up or down.

`PROJECT.json` lists the hazards of this code line by line, with the property
that covers each or the reason why none does.

## 2. The modules

### EvictableLock
What the gate really promises: a lock with one owner, from which an owner may
be *displaced* without being told. It is not a mutual exclusion: a stale gate
is unlinked by path, and the path may meanwhile lead to a fresh record.

### PidGate
State: the gate file (`gate`, named by the incarnation that wrote it), the
socket inode (`sock`), where each process incarnation is in its code (`pc`), the
gate it last read (`seen`), its passes of the acquire loop (`attempt`), whether it
re-entered acquire after the confirmation (`confirmed`), and who was evicted
(`evicted`, history). One action is one system call: the fence is an lstat and a connect, the
listen a bind and a listen, and `refused` (history) is the old daemons whose inode was there
when a fence's connect failed.

| Action | Code |
|---|---|
| `OpenDir`, `Link`, `ReadGate`, `ProbeHolder`, `Reap` | `acquirePidGate` |
| `Reread`, `Reprobe`, `FenceStat`, `FenceDial`, `Reclaim` | `confirmHeldGate`, `socketServeState` |
| `ConnectSocket`, `ClassifyInode`, `ClearSocket`, `Bind`, `Listen` | `serveOverUnixSocket` |
| `CloseServer`, `RemoveSocket` | the listener's `close` |
| `CheckOwnGate`, `UnlinkOwnGate` | `release` |
| `ClaimThrows`, `ConnectFails`, `ReleaseThrows` | the unreadable verdicts |
| `Launch`, `Die` | the kernel (external) |

Start instants are read from a process table whose clock may step, so a reading
drifts by up to `Skew`; `identitiesMatch` forgives `Tolerance`. The one assumption
that carries the identity of a process is `Skew <= Tolerance`.

`Starts` is the set of situations the first launch may find: what earlier runs
left. `MCPidGate` gives four: a crash's leftovers (`Crash`), a gate and an inode
that are neither (`Mangled`), a booting daemon of an earlier release with nothing in
its way (`Boot`), an old gate whose pid the machine has reused (`Reboot`).

### DaemonTenure
State: where the daemon is (`phase`), the triggers (`armed`), the reason that won,
the anchor's miss count, idleness, the two files, the event loop (`wedged`), the
exit status (`process`, which tells an end by a signal's default disposition from one by
the sibling), and the sibling (`watchdog`). One action is one callback
of the event loop; signals and the loop's wedging fall between any two, the turn of `process.exit` included. Poll
periods are not timed: a poll happens at any time, and under fairness again and
again.

### Convergence
State: every daemon started so far (`born`; a daemon is its index), the one that
holds the rendezvous (`resident`), the ones told to leave (`dying`), and for each
supervisor the local variables of one `converge` (`obs`, `bind`, `target`,
`rideStale`, `replaced`), the connection it holds (`held`), its drain budget
(`attempts`) and its last outcome; `unheard` is history: the daemon this converge's probe
reached and got nothing decodable from, one of another epoch or any that stays mute for the
silence deadline. One action is what a supervisor does between
two awaits, so the resident may be another one at each of them.

| Action | Code |
|---|---|
| `Probe`, `Undecodable`, `Corroborate`, `ProbeFails` | `observeProbe`, `openControlCore`, `probeCorroborated` |
| `Fold...` | `foldObserved`, `enactDecision` |
| `Drain`, `DrainTaken`, `DrainNotTaken` | `enactDrainOnce`, `drainAndAwaitExit` |
| `DrainNotAdmitted`, `GiveUp` | `admitAgainst`, `enactGiveUp`, `giveUpOutcome` |
| `ReadHolder`, `Adopt`, `DialSkewed`, `DialFails`, `Characterize` | `adoptSurvivor`, `adoptAt`, `characterizeHeld` |
| `Attest`, `Signal`, `Reaped` | `takeOver`, `killLiveHolder`, `reapHolder` |
| `Spawn`, `ConnectSpawned`, `Throw` | `spawnConnectHold` |

### RemoteSession
The code is one closure on one event loop. State: the record `ses` (the published
phase, the timer in the shared slot, whether a client promise is kept, the
connection held, the dial the epoch is about, the two flags set for a later close,
the ledger's bounded run, the backstop), `refs` and `grace` (pins and the release
timer), `destroyed`, and for every dial that still exists its stage (`dial`) and its
connection (`conn`). `shown` is history: the remote failures a reader of the frames
has seen in a row. One action is one synchronous stretch between two awaits; the
operators on the record are the functions the stretch calls, in their order.

| Action | Code |
|---|---|
| `Pin`, `Release`, `Reconnect`, `Recheck`, `Nudge`, `Destroy`, `MarkConnected` | the session's verbs, `ensureSpawned` |
| `RetryFires`, `WatchdogFires`, `BackstopFires`, `LetTheLinkGo` | the callbacks of `pendingTimer`, `preConnectedTimer`, `releaseTimer` |
| `Connecting`, `Superseded`, `Dial...`, `AskAdmit`, `AdmitFails`, `Adopt`, `Refuse`, `Replaced` | what `attempt` does after each of its awaits |
| `Closed` | `handleClosed` |
| `Die` | the transport or the far end (external) |

An epoch is the slot of its dial instead of a counter, and a slot is used again once
nothing of its dial is left: `myEpoch === dialEpoch` compares the same dials. Two
things are taken from the callers: a connector calls `ctx.connecting()` before it
returns (`session.ts:1710-1717` names the contract), and the consumer's first-answer
cue comes from the connection held.

### KavalUpkeep
padi's three loops around one endpoint. State: the daemon (`serving`, `silent` or
`gone`), the connection held and those whose close is still to come (`conn`,
`closing`), the published `status` and the `hold` a restart puts over it; the healer's
timer, what its last attempt left (`everConnected`, `unfinished`) and where each run of
its tick stands (`tick`); the step of the heal and of the restart (`heal`, `rst`), the
fiber kept for joining (`inFlight`), where each caller of a restart is (`rider`), and
the supervisor's probe and its ledger. `lapsed` is history: the ticks since whose
reading the daemon stopped serving.

| Action | Code |
|---|---|
| `TickFires`, `TickReads`, `TickDecides`, `TickSettles` | `linkLoss.ts` `tick`, `runAttempt` |
| `HealProbes`, `HealTakesOver`, `HealBinds`, `HealDials`, `HealSpawns`, `HealRewires`, `HealEnds` | `convergeAndReconcile` over the endpoint's binds, `withHealClaim` |
| `Press`, `RiderResumes`, `Interrupted` | `recycleKaval`, `withRestartClaim` |
| `Trigger`, `RestartDrains`, `RestartEnsures`, `RestartSpawns`, `RestartEnds` | `serializeRestart`, `holdRestarting`, `restartLocalDaemon`, `ensure` |
| `SupReads`, `SupObserves` | `kavalSupervision.ts`, one probe and its outcome |
| `Emit`, `HoldConnection`, `ReleaseHeld`, `Closed` | the endpoint's four writers of status and connection |
| `DaemonDies`, `DaemonHangs`, `DaemonReturns`, `LinkDrops` | the outside (external) |

### SavedSession
State: padi's `reg` (a row is a terminal and the number of its respawns), the spawn
calls not yet answered and which of them a restore awaits (`calls`, `settling`), the
records it has parked again (`reparked`), the autosave's `timer` and the restart's
`lease`, where `restartLocalDaemon` stands, the session on disk (`saved`), and of kaval
whether it serves, its PTYs and whether the pairing on disk names it. `mine` is
history: the terminals that were once on disk and that no exit, close or forfeit
ended.

| Action | Code |
|---|---|
| `Create`, `SpawnAnswers`, `SpawnFails`, `Exits`, `Close`, `Sleep`, `ReleaseSlept`, `Wake`, `AdoptOrphan` | `terminalEndpoint/local.ts`, `inventoryReconcile.ts` |
| `Fires`, `Capture`, `Writes` | `autosaveGate.ts`, `session.ts` |
| `Restore`, `Settles`, `Forfeit` | `sessionRestore.ts` |
| `RestartBegins`, `Recycles`, `RestartParks`, `RestartFails` | `restartLocal.ts` |
| `BootParks`, `BootAdopts` | `reattach.ts`, `pairedDaemon.ts` |
| `CleanStop`, `Crash`, `Reboots` | padi's and the host's ends |

What may go wrong is not left to chance but chosen per behaviour: `Scenarios` is a set
of sets of mishaps, and `may` is the one at work. A property is checked for the
combinations the code claims to survive; those it does not are listed under
"What they show".

### SurfaceMirror
One collection, both ways to mirror it (`protocol`). State of the server: the store and
the order of its keys, what this tick has yet to publish (`pending`, `keysDue`, `last`);
of the stream: what each subscription has yet to deliver (`main`, `get`); of the mirror:
its `cache`, the keys it asserts (`held`) and those it is about to remove (`sweep`),
where the pump is, and the link. `removed` and `torn` are history.

| Action | Code |
|---|---|
| `Upsert`, `Remove`, `FlushDeltas`, `FlushKeys` | `wrappedUpsert`, `wrappedRemove`, the two coalescers of `server.ts` |
| `ServeMain`, `ServeGet` | `collectionHandlers`, `subscribeBeforeSnapshot` |
| `FoldDeltas` | `mirrorCollectionDeltas` |
| `FoldKeys`, `FoldValue`, `Interrupt`, `Removed`, `KeyFails` | `mirrorCollection` |
| `Connect`, `MirrorFails`, `MirrorEnds`, `ProbeAnswers` | `pumpRemoteSurface` |
| `LinkDrops` | the transport (external) |

The channel's queue is unbounded, as `inMemoryChannel` is by default. Reading the
snapshot and subscribing are one step, because the code runs both in one synchronous
stretch; the mutant `ServedSnapshotFirst` takes them apart.

## 3. The runs

| Run | Question | Bounds |
|---|---|---|
| `pid_gate_crash` | Do racing launches, crashes, stops and failing reads behave as an evictable lock? May a stale verdict name a live process, teardown take a successor's socket, a claimant take a booting old daemon's gate? | three launches, one under the dead holder's pid; two passes of the loop; two of the three and the old daemon may crash, two may stop in order; drift up to the tolerance |
| `pid_gate_served` | Does every burst of launches end with a daemon that answers? | three launches, no new crash, no failing read, no stop; three passes |
| `tenure` | All properties of `DaemonTenure`, for the three lifetimes | two misses to exit (the code's number is a constant), two idle polls, two signals |
| `converge_rivals` | Do two supervisors that want different builds stop fighting, and does every converge end? | two supervisors, six daemons, two drains per lineage, drains that go unheeded |
| `converge_faulty` | Do budgets, refusals, outcomes and kills stay right under failures? | a draining and a recycling supervisor, survivors of every kind, four daemons, every call may fail, every daemon may stay mute or crash |
| `session` | All properties of `RemoteSession` | three dials or links alive at once, two pins, a ceiling of two (five in the code), with and without admission |
| `kaval_upkeep` | Does one owner have the endpoint, is every lost link healed or given up, every claim answered and every outage ended or given up, whatever dies, hangs or drops? | two connections whose close is outstanding, two overlapping ticks, one button pressed once, ceilings of two, two faults |
| `kaval_upkeep_dead` (violation) | "kaval re-converge attempt failed — the link is still down; retrying after the next backoff" (`linkLoss.ts:277`) | one tick, no button |
| `saved_session` | Is what the user had still on disk, once, and running where he sees it? | two terminals, two respawns each, four combinations of mishaps: {restart, stop, reboot}, {restart, restart fails, spawn fails}, {sleep, stop}, {sleep, spawn fails} |
| `saved_session_failed_restart` (violation) | "a failed restart can't null the captured session after the freeze lifts" (`restartLocal.ts:134`) | the mishaps {restart, restart fails, create without kaval} |
| `surface_mirror` | Is a quiet mirror its source, does no row flash, does the mirror catch up? | two keys, four writes, two faults, both protocols |
| `surface_mirror_parked` (violation) | "each mirror end races the next-spawn wait against probeEndedLink" (`hostFanout.ts:240`) | one key, two writes, one fault |

Why the bounds are enough. In `PidGate` every hazard is between a claimant, the
holder it misjudges and a third process that profits; three launches over one
dead holder contain all of them, the second pass of the loop is the first one that
can meet a fresh record, and the safety properties are proved for any number.
In `Convergence` a fight takes two supervisors, and is visible when a build
comes back a second time: with two drains per lineage and three lineages to
drain, no behaviour of `converge_rivals` starts a sixth daemon, so it is the
budgets that end the fight and not the bound. `MaxDaemons` in `converge_faulty` is a bound on the length of a story: a
survivor and three successors. Its `VIEW` (`Live` in `MCConvergence`) leaves out the local
variables of a converge that nothing reads before they are written again: states that differ
only there behave alike. Without it, and with three daemons, TLC gave the same verdicts for each
survivor by itself. In `RemoteSession` three slots let the dial that is
current meet two older ones that have not ended; the run has no other bound on its
length, the second pin tells a release from the last one, and a ceiling of two makes
a run that is reset differ from one that is not. In `KavalUpkeep` what is counted are
failures: the second fault may hit what the first one's repair just rebuilt, two ticks
are the one that decides on an old reading and the one that changed the endpoint
meanwhile, and ceilings of two tell "reset" from "spent" and from "one left".
`SavedSession` needs two terminals, because every loss it looks for is one row's record
missing from a write made for the sake of another; three terminals with one respawn each
gave the same verdicts for the scenarios of the run, and the safety properties are proved for
any number. In `SurfaceMirror` four writes put a key in, out and in again
beside a write to the other key, and two faults cut a link that came back after the
first.

Deadlock is not checked in the runs of daemons, supervisors and mirrors: daemons that
are done, supervisors that hold a connection and a mirror after the last write do stop.
It is checked in those of `RemoteSession`, `KavalUpkeep` and `SavedSession`, whose loops
go on for good.

Fairness. `PidGate`: a live process runs on; nobody has to launch, stop or kill
one, and with no crash and no stop allowed the run asks only that claims end.
`DaemonTenure`: timers of a running loop fire, its turns end (no weak fairness
holds for a wedged loop, whose actions are disabled), and the sibling is a process
of its own that runs. Nothing forces a signal, a fault or an abort.
`Convergence`: a converge runs on (every wait in the code has a deadline), a closed
connection is reported, the reconnect loop comes round (it is a timer), and a
daemon that heeds a drain or is signalled goes. Nothing makes a probe or a spawn
succeed. `RemoteSession`: armed timers fire (retry, watchdog, release), a link that was
torn down or died reports its close (`closed` always resolves), and a dial that was
aborted ends. A dial that was not aborted may stay in flight, a peer may never answer,
and nobody has to call a verb; the backstop needs no fairness, because a dial that
keeps reporting progress puts it off. `KavalUpkeep`: armed timers fire, the supervisor's
repeat comes round, closes are delivered, and every call of a heal, a tick or a restart
is answered or times out (each has a deadline in the code). The daemon need not come
back and nobody needs to press. `SavedSession`: the autosave's timer fires, kaval
lists what it holds and kills what it is told to. Nothing makes a spawn be answered or a
restart go on, and nobody has to use a terminal, stop or reboot. `SurfaceMirror`: one weak
fairness over what server and mirror do of their own accord, the session's next dial
included; writes and faults are free.

### What they show

- `OneUnevictedHolder`, `ImplementsLock`: the reap is the only hole of the lock.
- `StaleVerdictIsFinal`: a two-field record is judged stale only when its writer
  is dead, so all that the reap can destroy is a record that came later.
- `SocketLostOnlyToEvicted`: the teardown order (listener before gate) keeps a
  successor's inode safe.
- `LegacyBootKept`: "absent" is not "dead". A booting daemon of an earlier release is safe
  before its bind and from its listen on; the fence evicts it in between.
- `LaunchesEndServed`: no leftovers, reused pid or one-field gate keeps a scope dark.
- `EndsInOrder`, `AbsenceIsProven`, `NoneOutlivesItsPurpose`: the orderings that
  `daemonMain.ts` argues for in its comments, each against the interleaving that
  motivated it: nothing left behind, no fault reported as success, no daemon of any lifetime
  ended by the signal its announcement invites, no orphan but one whose loop stops after the
  watchdog was disarmed.
- `FightsEnd`: rivals settle, every converge ends and no build comes back: the budget's
  memory is what ends a fight, and forgetting it loses all three.
- `OutcomeIsAboutHeld`: what a caller may conclude from an outcome. A refusal holds nothing;
  `adopted` and `mismatch-reported` are what `decide` says of the daemon held, a successor met
  after a drain included; `drained-replacing` names an earlier daemon, which was drained;
  `adopted-stale` names one whose drains were spent, the one held being it or a successor that
  would be drained as well; of one that answers after a spawn only that it is compatible.
- `KillsFollowTheUnheard`: a compatible daemon is signalled on the word of this converge's own
  probe, never on that of a failed dial or an earlier converge. That the word may have been
  about a predecessor is the hole the property leaves open (see the observations).
- `OneLink`: the epoch, the `conn !== current` guard and the take-over of an armed
  backoff are together enough against every late settle.
- `HeldIsNeverStranded`, `HeldMovesOn`: the shared timer slot, the promise kept during a
  backoff and the backstop that arms itself again leave no state a holder would wait in
  forever.
- `DormantHoldsNothing`: the release supersedes the dial in flight.
- `GiveUpIsEarned`: the bounded run is what a reader of the frames can count.
- `OneOwner`: claims taken before the wait and dropped on every way out keep a heal and a
  restart apart, although a caller may be interrupted while the restart it started goes
  on.
- `RetryIsNeverLost`, `LostLinkIsHealedOrGivenUp`: every status the tick can meet leaves the
  timer armed, the heal's own failure excepted (`kaval_upkeep_dead`); with the daemon serving
  the link comes back for good, unless the status is `dead` or `restarting` again and again or
  for good, both of which the healer leaves alone.
- `SaysWhatItHolds`, `LateCloseTakesNothing`: seven writers of the status agree with the
  connection; a fiber is kept for joining exactly as long as the restart runs.
- `HealNeverRestarts`: a heal kills or spawns only where the daemon stopped serving after
  it was read healthy; what was unhealthy is left to the supervisor's budget.
- `EveryClaimEnds`, `OutageEnds`: nobody waits for somebody who waits for him, and the
  two failure classes together exhaust the budget.
- `DurableStays`: autosave, capture, settle and boot between them never write a session
  without a terminal the user still has, for the scenarios of the run; `NothingIsLost`
  says for which scenarios in general.
- `ParkedIsOffered`, `LiveIsSaved`: a parked row silences the autosave only while a
  restore can still consume it, so what lives reaches the disk in the end.
- `NoTwins`, `NoHiddenShell`: no terminal comes back twice, and no PTY runs that no row
  shows.
- `QuietMeansEqual`, `CatchesUp`: subscribing before reading, replacing on a snapshot,
  sweeping after the interrupt and carrying keys over a reconnect are each needed; a
  mutant without one of them loses the equality.
- `NoFlash`: nobody downstream of a mirror sees a row go that did not go.

Every property has a mutant in `PROJECT.json`: a plausible bug in the code that
it catches.

### Disagreements between the code and its comments

1. **A failed heal is not retried** (`kaval_upkeep_dead`). A heal whose gate reading or
   spawn fails publishes `dead`; the tick it armed for the retry asks `cleared()`, which
   wants `degraded`, and the loop ends. With the daemon serving, the supervisor's probe
   is healthy and repairs nothing.
2. **A failed restart loses the session** (`saved_session_failed_restart`). Before its
   park a restart has emptied the registry; when it fails there, the lease is lifted with
   nothing parked, and the first terminal created afterwards has the autosave write a
   session without the captured rows.
3. **A pump that waits for good** (`surface_mirror_parked`). A mirror that fails, because
   the stream of one member failed, continues without arming the probe; on a link that
   lives no next client ever comes.

Observations of the same kind that no run states:

- Two holders at once (`pidGate.ts:355` against its line 12): claimants A and B read one
  stale gate, A replaces it, B replaces A's. `OneUnevictedHolder` says this is the only
  way. `release`, too, reads and unlinks in two calls.
- A booting daemon of an earlier release is evicted when an older inode answers "dead"
  (`pidGate.ts:505` against line 467), and when the fence connects between its `bind` and its
  `listen`, one call of `server.listen` (`unix-socket.ts:436-441`): its own inode refuses then
  (`pidGate.ts:456` takes every error for "dead").
- An orphan: `daemonProcessMain` disarms the watchdog (`tenure.ts:106`, `112`) before the
  `setImmediate` that exits; a loop that stops in between has nobody left to end it.
- The wrong daemon is taken over: the gate is read after the undecodable answer, or the
  silence, and may by then name a healthy successor (`endpoint.ts:842`, against `converge.ts:355`).
- A stale anomaly: the ridden daemon leaves after the ceiling, the bind adopts another,
  the outcome names the first (`converge.ts:979`, against `anomaly.ts:71`).
- A live link's drop is counted as a remote failure: the watchdog's `connectTimedOut`
  outlives the link it was set for (`session.ts:1741`, `1507`, `1106`, against line 484).
- Connected with no link: `letTheLinkGo` clears `current` first, so the close is taken for
  a stale one and publishes nothing (`session.ts:1106`, against lines 1083-1085).
- `idleTimeout` samples idleness, so activity between two samples does not reset it; a
  spawned daemon that yields to a rival's leaves the connect with the rival, reported as
  the fresh one.
- A restart whose capture or drain throws dies as a defect, and `holdRestarting`'s
  recovery, which listens for failures (`endpoint.ts:1937-1956`), does not run: the hold
  stays.
- The supervisor does not read its decision again after waiting for a heal, and a heal may
  take over a daemon that came back after a silence.
- Sessions TLC shows lost under other `Scenarios`: {sleep, restart} and {sleep, stop,
  reboot} (sleeping rows are not parked; `reattach.ts:88-95` says so); {restart, overlap}
  (a restore's settle writes inside the freeze of a restart); {spawn fails, stop} and
  {stop, crash midway} (the warm boot takes re-parked rows, and rows whose spawn was in
  flight, for exited ones); {spawn fails, sleep, overlap} and {stop, sleep, overlap} (the save
  of a sleep or a wake asks no gate, so it writes the registry while a restore's card still
  waits for rows that are in none).
- Terminals TLC shows twice: {sleep, overlap} with a restart or a failing spawn (a wake that
  failed leaves a row asleep whose record on disk is active; a restore respawns it beside
  itself).
- A save TLC shows never made: with {restart, overlap}, the lease or the restart's end
  (`restartLocal.ts:139-140`) takes the timer of a terminal created meanwhile, not only one
  that the drain armed; the terminal is saved when something else dirties the registry.
- A forfeited offer TLC shows back on disk: a restore has parked one row again and awaits
  another; the user forfeits, and the next settle writes the row anew, because its list
  of re-parked records is its own (`sessionRestore.ts:442`, against lines 518-519). Until the
  next save a boot would offer it.
- A set of keys read between a write and its flush is not corrected when the tick's writes
  cancel out (`server.ts:872-876` says this changes no consumer's state). It takes a
  subscription served between two writes of one tick; `torn` excludes it.
- The re-serve's bounded `deltas` queue drops its oldest frame, after which no snapshot
  comes before the next link (`reServeSurface.ts:339-353` calls it harmless).

## 4. The proofs

### The rendezvous

`PidGateProofs` proves, for any set of incarnations, any pids and start instants
and any bound on the passes:

| Theorem | Says |
|---|---|
| `Invariant` | `Spec => []IInv` |
| `TypeCorrect` | `Spec => []TypeOK` |
| `Exclusion` | `Spec => []OneUnevictedHolder` |
| `StaleVerdicts` | `Spec => []StaleVerdictIsFinal` |
| `SocketKept` | `Spec => SocketLostOnlyToEvicted` |
| `LockRefinement` | `Spec => ImplementsLock` |
| `LegacyBoots` | `LegacyIsOld` gives `Spec => []LegacyBootKept` |

Assumptions: `RendezvousAssumption` (types of the constants and `Skew <=
Tolerance`) and `StartsAssumption` (what may be there before the first launch: at
most one old daemon up, and it holds the gate). TLC evaluates both in every run.
`LegacyBoots` assumes `LegacyIsOld` besides: no daemon whose record has one field is
launched any more, which every scenario of the runs satisfies.

The argument. `OneUnevictedHolder` is not inductive: `Link` makes a second holder
unless an unevicted holder's record is still in the file. Hence
`GateNamesHolder` (an unevicted holder is the one the file names), from which the
exclusion follows at once. It needs `EvictedPastLink` (a process that links was never
evicted before, so its record is new). `StaleVerdictIsFinal` needs
`OwnRecordMatches` (a live process matches its own record, by `Skew <=
Tolerance`), `RecordsAreWritten` (whoever wrote a record is past the link, so one that is
not alive has ended and never lives again), and `FenceIsOneField` (the socket
fence, whose verdict is fallible, is only used on one-field records). `PassLeft` gives the loop bound.
`QuietStep` says once what a step preserves that only moves a label; `UnlinkStep`
does so for the three unlinks; the rest is a case per action. The refinement maps
the owner to the incarnation that both holds and is named by the file, and the
displaced to the evicted ones that still hold: a link is an `Acquire`, a
reap over a live holder a `Displace`, an end a `Leave` or a `Depart`. `LegacyBoots` needs
`BootInv`: until a fence's connect has failed on its inode, the gate names yesterday's daemon
while it is up, its path is free until it binds there, and every claimant has read its record
and nothing else, so each of them ends at the fence, where nothing but that connect gives it up.

### The tenure

`DaemonTenureProofs` proves, for each lifetime and any number of misses, idle polls and
signals, and whether or not the loop may wedge:

| Theorem | Says |
|---|---|
| `TypeCorrect` | `Spec => []TypeOK` |
| `EndIsInOrder` | `Spec => []EndsInOrder` |
| `AbsenceProven` | `Spec => []AbsenceIsProven` |

The only assumption is `TenureAssumption`, on the types of the constants. The argument.
`TypeOK` needs that an armed trigger has not fired, and that a count is below its limit as
long as the daemon has not decided to stop: its three parts are `Switches`, `Modes` and
`Counts`. The order of the end is `Ordered`: each phase of the teardown has done what the
phases before it do, an announced daemon, of whatever lifetime, keeps its handlers until it decides, and a fault
before the arming is what the arming decides on. The count of misses says nothing of the
answers by itself; `MissesAreAnswers` ties it to them: each miss that is counted is one of
the last answers, so that the last miss shows a window of nothing else.

### The convergence

`ConvergenceProofs` proves, for any supervisors, policies, builds and budgets, any daemon
found at the start and any number of them:

| Theorem | Says |
|---|---|
| `TypeCorrect` | `Spec => []TypeOK` |
| `NoSecondFight` | `Spec => []OneInstancePerBuild` |
| `KillsAreJustified` | `Spec => []KillsFollowTheUnheard` |
| `OutcomesAreHonest` | `Spec => []OutcomeIsAboutHeld`, if `BakedKeyed` |

The assumptions are `ConvergenceAssumption` (the types of the constants) and, for the last
one, `BakedKeyed`: the daemons the supervisors spawn report when they started, which the
handshake of this repository demands (`controlCore.ts:54`). The daemon found at the start
may be an older one that does not; two of those in a row could not be told apart, and the
second one's answer would be taken for the first one's. The argument. All four use `Typed`, which adds to the types
that whoever is about to be drained, dialled or signalled is a daemon (`Asked`), and that
daemons are only ever added (`Grows`). `NoSecondFight` needs `Remembered`: the budget's
memory, kept per lineage, and the drains agree, so that an attempt that is remembered is one
of an instance that was drained. `KillsAreJustified` needs `Wary`: the target of a signal is
read before the dial, or before the decision, that condemns it; it is skewed, not decoded, the
successor of one that was not, or no longer the resident. `OutcomesAreHonest` needs `Honest`,
seven parts: what is held passed the handshake; the daemon that is being replaced was drained by
this supervisor and has left, and so was and has the one that the adopted resident replaced,
which a daemon met later cannot be (`Past`: who has left does not come back); the lineage of the
daemon that is ridden was drained, for which `Remembered` is needed again; and between the
second probe and its fold, what was characterized is what is held, or nothing is.
`AnswerIsHeld` is where the start times are needed. `OthersKeep` says once that a supervisor's step moves nothing of
another's; each invariant is then a case per action of the supervisor that moves, and a
lemma that it survives the growth of the world.

### The session

`RemoteSessionProofs` proves, for any number of dials alive at once, any number of
pins and any ceiling:

| Theorem | Says |
|---|---|
| `InvHolds` | `Spec => []Inv` |
| `TypeCorrect` | `Spec => []TypeOK` |
| `LinkIsUnique` | `Spec => []OneLink` |
| `HolderIsNeverStranded` | `Spec => []HeldIsNeverStranded` |
| `DormantIsEmpty` | `Spec => []DormantHoldsNothing` |
| `GiveUpsAreEarned` | `Spec => GiveUpIsEarned` |

The only assumption is `RemoteSessionAssumption`: the three constants are positive.

The argument. None of the three properties is inductive, and they need each other.
`OneLink` needs that the link held is the one the epoch is about (`LinkIsCurrent`), so
that a dial of the session's own cannot be in flight beside it; that in turn needs
every launch to find no link, which the client promise (kept while a link is held) and
the timer (`TimerAgrees`: a retry is armed only without a link, the watchdog only with
one, and neither beside a dial of the session's own) provide. The last of these is also
what makes `scheduleReconnect` find its slot free, which is `HeldIsNeverStranded`;
`Pursued` strengthens it from "held" to "held or keeping a client promise", because a
pin that finds a promise does nothing. The first half of the module says once what
each call does to the fields of the record (`AttemptFields`, `FailFields`, ...), two
lemmas cover the two shapes of step (`Launching`, `Failing`), and the rest is a case per
action. `GiveUpsAreEarned` needs, besides `Inv`, that the ledger's run never exceeds the
failures published (`Counted`); the free timer slot that `Inv` gives is what makes each
failure published with a frame also one that is counted.

### The upkeep of kaval

`KavalUpkeepProofs` proves, for any connections, overlapping ticks, callers, ceiling and
number of faults:

| Theorem | Says |
|---|---|
| `TypeCorrect` | `Spec => []TypeOK` |
| `OwnersHold` | the inductive invariant of ownership |
| `RestartAndHealExclude` | `Spec => []OneOwner` |
| `StatusIsTrue` | `Spec => []SaysWhatItHolds` |
| `RetryKept` | `Spec => []RetryIsNeverLost` |
| `HealsNeverRestart` | `Spec => HealNeverRestarts` |
| `LateClosesTakeNothing` | `Spec => LateCloseTakesNothing` |

The argument. That a claim excludes the other owner is not inductive, because the restart
is detached: its callers may be interrupted and give their claims back while it runs. What
keeps heals away then is the status: `Owners` says that a running restart publishes
`restarting` under its hold, which the tick does not take for a lost link, and that who
resumes after waiting for a heal finds none under way. `Pursued` says that a heal belongs
to a run of the tick that will arm the retry, and `Witnessed` that a healthy reading
stands until the daemon lapses.

### The saved session

`SavedSessionProofs` proves, for any terminals and any number of respawns:

| Theorem | Says | For the combinations of mishaps in |
|---|---|---|
| `TypeCorrect` | `Spec => []TypeOK` | any |
| `ParkedRowsAreOffered` | `Spec => []ParkedIsOffered` | `NothingOverlaps` |
| `TerminalsAreSingle` | `Spec => []NoTwins` | `RestoresSpareSleepers` |
| `NothingIsLost` | `Spec => []DurableStays` | `Benign` |
| `SaveIsDue` | `Spec => []LiveIsDue` | `RestartsAlone` |

The four hypotheses speak of `Scenarios`, the sets of mishaps a behaviour may draw from,
and each condition of theirs is needed: for every pair or triple they exclude TLC finds a
behaviour that breaks the property (`{stop, sleep, overlap}` needs three terminals, the
others two). So together with these counterexamples the theorems say exactly which
combinations of mishaps the code survives. Every set of the run `saved_session` satisfies
all four.

- `RestartsAlone`: no act of the user falls into a restart.
- `NothingOverlaps`: no act of the user (*overlap*) falls into a restart; and where the user
  also puts terminals to sleep, padi does not stop and no spawn fails.
- `RestoresSpareSleepers`: where the user acts during a restore and puts terminals to
  sleep, there is no restart and no spawn fails.
- `Benign`: `NothingOverlaps`; a restart meets no sleeping terminal, and not both a failure of
  its own and a terminal created without kaval; a stop meets no failed spawn and no crash
  midway, and not both a sleeping terminal and a reboot.

The argument. `ParkedIsOffered` needs what a settle is about to write: `ParkedHolds` says that
while a restore is unsettled, the rows it has parked again are the ones its next write
names, and `Because` says which mishap must be at work for a restart to be under way and for
padi or kaval to be down, so that the excluded combinations exclude those states. `NoTwins` is
about rows in the registry, but a second id of a terminal may also come from the disk, from a
PTY or from a restore's list: `OneRowEach` says that of all the ids a terminal has had one at
most is in any of these places. A respawn keeps that only if the old id leaves all of them,
hence `PtysAreKnown` (a PTY's spawn was answered and its row shows, or the inventory has yet to
take it in), `ReparkedWait` (what a restore has parked again waits as it is) and `Sleepers`
(when the record of a sleeping row may still be the active one). `DurableStays` speaks of the
disk, but what is lost is lost before the write: `SettlingStands` and `IdleStands` say that
whenever a settle, the autosave or a capture may write, each terminal not to be lost has a
row; `CardIsWhole`, that where padi may stop while a card waits, the card stands for
everything saved; `DownKeeps`, what the next boot will find; and `Course`, how rows, calls, PTYs
and a restart go together.

`LiveIsDue` is the safety half of `LiveIsSaved`: while nothing is parked, an active row that
the disk does not name as one has the timer armed. It holds because whoever cancels the timer
either writes the registry or finds it empty, so `DueHolds` needs only that no row stands in
it while a restart runs or padi is down. No run states it; TLC found `DueHolds` right for two
terminals and all the mishaps `RestartsAlone` allows at once.

### The mirror

`SurfaceMirrorProofs` proves, for any keys, writes and faults and both protocols:

| Theorem | Says |
|---|---|
| `TypeCorrect` | `Spec => []TypeOK` |
| `RowsStay` | `Spec => NoFlash` |
| `MirrorAgrees` | `Spec => [](Shape /\ Agreed)` |
| `QuietEqual` | `Spec => []QuietMeansEqual` |
| `NeverOlder` | a value the mirror has shown is never followed by an older one of its key |

The argument for `RowsStay`. That no single fold drops a live row is not inductive, because
what a fold does was decided when the frame was sent. `Stays` says of a key never removed:
if the mirror knows it (holds it in the cache, carries it over, or follows it) the
collection has it; it is not about to be swept; and the frames on their way are `Sound`:
none removes it, and none that could come after it was asserted, or after the mirror knew
it, is a whole that lacks it. `Shape` is all of the type invariant that the steps need of
each other; `TypeCorrect` adds `Flags`.

The argument for `QuietEqual`. A quiet mirror is one with nothing on its way to it, so the
invariant, `Agreed`, says what is on its way for every state that is not quiet.
`Ordered`: the order lists each key of the store once, so that a removal, which takes out one
place, takes out the key. `KeysAgree`: what was published last is what the mirror has been
told or will be told last, unless a subscription was served in the middle of a tick's writes
(`torn`); and it is what the store has, or a key set is due.
`StreamAgrees`: the stream of a key the mirror follows ends in the store's value or has
delivered it. `DeltasAgree`: the last frame on its way that mentions a key says what the store
says, and if none does the cache already agrees, unless the tick has yet to flush the key.
`Settled`: the cache holds nothing that the mirror does not also follow, carry over or sweep.
`QuietIsEqual` draws the conclusion without another step.

The argument for `NeverOlder`, which holds even if the key was gone in between. A value is
named by the number of its write, so "older" is "less". `Past(k, v)` says that all there is of a
key, in the store, due, on its way and in the cache, is from `v` on; every step preserves it,
so that what remains is that a value which is shown has everything of its key behind it. That
takes the order of what is on its way, `InOrder`: a stream's values and the values that frames
of deltas bring rise, up to what the tick has yet to flush and to what the store has. A snapshot
read in the middle of a tick is followed by the batch of that tick, which is no older
only because the coalescer keeps the last write of a key (`DeltasAgree`). No run states this
property; TLC found `InOrder` and the preservation of `Past` right within the bounds of
`surface_mirror`.

### Only model-checked

Every safety invariant and every action property of a passing run is stated by a theorem.
What is left to TLC is liveness, which rests on fairness and ENABLED and is out of this
prover's reach: `LaunchesEndServed`, `NoneOutlivesItsPurpose`, `FightsEnd` (its safety half is
`NoSecondFight`), `HeldMovesOn`, `EveryClaimEnds`, `LostLinkIsHealedOrGivenUp`, `OutageEnds`,
`LiveIsSaved`, `NoHiddenShell` and `CatchesUp`. The same holds for the refutations: that a
combination of mishaps does lose a session is TLC's word.

## 5. What is not modelled, and why

- RPC content, schemas, logs, environment variables, systemd units: data or pure
  I/O.
- Deadlines as durations: a timeout is a choice that may be taken whenever the code
  could meet it.
- The owner-only check's reasons: one constant verdict on the directory.
- The exit path of earlier releases' daemons: other code than this repository's.
- A restart of a supervisor: its budget is in memory only, and a new one is a new
  supervisor; the bound on daemons would end such a story before it says more.
- In `RemoteSession`, what is published beside the phase: the cached identity, the clock
  offset, the standing refusal, campaign numbers and logs. The heartbeat is a recheck
  that may come at any moment, the provisioning phases are one.
- In `KavalUpkeep`, adoption without a gate, contract skew and another build (what
  converging does then is `Convergence`'s), and backoff delays.
- In `SavedSession`, splits, the focus marker, the import of a session, Close All (`killAll`,
  `local.ts:1857-1872`, which ends every terminal at once), the restart of a single terminal and
  inventory pushes during a restart; one restore is unsettled at a time.
- In `SurfaceMirror`, cells, streams, events, procedures, demand, relays, the re-serve's
  bounded queue, the splitting of frames for the wire, a registry projection beyond its key
  sets, and the end of the session itself.
- The components marked *planned* or *not modelled* above. Most of the repository is user
  interface, agent integrations, application kits and command lines: parsing, rendering
  and wiring without a protocol of their own.

## 6. Plan

1. Gate-less recovery of the endpoint, `takeOver` with reused pids and the adopt hint,
   shown to implement the atomic binds that `Convergence` uses: no foreign pid signalled,
   recovery ends in bounded rounds.
2. Proofs: further abstract specifications (the upkeep as a resource handed from owner to
   owner; a session's links as a sequence of epochs) and their refinements.
3. Cells and streams of a surface, the relays and the re-serve with its bounded queue,
   composed with `RemoteSession` instead of its links going up and down at will.
4. kaval's attach, replay and live output to several attachers of different sizes;
   deliveries to agents; port forwards; the browser's `reattachingStream`.
