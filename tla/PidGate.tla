------------------------------ MODULE PidGate ------------------------------
(***************************************************************************)
(* The rendezvous of a surface daemon: the pid-gate file and the unix      *)
(* socket that every launch for one scope races for.                       *)
(*                                                                         *)
(* Code: packages/surface-daemon/src/pidGate.ts (claim, confirm, release), *)
(* packages/surface/src/unix-socket.ts (serveOverUnixSocket) and the frame *)
(* of packages/surface-daemon/src/daemonMain.ts that calls them in order.  *)
(*                                                                         *)
(* A process here is one incarnation: it starts at most once, and a later  *)
(* incarnation may carry the same OS pid.  One action is one file-system   *)
(* or socket call, because the processes that race share nothing but the   *)
(* files.  Simplifications:                                                *)
(*   - the gate file is named by the incarnation that wrote it; readers    *)
(*     only use what its content says (RecordedPid, two-field or not);     *)
(*   - the private temporary file linked onto the gate is not modelled;    *)
(*   - the owner-only verdict on the directory is one constant answer;     *)
(*   - a listener's backlog is never full (EAGAIN would read as dead);     *)
(*   - a yesterday's daemon (Legacy: one-field gate) is already running or *)
(*     dead when the model starts, it binds its socket as today's does,    *)
(*     and it ends only by dying, since its exit path is other code.       *)
(***************************************************************************)
EXTENDS Integers, FiniteSets

CONSTANTS
  Proc,          \* process incarnations
  Legacy,        \* those whose gate record has no start time
  PidOf,         \* [Proc -> Nat]: the OS pid an incarnation runs under
  StartOf,       \* [Proc -> Nat]: its start instant
  Tolerance,     \* START_TIME_TOLERANCE_US
  Skew,          \* how far a later reading of a start instant may drift
  MaxAttempts,   \* passes of the acquire loop (100 in the code)
  DirPrivate,    \* isPrivateOwnedDir's answer for the rendezvous directory
  FaultyReads,   \* may a read or a probe fail with EACCES/EIO?
  Mortal,        \* incarnations that may die without running their teardown
  Stoppable,     \* incarnations a shutdown trigger may end in order
  Starts         \* records [pc, gate, sock]: what each incarnation is doing,
                 \* and what lies at the two paths, before the first launch

NoFile    == "no file"
Malformed == "malformed"    \* a gate whose first token is no pid
Foreign   == "not a socket" \* a regular file, directory or symlink

Claiming == {"mkdir", "link", "read", "probe", "reap",
             "reread", "reprobe", "fence", "dial", "reclaim"}
\* From the successful link to the end of release: "I hold the gate".
Holding  == {"connect", "classify", "clear", "bind", "listen", "serving",
             "unsocket", "checkOwn", "unlinkOwn"}
Ended    == {"yielded", "refused", "exited", "threw", "dead"}
Pcs      == Claiming \cup Holding \cup Ended \cup {"off", "bystander"}

ASSUME RendezvousAssumption ==
  /\ Legacy \subseteq Proc /\ Mortal \subseteq Proc
  /\ Stoppable \subseteq Proc \ Legacy
  /\ PidOf \in [Proc -> Nat] /\ StartOf \in [Proc -> Nat]
  /\ Skew \in Nat /\ Tolerance \in Nat /\ Skew =< Tolerance
  /\ MaxAttempts \in Nat \ {0}
  /\ DirPrivate \in BOOLEAN /\ FaultyReads \in BOOLEAN
  /\ Proc \cap {NoFile, Malformed, Foreign} = {}

ASSUME StartsAssumption ==
  \A st \in Starts :
    /\ st.pc \in [Proc -> {"off", "bystander", "dead", "clear", "serving"}]
    /\ st.gate \in Proc \cup {NoFile, Malformed}
    /\ st.gate \in Proc => st.pc[st.gate] \in {"dead", "clear", "serving"}
    /\ st.sock \in Proc \cup {NoFile, Foreign}
    \* only yesterday's daemons are up before the model starts, at most one
    \* of them, and it holds the gate
    /\ \A p \in Proc :
         /\ st.pc[p] \in {"clear", "serving"} => p \in Legacy /\ st.gate = p
         /\ st.pc[p] = "serving" => st.sock = p

VARIABLES
  gate,       \* what is at gatePath
  sock,       \* what is at socketPath (the inode's creator)
  pc,         \* [Proc -> Pcs]
  seen,       \* [Proc -> gate]: the claimant's last read of the gate
  attempt,    \* [Proc -> 0..MaxAttempts]: passes of the current acquire call
  confirmed,  \* incarnations whose confirmHeldGate has re-entered acquire
  evicted,    \* history: incarnations whose gate was unlinked by another one
              \* while they held it
  refused     \* history: yesterday's daemons whose inode was there when a
              \* fence's connect failed

vars == <<gate, sock, pc, seen, attempt, confirmed, evicted, refused>>

Alive(p) == pc[p] \notin Ended \cup {"off"}
Holds(p) == pc[p] \in Holding
Goto(p, l) == pc' = [pc EXCEPT ![p] = l]

-----------------------------------------------------------------------------
(* What the content of a gate file says, and who it names.                 *)

TwoField(g) == g \in Proc \ Legacy

\* (mutant) start instants compared for equality.
MatchesExactly(g, q, d) == PidOf[q] = PidOf[g] /\ StartOf[q] + d = StartOf[g]

\* (mutant) the pid alone is taken for an identity.
MatchesPidOnly(g, q, d) == PidOf[q] = PidOf[g]

\* identitiesMatch: one pid, and start instants no further apart than the
\* tolerance; d is the drift of the reading.
Matches(g, q, d) ==
  /\ PidOf[q] = PidOf[g]
  /\ StartOf[q] + d - StartOf[g] \in -Tolerance .. Tolerance

\* liveHolderFromRecord: the process now running under the recorded pid, when
\* it is the recorded one (two fields) or whoever it is (one field).
LiveHolder(g, d) ==
  \E q \in Proc : /\ Alive(q)
                 /\ IF TwoField(g) THEN Matches(g, q, d) ELSE PidOf[q] = PidOf[g]

\* A connect to socketPath succeeds: probeSocket = "reachable".  An inode that
\* is bound and does not listen yet refuses, like a dead one.
Reachable == sock \in Proc /\ pc[sock] = "serving"

\* Unlinking gatePath, whatever is there: the holder that loses its gate this
\* way is not told.
UnlinkGate(p) ==
  /\ gate' = NoFile
  /\ evicted' = evicted \cup {q \in Proc \ {p} : gate = q /\ Holds(q)}

-----------------------------------------------------------------------------
Init ==
  /\ \E st \in Starts : pc = st.pc /\ gate = st.gate /\ sock = st.sock
  /\ seen = [p \in Proc |-> NoFile]
  /\ attempt = [p \in Proc |-> 0]
  /\ confirmed = {}
  /\ evicted = {} /\ refused = {}

\* A launch.  The kernel gives no pid to two live processes.
Launch(p) ==
  /\ pc[p] = "off"
  /\ \A q \in Proc : Alive(q) => PidOf[q] # PidOf[p]
  /\ Goto(p, "mkdir")
  /\ UNCHANGED <<gate, sock, seen, attempt, confirmed, evicted, refused>>

\* mkdir, then the owner-only check.
OpenDir(p) ==
  /\ pc[p] = "mkdir"
  /\ Goto(p, IF DirPrivate THEN "link" ELSE "refused")
  /\ attempt' = [attempt EXCEPT ![p] = 0]
  /\ UNCHANGED <<gate, sock, seen, confirmed, evicted, refused>>

\* (mutant) rename(2) instead of link(2): the gate is overwritten.
LinkOverwrites(p) ==
  /\ pc[p] = "link"
  /\ gate' = p
  /\ Goto(p, "connect")
  /\ UNCHANGED <<sock, seen, attempt, confirmed, evicted, refused>>

\* link(2) of the temporary onto the gate: atomic, EEXIST when it is taken.
Link(p) ==
  /\ pc[p] = "link"
  /\ IF gate = NoFile
     THEN gate' = p /\ Goto(p, "connect")
     ELSE gate' = gate /\ Goto(p, "read")
  /\ UNCHANGED <<sock, seen, attempt, confirmed, evicted, refused>>

ReadGate(p) ==
  /\ pc[p] = "read"
  /\ seen' = [seen EXCEPT ![p] = gate]
  /\ Goto(p, IF gate \in Proc THEN "probe" ELSE "reap")
  /\ UNCHANGED <<gate, sock, attempt, confirmed, evicted, refused>>

\* The holder probe inside acquire.  "held" goes on to confirmHeldGate, unless
\* this acquire is the one confirmHeldGate itself re-entered.
ProbeHolder(p) ==
  /\ pc[p] = "probe"
  /\ \E d \in -Skew .. Skew :
       Goto(p, IF ~LiveHolder(seen[p], d) THEN "reap"
               ELSE IF p \in confirmed THEN "yielded" ELSE "reread")
  /\ UNCHANGED <<gate, sock, seen, attempt, confirmed, evicted, refused>>

\* (mutant) the stale gate is replaced in one step, without taking turns.
ReapByReplacing(p) ==
  /\ pc[p] = "reap"
  /\ evicted' = evicted \cup {q \in Proc \ {p} : gate = q /\ Holds(q)}
  /\ gate' = p
  /\ Goto(p, "connect")
  /\ UNCHANGED <<sock, seen, attempt, confirmed, refused>>

\* (mutant) one pass too many.
ReapOncePast(p) ==
  /\ pc[p] = "reap"
  /\ UnlinkGate(p)
  /\ attempt' = [attempt EXCEPT ![p] = @ + 1]
  /\ Goto(p, IF attempt[p] =< MaxAttempts THEN "link" ELSE "threw")
  /\ UNCHANGED <<sock, seen, confirmed, refused>>

\* The stale gate is unlinked by path and the loop goes round again, or gives
\* up when its passes are spent.
Reap(p) ==
  /\ pc[p] = "reap"
  /\ UnlinkGate(p)
  /\ attempt' = [attempt EXCEPT ![p] = @ + 1]
  /\ Goto(p, IF attempt[p] + 1 < MaxAttempts THEN "link" ELSE "threw")
  /\ UNCHANGED <<sock, seen, confirmed, refused>>

\* confirmHeldGate's one observation, and what follows from it.
Reread(p) ==
  /\ pc[p] = "reread"
  /\ seen' = [seen EXCEPT ![p] = gate]
  /\ Goto(p, IF gate \in Proc THEN "reprobe" ELSE "reclaim")
  /\ UNCHANGED <<gate, sock, attempt, confirmed, evicted, refused>>

Reprobe(p) ==
  /\ pc[p] = "reprobe"
  /\ \E d \in -Skew .. Skew :
       Goto(p, IF ~LiveHolder(seen[p], d) THEN "reclaim"
               ELSE IF TwoField(seen[p]) THEN "yielded" ELSE "fence")
  /\ UNCHANGED <<gate, sock, seen, attempt, confirmed, evicted, refused>>

\* (mutant) an absent socket is taken for a dead one.
AbsentIsDead(p) ==
  /\ pc[p] = "fence"
  /\ Goto(p, IF sock \in Proc THEN "dial" ELSE "reclaim")
  /\ UNCHANGED <<gate, sock, seen, attempt, confirmed, evicted, refused>>

\* The one-field fence, lstat: nothing there keeps the gate held ("absent"),
\* something that is no socket gives it up ("dead").
FenceStat(p) ==
  /\ pc[p] = "fence"
  /\ Goto(p, CASE sock = NoFile  -> "yielded"
               [] sock = Foreign -> "reclaim"
               [] OTHER          -> "dial")
  /\ UNCHANGED <<gate, sock, seen, attempt, confirmed, evicted, refused>>

\* The fence, connect: every error is "dead", be it a refusal, an inode gone
\* since lstat or a failure of the call itself.  A connect hangs only on a
\* listener, and a silent one is held like one that answers.
FenceDial(p) ==
  /\ pc[p] = "dial"
  /\ \/ /\ Reachable
        /\ Goto(p, "yielded") /\ refused' = refused
     \/ /\ ~Reachable \/ FaultyReads
        /\ Goto(p, "reclaim") /\ refused' = refused \cup ({sock} \cap Legacy)
  /\ UNCHANGED <<gate, sock, seen, attempt, confirmed, evicted>>

Reclaim(p) ==
  /\ pc[p] = "reclaim"
  /\ UnlinkGate(p)
  /\ confirmed' = confirmed \cup {p}
  /\ Goto(p, "mkdir")
  /\ UNCHANGED <<sock, seen, attempt, refused>>

\* A gate that cannot be read, or a probe that fails to answer, is never
\* evidence: the claim throws and leaves every file alone.
ClaimThrows(p) ==
  /\ FaultyReads
  /\ pc[p] \in {"read", "probe", "reread", "reprobe", "fence"}
  /\ Goto(p, "threw")
  /\ UNCHANGED <<gate, sock, seen, attempt, confirmed, evicted, refused>>

-----------------------------------------------------------------------------
(* serveOverUnixSocket.  A refusal releases the gate and ends the daemon.  *)

ConnectSocket(p) ==
  /\ pc[p] = "connect"
  /\ Goto(p, IF Reachable THEN "checkOwn" ELSE "classify")
  /\ UNCHANGED <<gate, sock, seen, attempt, confirmed, evicted, refused>>

ConnectFails(p) ==
  /\ FaultyReads
  /\ pc[p] = "connect"
  /\ Goto(p, "checkOwn")
  /\ UNCHANGED <<gate, sock, seen, attempt, confirmed, evicted, refused>>

ClassifyInode(p) ==
  /\ pc[p] = "classify"
  /\ Goto(p, IF sock = Foreign THEN "checkOwn" ELSE "clear")
  /\ UNCHANGED <<gate, sock, seen, attempt, confirmed, evicted, refused>>

ClearSocket(p) ==
  /\ pc[p] = "clear"
  /\ sock' = NoFile
  /\ Goto(p, "bind")
  /\ UNCHANGED <<gate, seen, attempt, confirmed, evicted, refused>>

\* server.listen(socketPath) is bind(2), which makes the inode or meets one
\* (EADDRINUSE), and then listen(2) on it, wherever the inode is by then.
Bind(p) ==
  /\ pc[p] = "bind"
  /\ IF sock = NoFile
     THEN sock' = p /\ Goto(p, "listen")
     ELSE sock' = sock /\ Goto(p, "checkOwn")
  /\ UNCHANGED <<gate, seen, attempt, confirmed, evicted, refused>>

Listen(p) ==
  /\ pc[p] = "listen"
  /\ Goto(p, "serving")
  /\ UNCHANGED <<gate, sock, seen, attempt, confirmed, evicted, refused>>

-----------------------------------------------------------------------------
(* Teardown: listener.close() and then gate.release().                     *)

\* (mutant) the gate is released before the listener is closed.
ReleaseBeforeClose(p) ==
  /\ pc[p] = "serving" /\ p \in Stoppable
  /\ gate' = IF gate = p THEN NoFile ELSE gate
  /\ Goto(p, "unsocket")
  /\ UNCHANGED <<sock, seen, attempt, confirmed, evicted, refused>>

\* server.close(): no new peer is accepted and the open ones are destroyed.
CloseServer(p) ==
  /\ pc[p] = "serving" /\ p \in Stoppable
  /\ Goto(p, "unsocket")
  /\ UNCHANGED <<gate, sock, seen, attempt, confirmed, evicted, refused>>

\* rmSync(socketPath, force): whatever is there.
RemoveSocket(p) ==
  /\ pc[p] = "unsocket"
  /\ sock' = NoFile
  /\ Goto(p, "checkOwn")
  /\ UNCHANGED <<gate, seen, attempt, confirmed, evicted, refused>>

\* release: the gate is read, and unlinked when it is a two-field record that
\* names this process.
CheckOwnGate(p) ==
  /\ pc[p] = "checkOwn"
  /\ Goto(p, IF TwoField(gate) /\ Matches(gate, p, 0) THEN "unlinkOwn" ELSE "exited")
  /\ UNCHANGED <<gate, sock, seen, attempt, confirmed, evicted, refused>>

ReleaseThrows(p) ==
  /\ FaultyReads
  /\ pc[p] = "checkOwn"
  /\ Goto(p, "threw")
  /\ UNCHANGED <<gate, sock, seen, attempt, confirmed, evicted, refused>>

UnlinkOwnGate(p) ==
  /\ pc[p] = "unlinkOwn"
  /\ UnlinkGate(p)
  /\ Goto(p, "exited")
  /\ UNCHANGED <<sock, seen, attempt, confirmed, refused>>

\* Death without teardown: both files stay where they are.
Die(p) ==
  /\ p \in Mortal /\ Alive(p)
  /\ Goto(p, "dead")
  /\ UNCHANGED <<gate, sock, seen, attempt, confirmed, evicted, refused>>

-----------------------------------------------------------------------------
Claim(p) ==
  \/ OpenDir(p) \/ Link(p) \/ ReadGate(p) \/ ProbeHolder(p) \/ Reap(p)
  \/ Reread(p) \/ Reprobe(p) \/ FenceStat(p) \/ FenceDial(p) \/ Reclaim(p)

Serve(p) ==
  \/ ConnectSocket(p) \/ ClassifyInode(p) \/ ClearSocket(p) \/ Bind(p) \/ Listen(p)

Teardown(p) ==
  \/ RemoveSocket(p) \/ CheckOwnGate(p) \/ UnlinkOwnGate(p)

Environment(p) ==
  \/ Launch(p) \/ CloseServer(p) \/ Die(p)
  \/ ClaimThrows(p) \/ ConnectFails(p) \/ ReleaseThrows(p)

Next == \E p \in Proc : Claim(p) \/ Serve(p) \/ Teardown(p) \/ Environment(p)

Spec == Init /\ [][Next]_vars

\* A live process runs on; nobody is obliged to launch, stop or kill it.
FairSpec ==
  Spec /\ \A p \in Proc : WF_vars(Claim(p) \/ Serve(p) \/ Teardown(p))

-----------------------------------------------------------------------------
(* The lock the gate implements.                                           *)

Owner     == IF gate \in Proc /\ Holds(gate) THEN gate ELSE NoFile
Displaced == {p \in evicted : Holds(p)}

Lock == INSTANCE EvictableLock
          WITH None <- NoFile, owner <- Owner, displaced <- Displaced

\* The files, races, crashes and late releases together behave as the lock of
\* EvictableLock: nobody becomes owner over an owner, and what can go wrong is
\* a displacement.
ImplementsLock == Lock!LSpec

-----------------------------------------------------------------------------
TypeOK ==
  /\ gate \in Proc \cup {NoFile, Malformed}
  /\ sock \in Proc \cup {NoFile, Foreign}
  /\ pc \in [Proc -> Pcs]
  /\ seen \in [Proc -> Proc \cup {NoFile, Malformed}]
  /\ attempt \in [Proc -> 0 .. MaxAttempts]
  /\ confirmed \subseteq Proc
  /\ evicted \subseteq Proc /\ refused \subseteq Legacy

\* Two processes hold the gate at once only if one of them was evicted: had
\* its gate unlinked by another one's reap.  The reap is the only hole.
OneUnevictedHolder ==
  \A p, q \in Proc \ evicted : Holds(p) /\ Holds(q) => p = q

\* A claimant never unlinks the record of a live two-field holder because it
\* judged THAT record stale: what it is about to unlink on the strength of a
\* dead holder's record is dead for good.
StaleVerdictIsFinal ==
  \A p \in Proc :
    pc[p] \in {"reap", "reclaim"} /\ TwoField(seen[p]) => ~Alive(seen[p])

\* A serving daemon loses the inode at socketPath only to a process that was
\* evicted: teardown closes the listener before it releases the gate, so a
\* successor's socket cannot appear under a predecessor that still removes it.
SocketLostOnlyToEvicted ==
  [][\A q \in Proc :
       pc[q] = "serving" /\ sock = q /\ pc'[q] = "serving" /\ sock' # q
         => \E p \in Proc : pc[p] # pc'[p] /\ {p, q} \cap evicted # {}]_vars

\* A yesterday's daemon that boots with no older inode at socketPath loses its
\* gate to a claimant only if a fence's connect failed on the inode it had made:
\* before it has one, and once it listens, it is safe from every interleaving of
\* claimants ("absent" is not "dead").  What is left is the window between its
\* bind and its listen, in which the inode refuses, and a connect that fails for
\* a reason of its own; socketServeState calls both "dead".
LegacyBootKept ==
  (\A st \in Starts : st.gate \in Legacy => st.sock = NoFile)
    => Legacy \cap evicted \subseteq refused

\* Every burst of launches ends with a daemon that answers at socketPath.
LaunchesEndServed == (\E p \in Proc : pc[p] \in Claiming) ~> []Reachable
=============================================================================
