---------------------------- MODULE DaemonTenure ----------------------------
(***************************************************************************)
(* The life of one daemon process from its bound socket to its exit: the   *)
(* shutdown triggers waitForShutdown arms, the announcement, the ordered   *)
(* teardown, the exit daemonProcessMain owns, and the sibling process that *)
(* backs up a daemon bound to the pid of the run that spawned it.          *)
(*                                                                         *)
(* Code: packages/surface-daemon/src/daemonMain.ts, tenure.ts,             *)
(* bindPidWatchdog.ts, runtimeFault.ts.  Claiming the gate and binding the *)
(* socket is PidGate's subject; this module starts where both are held.    *)
(* Simplifications: poll periods are not timed, a poll just happens; every *)
(* callback of the event loop is one step, what the kernel does to the     *)
(* process can fall between any two of them; the bind pid is not reused;   *)
(* releasing the gate succeeds (its failures are PidGate's), and so does   *)
(* the spawn of the sibling.                                               *)
(***************************************************************************)
EXTENDS Integers, Sequences

CONSTANTS
  Lifetimes,       \* among "forever", "idleTimeout" and "boundToPid"
  MissesToExit,    \* ANCHOR_MISSES_TO_EXIT
  IdlePolls,       \* idleTimeout's ms, in poll periods
  MayWedge,        \* may the event loop stop for good?
  MaxSignals       \* bound: SIGTERM/SIGINTs that arrive

ASSUME TenureAssumption ==
  /\ Lifetimes \subseteq {"forever", "idleTimeout", "boundToPid"}
  /\ MissesToExit \in Nat \ {0} /\ IdlePolls \in Nat \ {0}
  /\ MayWedge \in BOOLEAN /\ MaxSignals \in Nat

Reasons == {"signal", "abort", "idle", "pid-gone", "anchor-gone", "runtime-fault"}
None    == "none"
AnchorStates == {"present", "gone", "unreadable", "unset"}

VARIABLES
  lifetime,    \* the DaemonLifetime of the spec, fixed for the process
  phase,       \* where the daemon's own code is
  armed,       \* are the triggers and the signal handlers installed?
  reason,      \* the DaemonShutdownReason that won, or None
  misses,      \* consecutive polls that proved the anchor gone
  idleFor,     \* poll periods since idleSince, or -1 when it is unset
  socket, gate, \* are the two files still there?
  wedged,      \* has the event loop stopped?
  process,     \* "up", "exit 0", "exit 1"; ended by a signal's default
               \* disposition ("signalled") or by the sibling ("reaped")
  watchdog,    \* the sibling: "watching", "grace", "over" (or there is none)
  \* the world
  faulted, aborted,   \* the two abort signals
  bindAlive,          \* does the bind pid's process live?
  anchor,             \* what lstat of the anchor answers
  busy,               \* is a client using the daemon?
  signals,            \* signals sent so far
  \* history
  announced,     \* did the daemon say "daemon listening"?
  faultedFirst,  \* had the runtime faulted before the triggers were armed?
  lastPolls      \* the last MissesToExit answers of the anchor poll

daemonVars == <<lifetime, phase, armed, reason, misses, idleFor, socket, gate, process>>
worldVars  == <<faulted, aborted, bindAlive, anchor, busy, signals>>
histVars   == <<announced, faultedFirst, lastPolls>>
vars == <<daemonVars, wedged, watchdog, worldVars, histVars>>

Up      == process = "up"
Running == Up /\ ~wedged     \* the event loop can take a step

Init ==
  /\ lifetime \in Lifetimes
  /\ phase = "bound" /\ armed = FALSE /\ reason = None
  /\ misses = 0 /\ idleFor = -1
  /\ socket = TRUE /\ gate = TRUE
  /\ wedged = FALSE /\ process = "up"
  /\ watchdog = IF lifetime = "boundToPid" THEN "watching" ELSE "over"
  /\ faulted \in BOOLEAN /\ aborted \in BOOLEAN /\ bindAlive \in BOOLEAN
  /\ anchor \in AnchorStates /\ busy = FALSE /\ signals = 0
  /\ announced = FALSE /\ faultedFirst = FALSE
  /\ lastPolls = <<>>

-----------------------------------------------------------------------------
(* waitForShutdown and the announcement.                                   *)

\* (mutant) the graceful stop is looked at before the fault.
AbortLookedAtFirst ==
  IF aborted THEN "abort"
  ELSE IF faulted THEN "runtime-fault"
  ELSE IF lifetime = "boundToPid" /\ ~bindAlive THEN "pid-gone"
  ELSE None

\* The trigger that fires while the others are being installed: a runtime that
\* is already dead, an abort already requested, a bind pid already gone.
OverAtArming ==
  IF faulted THEN "runtime-fault"
  ELSE IF aborted THEN "abort"
  ELSE IF lifetime = "boundToPid" /\ ~bindAlive THEN "pid-gone"
  ELSE None

\* (mutant) readiness is announced in one turn, the triggers armed in the next.
AnnounceThenArm ==
  /\ Running /\ phase = "bound"
  /\ IF announced
     THEN /\ reason' = OverAtArming
          /\ armed' = (reason' = None)
          /\ phase' = IF reason' = None THEN "waiting" ELSE "closing"
     ELSE UNCHANGED <<armed, reason, phase>>
  /\ announced' = TRUE
  /\ faultedFirst' = faulted
  /\ UNCHANGED <<lifetime, misses, idleFor, socket, gate, process, wedged, watchdog,
                 worldVars, lastPolls>>

\* Triggers first, then the announcement, in one turn of the loop.  A daemon
\* whose shutdown is already decided announces nothing.
ArmAndAnnounce ==
  /\ Running /\ phase = "bound"
  /\ reason' = OverAtArming
  /\ armed' = (reason' = None)
  /\ announced' = (reason' = None)
  /\ phase' = IF reason' = None THEN "waiting" ELSE "closing"
  /\ faultedFirst' = faulted
  /\ UNCHANGED <<lifetime, misses, idleFor, socket, gate, process, wedged, watchdog,
                 worldVars, lastPolls>>

\* The announcement's callback throws: the triggers are disarmed and the
\* teardown runs with no reason; the run is rejected.
ReadyThrows ==
  /\ Running /\ phase = "bound"
  /\ OverAtArming = None
  /\ announced' = TRUE
  /\ phase' = "closing"
  /\ faultedFirst' = faulted
  /\ UNCHANGED <<lifetime, armed, reason, misses, idleFor, socket, gate, process, wedged,
                 watchdog, worldVars, lastPolls>>

\* finish: the first trigger wins, disarms everything, and the waiting frame
\* goes on to its teardown.
Finish(r) ==
  /\ reason' = r
  /\ armed' = FALSE
  /\ phase' = "closing"

Waiting == Running /\ armed

-----------------------------------------------------------------------------
(* The triggers.                                                           *)

\* (mutant) an anchor that cannot be read leaves the count where it is.
AnchorPollKeepsCount ==
  /\ Waiting
  /\ misses' = CASE anchor = "gone" -> misses + 1
                 [] anchor = "unreadable" -> misses
                 [] OTHER -> 0
  /\ lastPolls' = LET s == Append(lastPolls, anchor) IN
                  SubSeq(s, IF Len(s) > MissesToExit THEN 2 ELSE 1, Len(s))
  /\ IF misses' >= MissesToExit
     THEN Finish("anchor-gone")
     ELSE UNCHANGED <<reason, armed, phase>>
  /\ UNCHANGED <<lifetime, idleFor, socket, gate, process, wedged, watchdog, worldVars,
                 announced, faultedFirst>>

\* (mutant) every miss is taken for the first one.
AnchorPollForgets ==
  /\ Waiting
  /\ misses' = IF anchor = "gone" THEN 1 ELSE 0
  /\ lastPolls' = LET s == Append(lastPolls, anchor) IN
                  SubSeq(s, IF Len(s) > MissesToExit THEN 2 ELSE 1, Len(s))
  /\ IF misses' >= MissesToExit
     THEN Finish("anchor-gone")
     ELSE UNCHANGED <<reason, armed, phase>>
  /\ UNCHANGED <<lifetime, idleFor, socket, gate, process, wedged, watchdog, worldVars,
                 announced, faultedFirst>>

\* (mutant) one miss more than allowed before the daemon lets go.
AnchorPollLate ==
  /\ Waiting
  /\ misses' = IF anchor = "gone" THEN misses + 1 ELSE 0
  /\ lastPolls' = LET s == Append(lastPolls, anchor) IN
                  SubSeq(s, IF Len(s) > MissesToExit THEN 2 ELSE 1, Len(s))
  /\ IF misses' > MissesToExit
     THEN Finish("anchor-gone")
     ELSE UNCHANGED <<reason, armed, phase>>
  /\ UNCHANGED <<lifetime, idleFor, socket, gate, process, wedged, watchdog, worldVars,
                 announced, faultedFirst>>

\* The anchor is re-evaluated; only an lstat that proves it gone counts, any
\* other answer starts the count again.
AnchorPoll ==
  /\ Waiting
  /\ misses' = IF anchor = "gone" THEN misses + 1 ELSE 0
  /\ lastPolls' = LET s == Append(lastPolls, anchor) IN
                  SubSeq(s, IF Len(s) > MissesToExit THEN 2 ELSE 1, Len(s))
  /\ IF misses' >= MissesToExit
     THEN Finish("anchor-gone")
     ELSE UNCHANGED <<reason, armed, phase>>
  /\ UNCHANGED <<lifetime, idleFor, socket, gate, process, wedged, watchdog, worldVars,
                 announced, faultedFirst>>

IdlePoll ==
  /\ Waiting /\ lifetime = "idleTimeout"
  /\ idleFor' = IF busy THEN -1 ELSE idleFor + 1
  /\ IF idleFor' >= IdlePolls
     THEN Finish("idle")
     ELSE UNCHANGED <<reason, armed, phase>>
  /\ UNCHANGED <<lifetime, misses, socket, gate, process, wedged, watchdog, worldVars,
                 announced, faultedFirst, lastPolls>>

BindPoll ==
  /\ Waiting /\ lifetime = "boundToPid" /\ ~bindAlive
  /\ Finish("pid-gone")
  /\ UNCHANGED <<lifetime, misses, idleFor, socket, gate, process, wedged, watchdog,
                 worldVars, histVars>>

\* A signal finds the handlers, or the kernel's default disposition; a wedged
\* loop with handlers installed swallows it.
Signal ==
  /\ Up /\ signals < MaxSignals
  /\ signals' = signals + 1
  /\ \/ /\ armed /\ ~wedged
        /\ Finish("signal")
        /\ process' = process
     \/ /\ armed /\ wedged
        /\ UNCHANGED <<reason, armed, phase, process>>
     \/ /\ ~armed
        /\ process' = "signalled"
        /\ UNCHANGED <<reason, armed, phase>>
  /\ UNCHANGED <<lifetime, misses, idleFor, socket, gate, wedged, watchdog, faulted, aborted,
                 bindAlive, anchor, busy, histVars>>

\* The runtime dies (armRuntimeFaultExit aborts its signal), or a parent stops
\* the daemon: before the arming it is remembered, after it the trigger fires.
Fault ==
  /\ Running /\ ~faulted
  /\ faulted' = TRUE
  /\ IF armed THEN Finish("runtime-fault") ELSE UNCHANGED <<reason, armed, phase>>
  /\ UNCHANGED <<lifetime, misses, idleFor, socket, gate, process, wedged, watchdog, aborted,
                 bindAlive, anchor, busy, signals, histVars>>

Abort ==
  /\ Running /\ ~aborted
  /\ aborted' = TRUE
  /\ IF armed THEN Finish("abort") ELSE UNCHANGED <<reason, armed, phase>>
  /\ UNCHANGED <<lifetime, misses, idleFor, socket, gate, process, wedged, watchdog, faulted,
                 bindAlive, anchor, busy, signals, histVars>>

-----------------------------------------------------------------------------
(* Teardown and exit.                                                      *)

CloseListener ==
  /\ Running /\ phase = "closing"
  /\ socket' = FALSE
  /\ phase' = "releasing"
  /\ UNCHANGED <<lifetime, armed, reason, misses, idleFor, gate, process, wedged, watchdog,
                 worldVars, histVars>>

\* (mutant) the gate is kept while the wrapper's own release stages run.
ReturnBeforeRelease ==
  /\ Running /\ phase = "releasing"
  /\ gate' = gate
  /\ phase' = "returned"
  /\ UNCHANGED <<lifetime, armed, reason, misses, idleFor, socket, process, wedged, watchdog,
                 worldVars, histVars>>

ReleaseGate ==
  /\ Running /\ phase = "releasing"
  /\ gate' = FALSE
  /\ phase' = "returned"
  /\ UNCHANGED <<lifetime, armed, reason, misses, idleFor, socket, process, wedged, watchdog,
                 worldVars, histVars>>

\* The wrapper's own release stages are over: the watchdog is disarmed and the
\* exit is scheduled.
StandDown ==
  /\ Running /\ phase = "returned"
  /\ watchdog' = "over"
  /\ phase' = "exiting"
  /\ UNCHANGED <<lifetime, armed, reason, misses, idleFor, socket, gate, process, wedged,
                 worldVars, histVars>>

\* process.exit: daemonExitCode of the shutdown, 1 when the run was rejected.
Exit ==
  /\ Running /\ phase = "exiting"
  /\ process' = IF reason \in {"runtime-fault", None} THEN "exit 1" ELSE "exit 0"
  /\ UNCHANGED <<lifetime, phase, armed, reason, misses, idleFor, socket, gate, wedged,
                 watchdog, worldVars, histVars>>

-----------------------------------------------------------------------------
(* The sibling watchdog.                                                   *)

\* A tick that finds the bind pid gone begins the grace.
WatchTick ==
  /\ watchdog = "watching"
  /\ watchdog' = CASE ~Up -> "over" [] Up /\ ~bindAlive -> "grace" [] OTHER -> "watching"
  /\ watchdog' # watchdog
  /\ UNCHANGED <<daemonVars, wedged, worldVars, histVars>>

\* (mutant) the sibling sends SIGTERM where it should SIGKILL.
GraceOverTerm ==
  /\ watchdog = "grace"
  /\ watchdog' = "over"
  /\ process' = IF Up /\ ~armed THEN "signalled" ELSE process
  /\ UNCHANGED <<lifetime, phase, armed, reason, misses, idleFor, socket, gate, wedged,
                 worldVars, histVars>>

\* The grace ends: the target has gone, or is killed.
GraceOver ==
  /\ watchdog = "grace"
  /\ watchdog' = "over"
  /\ process' = IF Up THEN "reaped" ELSE process
  /\ UNCHANGED <<lifetime, phase, armed, reason, misses, idleFor, socket, gate, wedged,
                 worldVars, histVars>>

-----------------------------------------------------------------------------
(* The world.                                                              *)

\* The event loop stops for good, at any point of the daemon's life.
Wedge ==
  /\ MayWedge /\ Running
  /\ wedged' = TRUE
  /\ UNCHANGED <<daemonVars, watchdog, worldVars, histVars>>

BindDies ==
  /\ bindAlive
  /\ bindAlive' = FALSE
  /\ UNCHANGED <<daemonVars, wedged, watchdog, faulted, aborted, anchor, busy,
                 signals, histVars>>

AnchorChanges ==
  /\ Up
  /\ anchor' \in AnchorStates \ {anchor}
  /\ UNCHANGED <<daemonVars, wedged, watchdog, faulted, aborted, bindAlive, busy,
                 signals, histVars>>

Activity ==
  /\ Up /\ lifetime = "idleTimeout"
  /\ busy' = ~busy
  /\ UNCHANGED <<daemonVars, wedged, watchdog, faulted, aborted, bindAlive, anchor,
                 signals, announced, faultedFirst, lastPolls>>

Loop == ArmAndAnnounce \/ AnchorPoll \/ IdlePoll \/ BindPoll
          \/ CloseListener \/ ReleaseGate \/ StandDown \/ Exit

Sibling == WatchTick \/ GraceOver

Next ==
  \/ Loop \/ Sibling
  \/ ReadyThrows \/ Signal \/ Fault \/ Abort
  \/ Wedge \/ BindDies \/ AnchorChanges \/ Activity

Spec == Init /\ [][Next]_vars

\* Timers of a running loop fire, its turns end, and the sibling runs.
Fairness ==
  /\ WF_vars(ArmAndAnnounce) /\ WF_vars(AnchorPoll) /\ WF_vars(BindPoll)
  /\ WF_vars(CloseListener) /\ WF_vars(ReleaseGate) /\ WF_vars(StandDown)
  /\ WF_vars(Exit) /\ WF_vars(WatchTick) /\ WF_vars(GraceOver)

FairSpec == Spec /\ Fairness

-----------------------------------------------------------------------------
TypeOK ==
  /\ lifetime \in Lifetimes
  /\ phase \in {"bound", "waiting", "closing", "releasing", "returned", "exiting"}
  /\ armed \in BOOLEAN /\ reason \in Reasons \cup {None}
  /\ misses \in 0 .. MissesToExit /\ idleFor \in -1 .. IdlePolls
  /\ socket \in BOOLEAN /\ gate \in BOOLEAN /\ wedged \in BOOLEAN
  /\ process \in {"up", "exit 0", "exit 1", "signalled", "reaped"}
  /\ watchdog \in {"watching", "grace", "over"}
  /\ faulted \in BOOLEAN /\ aborted \in BOOLEAN /\ bindAlive \in BOOLEAN
  /\ anchor \in AnchorStates /\ busy \in BOOLEAN /\ signals \in 0 .. MaxSignals
  /\ announced \in BOOLEAN /\ faultedFirst \in BOOLEAN
  /\ lastPolls \in Seq(AnchorStates) /\ Len(lastPolls) =< MissesToExit

\* daemonMain.ts: the finally removes the socket and releases the gate on every
\* way out, so a process that exits of its own accord leaves neither behind.
ExitLeavesNothing == process \in {"exit 0", "exit 1"} => ~socket /\ ~gate

\* A daemon of any lifetime that announced itself and has not decided to stop
\* is never ended by the default disposition of the signal the announcement
\* invites (daemonMain.ts arms its handlers before it says it is ready).
AnnouncedIsSignalSafe ==
  announced /\ phase \in {"bound", "waiting"} => process # "signalled"

\* A runtime that had faulted before the daemon was up never exits as success,
\* whatever else asked it to stop.
FaultIsNeverSuccess == faultedFirst => process # "exit 0"

\* However a daemon ends, the signal, the teardown and the exit code are right.
EndsInOrder == ExitLeavesNothing /\ AnnouncedIsSignalSafe /\ FaultIsNeverSuccess

\* Nobody is reaped on an anchor that was not proven gone by consecutive polls.
AbsenceIsProven ==
  reason = "anchor-gone" =>
    lastPolls = [i \in 1 .. MissesToExit |-> "gone"]

\* A daemon whose run is over goes away, wedged or not, by its own poll or by
\* the sibling.  One turn of the loop is not covered: daemonProcessMain calls
\* disarm before the setImmediate whose turn calls process.exit, so a loop that
\* stops between the two has nobody left to end it.
BoundDaemonDies ==
  (lifetime = "boundToPid" /\ ~bindAlive) ~> (~Up \/ (wedged /\ phase = "exiting"))

\* A daemon whose anchor is deleted for good goes away, unless its loop is stuck.
OrphanDies == []<>(~Up \/ wedged) \/ []<>(anchor # "gone")

\* A daemon does not outlive what it is there for: the process it is bound to,
\* or the directory it is anchored in.
NoneOutlivesItsPurpose == BoundDaemonDies /\ OrphanDies
=============================================================================
