--------------------------- MODULE RemoteSession ---------------------------
(***************************************************************************)
(* The reconnecting session to one remote surface: pins, dials, admission, *)
(* backoff and give-up, the watchdogs, recheck, nudge, release, destroy.   *)
(*                                                                         *)
(* Code: packages/surface-remote/src/session.ts (makeSession) over         *)
(* packages/surface/src/failureLedger.ts.                                  *)
(*                                                                         *)
(* The program is single-threaded: an action is one synchronous stretch    *)
(* between two awaits, and an operator on the session record is one call   *)
(* made in it, so a handler is the composition of its calls, in order.     *)
(* Simplifications:                                                        *)
(*   - a dial and its connection live in a slot that is used again once    *)
(*     nothing of them is left: an epoch is the slot of its dial, 0 once   *)
(*     letTheLinkGo moved it on;                                           *)
(*   - delays are left out: an armed timer may fire at any moment;         *)
(*   - the provisioning phases are one, "opening";                         *)
(*   - logs, clocks, campaign numbers and the identity and clock probes    *)
(*     are left out; the heartbeat ends a link through recheck, which may  *)
(*     be called at any moment here.                                       *)
(***************************************************************************)
EXTENDS Integers, FiniteSets

CONSTANTS
  MaxDials,   \* bound: dials and connections that exist at one time
  MaxPins,    \* bound: pins held at one time
  Ceiling     \* MAX_CONSECUTIVE_FAILURES

ASSUME RemoteSessionAssumption ==
  MaxDials \in Nat \ {0} /\ MaxPins \in Nat \ {0} /\ Ceiling \in Nat \ {0}

None == 0
Dials == 1 .. MaxDials

Phases == {"opening", "connecting", "connected", "absent", "disconnected", "failed"}
Timers == {"none", "backoff", "probe", "watchdog"}
Causes == {"network", "remote"}

VARIABLES
  admits,    \* opts.admit is given: a connection is admitted before it is served
  refs,      \* refCount
  grace,     \* releaseTimer is armed
  destroyed,
  ses,       \* the rest of the closure's state
  dial,      \* [Dials -> stage]: where the attempt in this slot stands
  conn,      \* [Dials -> state]: its connection; after "up", whose end it is:
             \* its own ("died"), or what tore it down
  shown      \* history: remote failures published to a holder since the last
             \* network failure or "connected" published to one

Session == [
  phase : Phases,                    \* stateCell
  timer : Timers,                    \* pendingTimer
  promise : BOOLEAN,                 \* clientPromise # null
  current : Dials \cup {None},       \* the connection held
  epoch : Dials \cup {None},         \* the dial dialEpoch is about
  cycling : BOOLEAN,                 \* cyclingForRecheck
  timedOut : BOOLEAN,                \* connectTimedOut
  run : 0 .. Ceiling,                \* the ledger's remote run, capped
  backstop : BOOLEAN ]               \* preConnectedTimer is armed

vars == <<admits, refs, grace, destroyed, ses, dial, conn, shown>>

InFlight(d) == dial[d] \in {"connecting", "admitting"}
Free(d) == dial[d] = "none"
IsCurrent(d) == ses.epoch = d /\ ~destroyed
Wired(d) == dial[d] \in {"returned", "refused"}

-----------------------------------------------------------------------------
(* The calls a handler is made of: each maps a session record to the next. *)

\* disarmConnectWatchdog.
Disarmed(x, p) == IF x.phase = "connecting" /\ p # "connecting" THEN "none" ELSE x.timer

LeavePhase(x, p) == [x EXCEPT !.phase = p, !.timer = Disarmed(x, p)]

SetUp(x, p) == [LeavePhase(x, p) EXCEPT !.backstop = p # "connected"]

\* setDown and setAbsent.
SetDown(x, p) == [LeavePhase(x, p) EXCEPT !.backstop = FALSE]

\* failures.success().
Success(x) == [x EXCEPT !.run = 0]

Least(a, b) == IF a < b THEN a ELSE b

\* (mutant) a network failure leaves the remote run as it is.
RecordKeepsRun(x, cause) ==
  IF cause = "network" THEN x ELSE [x EXCEPT !.run = Least(x.run + 1, Ceiling)]

\* failures.record: network is unbounded and resets the remote run.
Record(x, cause) ==
  [x EXCEPT !.run = IF cause = "network" THEN 0 ELSE Least(x.run + 1, Ceiling)]

Exhausted(x, cause) == cause = "remote" /\ x.run >= Ceiling

ScheduleReconnect(x, cause, terminal) ==
  IF destroyed \/ x.timer # "none" THEN x
  ELSE LET y == Record(x, cause)
       IN  IF terminal \/ Exhausted(y, cause)
           THEN SetDown([y EXCEPT !.promise = FALSE], "failed")
           ELSE [y EXCEPT !.timer = "backoff"]

ScheduleAbsentProbe(x) ==
  IF destroyed \/ x.timer # "none" THEN x
  ELSE [x EXCEPT !.promise = FALSE, !.timer = "probe"]

\* attempt, up to its first await.
Attempt(x, d) == SetUp([x EXCEPT !.epoch = d, !.promise = TRUE], "opening")

EnterConnected(x) == SetUp(Success(x), "connected")

\* The down frame of a failed attempt or link, then the next attempt.
Fail(x, cause, terminal) ==
  ScheduleReconnect(SetDown(x, "disconnected"), cause, terminal)

Show(cause) == shown' = IF cause = "network" THEN 0 ELSE Least(shown + 1, Ceiling)

\* A dial starts in a free slot, with the session record x as it is by then.
Launch(x) ==
  \E d \in Dials :
    /\ Free(d)
    /\ dial' = [dial EXCEPT ![d] = "connecting"]
    /\ ses' = Attempt(x, d)

Vacate(d) ==
  /\ dial' = [dial EXCEPT ![d] = "none"]
  /\ conn' = [conn EXCEPT ![d] = "none"]

\* teardown() of the connection c, if there is one.
TornDown(c, how) == [d \in Dials |-> IF d = c THEN how ELSE conn[d]]

-----------------------------------------------------------------------------
Init ==
  /\ admits \in BOOLEAN
  /\ refs = 0
  /\ grace = FALSE
  /\ destroyed = FALSE
  /\ ses = [phase |-> "opening", timer |-> "none", promise |-> FALSE,
            current |-> None, epoch |-> None, cycling |-> FALSE,
            timedOut |-> FALSE, run |-> 0, backstop |-> FALSE]
  /\ dial = [d \in Dials |-> "none"]
  /\ conn = [d \in Dials |-> "none"]
  /\ shown = 0

(* The holders' verbs.                                                     *)

\* pin: a first pin, or one that finds no client promise, dials now.
Pin ==
  /\ refs < MaxPins
  /\ refs' = refs + 1
  /\ grace' = FALSE
  /\ IF ses.promise THEN UNCHANGED <<ses, dial>>
     ELSE Launch([ses EXCEPT !.timer = "none"])
  /\ UNCHANGED <<admits, destroyed, conn, shown>>

\* (mutant) a release too many.
ReleaseNoFloor ==
  /\ refs' = refs - 1
  /\ grace' = (refs' = 0)
  /\ UNCHANGED <<admits, destroyed, ses, dial, conn, shown>>

Release ==
  /\ refs > 0
  /\ refs' = refs - 1
  /\ grace' = (refs' = 0)
  /\ UNCHANGED <<admits, destroyed, ses, dial, conn, shown>>

Reconnect ==
  /\ ~destroyed /\ refs > 0
  /\ ~ses.promise /\ ses.timer = "none"
  /\ Launch(Success(ses))
  /\ UNCHANGED <<admits, refs, grace, destroyed, conn, shown>>

\* (mutant) a link that is held is left where it is and dialled beside.
RecheckDialsBeside ==
  /\ ~destroyed /\ refs > 0
  /\ Launch(Success([ses EXCEPT !.timer = "none"]))
  /\ UNCHANGED <<admits, refs, grace, destroyed, conn, shown>>

\* recheck: a held link is torn down and its close redials; otherwise the
\* backoff is cut short, or the dial in flight is superseded.
Recheck ==
  /\ ~destroyed /\ refs > 0
  /\ LET x == Success([ses EXCEPT !.timer = "none"])
     IN  IF ses.current # None
         THEN /\ ses' = [x EXCEPT !.cycling = TRUE]
              /\ conn' = TornDown(ses.current, "rechecked")
              /\ UNCHANGED dial
         ELSE Launch(x) /\ UNCHANGED conn
  /\ UNCHANGED <<admits, refs, grace, destroyed, shown>>

\* nudge: only a backoff that is waiting.
Nudge ==
  /\ ~destroyed /\ refs > 0
  /\ ses.timer # "none" /\ ses.phase = "disconnected"
  /\ Launch([ses EXCEPT !.timer = "none"])
  /\ UNCHANGED <<admits, refs, grace, destroyed, conn, shown>>

Destroy ==
  /\ destroyed' = TRUE
  /\ grace' = FALSE
  /\ conn' = TornDown(ses.current, "dropped")
  /\ ses' = [ses EXCEPT !.timer = "none", !.backstop = FALSE,
                        !.current = None, !.promise = FALSE]
  /\ UNCHANGED <<admits, refs, dial, shown>>

\* markConnected: the first answer over the connection held, read before its
\* close is.
MarkConnected ==
  /\ ses.phase = "connecting"
  /\ ses.current # None /\ dial[ses.current] = "returned"
  /\ ses' = EnterConnected(ses)
  /\ shown' = 0
  /\ UNCHANGED <<admits, refs, grace, destroyed, dial, conn>>

-----------------------------------------------------------------------------
(* The timers.                                                             *)

\* (mutant) a rejected client that is still kept stops the retry.
RetryFiresOnce ==
  /\ ses.timer \in {"backoff", "probe"}
  /\ LET x == [ses EXCEPT !.timer = "none"]
     IN  IF refs = 0 \/ ses.promise
         THEN ses' = x /\ UNCHANGED dial
         ELSE Launch(x)
  /\ UNCHANGED <<admits, refs, grace, destroyed, conn, shown>>

\* The reconnect backoff and the absent probe.
RetryFires ==
  /\ ses.timer \in {"backoff", "probe"}
  /\ LET x == [ses EXCEPT !.timer = "none"]
     IN  IF refs = 0
         THEN ses' = [x EXCEPT !.promise = FALSE] /\ UNCHANGED dial
         ELSE Launch(x)
  /\ UNCHANGED <<admits, refs, grace, destroyed, conn, shown>>

WatchdogFires ==
  /\ ses.timer = "watchdog"
  /\ IF ses.phase = "connecting"
     THEN /\ ses' = [ses EXCEPT !.timer = "none", !.timedOut = TRUE]
          /\ conn' = TornDown(ses.current, "timedout")
     ELSE ses' = [ses EXCEPT !.timer = "none"] /\ UNCHANGED conn
  /\ UNCHANGED <<admits, refs, grace, destroyed, dial, shown>>

\* (mutant) the backstop is spent when there is nothing to recheck.
BackstopSpent ==
  /\ ses.backstop
  /\ \/ Recheck
     \/ /\ destroyed \/ refs = 0
        /\ ses' = [ses EXCEPT !.backstop = FALSE]
        /\ UNCHANGED <<admits, refs, grace, destroyed, dial, conn, shown>>

\* The pre-connected backstop: it arms itself again with its own progress line,
\* then rechecks, which does nothing for a session that nobody holds.
BackstopFires ==
  /\ ses.backstop
  /\ \/ Recheck
     \/ /\ destroyed
        /\ ses' = [ses EXCEPT !.backstop = FALSE]
        /\ UNCHANGED <<admits, refs, grace, destroyed, dial, conn, shown>>

\* (mutant) the dial in flight is aborted but stays the session's own.
LetGoKeepsEpoch ==
  /\ grace
  /\ grace' = FALSE
  /\ IF destroyed THEN UNCHANGED <<ses, conn>>
     ELSE /\ ses' = [ses EXCEPT !.timer = "none", !.backstop = FALSE,
                                !.current = None, !.promise = FALSE]
          /\ conn' = TornDown(ses.current, "dropped")
  /\ UNCHANGED <<admits, refs, destroyed, dial, shown>>

\* letTheLinkGo: the release grace is over and nobody came back.
LetTheLinkGo ==
  /\ grace
  /\ grace' = FALSE
  /\ IF destroyed THEN UNCHANGED <<ses, conn>>
     ELSE /\ ses' = [ses EXCEPT !.timer = "none", !.backstop = FALSE, !.epoch = None,
                                !.current = None, !.promise = FALSE]
          /\ conn' = TornDown(ses.current, "dropped")
  /\ UNCHANGED <<admits, refs, destroyed, dial, shown>>

-----------------------------------------------------------------------------
(* The dial and what comes of it.                                          *)

\* ctx.connecting(), of the dial that is still the session's.
Connecting(d) ==
  /\ dial[d] = "connecting" /\ IsCurrent(d)
  /\ ses.phase = "opening"
  /\ ses' = SetUp(ses, "connecting")
  /\ UNCHANGED <<admits, refs, grace, destroyed, dial, conn, shown>>

\* A dial that was superseded, or outlived the session, ends in nothing: its
\* rejection is inert and its connection is torn down.
Superseded(d) ==
  /\ InFlight(d) /\ ~IsCurrent(d)
  /\ Vacate(d)
  /\ UNCHANGED <<admits, refs, grace, destroyed, ses, shown>>

DialAbsent(d) ==
  /\ dial[d] = "connecting" /\ IsCurrent(d)
  /\ Vacate(d)
  /\ ses' = ScheduleAbsentProbe(SetDown(ses, "absent"))
  /\ UNCHANGED <<admits, refs, grace, destroyed, shown>>

DialFails(d) ==
  /\ dial[d] = "connecting" /\ IsCurrent(d)
  /\ Vacate(d)
  /\ \E cause \in Causes : ses' = Fail(ses, cause, FALSE) /\ Show(cause)
  /\ UNCHANGED <<admits, refs, grace, destroyed>>

\* A ConnectError marked terminal: a provisioning step out of its silence budget.
DialFailsForGood(d) ==
  /\ dial[d] = "connecting" /\ IsCurrent(d)
  /\ Vacate(d)
  /\ \E cause \in Causes : ses' = Fail(ses, cause, TRUE) /\ Show(cause)
  /\ UNCHANGED <<admits, refs, grace, destroyed>>

\* (mutant) no watchdog over the handshake.
DialReturnsUnwatched(d) ==
  /\ dial[d] = "connecting" /\ IsCurrent(d) /\ ~admits
  /\ ses.phase = "connecting"
  /\ dial' = [dial EXCEPT ![d] = "returned"]
  /\ conn' = [conn EXCEPT ![d] = "up"]
  /\ ses' = [ses EXCEPT !.current = d]
  /\ UNCHANGED <<admits, refs, grace, destroyed, shown>>

\* With no admit hook the connection is held at once, under the connect
\* watchdog; a connector calls ctx.connecting() before it returns.
DialReturns(d) ==
  /\ dial[d] = "connecting" /\ IsCurrent(d) /\ ~admits
  /\ ses.phase = "connecting"
  /\ dial' = [dial EXCEPT ![d] = "returned"]
  /\ conn' = [conn EXCEPT ![d] = "up"]
  /\ ses' = [ses EXCEPT !.current = d, !.timer = "watchdog"]
  /\ UNCHANGED <<admits, refs, grace, destroyed, shown>>

AskAdmit(d) ==
  /\ dial[d] = "connecting" /\ IsCurrent(d) /\ admits
  /\ dial' = [dial EXCEPT ![d] = "admitting"]
  /\ conn' = [conn EXCEPT ![d] = "up"]
  /\ UNCHANGED <<admits, refs, grace, destroyed, ses, shown>>

\* The hello failed or timed out: a network failure.
AdmitFails(d) ==
  /\ dial[d] = "admitting" /\ IsCurrent(d)
  /\ Vacate(d)
  /\ ses' = Fail(ses, "network", FALSE)
  /\ Show("network")
  /\ UNCHANGED <<admits, refs, grace, destroyed>>

Adopt(d) ==
  /\ dial[d] = "admitting" /\ IsCurrent(d)
  /\ dial' = [dial EXCEPT ![d] = "returned"]
  /\ ses' = EnterConnected([ses EXCEPT !.current = d])
  /\ shown' = 0
  /\ UNCHANGED <<admits, refs, grace, destroyed, conn>>

\* The connection is kept, its client is withheld, and nothing is scheduled.
Refuse(d) ==
  /\ dial[d] = "admitting" /\ IsCurrent(d)
  /\ dial' = [dial EXCEPT ![d] = "refused"]
  /\ ses' = SetDown(Success([ses EXCEPT !.current = d]), "disconnected")
  /\ UNCHANGED <<admits, refs, grace, destroyed, conn, shown>>

\* The hook drained the far end: its successor is dialled.
Replaced(d) ==
  /\ dial[d] = "admitting" /\ IsCurrent(d)
  /\ Vacate(d)
  /\ ses' = Fail(Success(ses), "network", FALSE)
  /\ Show("network")
  /\ UNCHANGED <<admits, refs, grace, destroyed>>

\* A link dies by itself.
Die(d) ==
  /\ conn[d] = "up"
  /\ conn' = [conn EXCEPT ![d] = "died"]
  /\ UNCHANGED <<admits, refs, grace, destroyed, ses, dial, shown>>

\* classifyClosed: how the loop names the end of the link it holds.
CloseCauses ==
  IF ses.cycling THEN {"network"}
  ELSE IF ses.timedOut THEN {"remote"}
  ELSE IF ses.phase = "connected" THEN {"network"} ELSE Causes

\* The close consumes one flag: cyclingForRecheck, else connectTimedOut.
LinkLost ==
  [SetDown(ses, "disconnected") EXCEPT
     !.current = None, !.promise = FALSE,
     !.cycling = FALSE, !.timedOut = ses.cycling /\ ses.timedOut]

\* handleClosed: the close of a connection no longer held is ignored.
Closed(d) ==
  /\ Wired(d) /\ conn[d] # "up"
  /\ Vacate(d)
  /\ IF ses.current # d THEN UNCHANGED <<ses, shown>>
     ELSE IF destroyed \/ refs = 0 THEN ses' = LinkLost /\ UNCHANGED shown
     ELSE \E cause \in CloseCauses :
            /\ ses' = ScheduleReconnect(LinkLost, cause, FALSE)
            /\ Show(cause)
  /\ UNCHANGED <<admits, refs, grace, destroyed>>

Outcome(d) ==
  \/ DialAbsent(d) \/ DialFails(d) \/ DialFailsForGood(d) \/ DialReturns(d)
  \/ AskAdmit(d) \/ AdmitFails(d) \/ Adopt(d) \/ Refuse(d) \/ Replaced(d)

Next ==
  \/ Pin \/ Release \/ Reconnect \/ Recheck \/ Nudge \/ Destroy \/ MarkConnected
  \/ RetryFires \/ WatchdogFires \/ BackstopFires \/ LetTheLinkGo
  \/ \E d \in Dials :
       Connecting(d) \/ Superseded(d) \/ Outcome(d) \/ Die(d) \/ Closed(d)

Spec == Init /\ [][Next]_vars

\* Timers fire, a torn-down link closes, an aborted dial ends. A dial that is
\* not aborted may stay in flight, and a peer need never answer or die.
Fairness ==
  /\ WF_vars(RetryFires)
  /\ WF_vars(WatchdogFires)
  /\ WF_vars(LetTheLinkGo)
  /\ \A d \in Dials : WF_vars(Superseded(d)) /\ WF_vars(Closed(d))

FairSpec == Spec /\ Fairness

-----------------------------------------------------------------------------
(* Properties.                                                             *)

\* Every variable has its type; in particular the pin count never goes below
\* zero (session.ts, release).
TypeOK ==
  /\ admits \in BOOLEAN /\ grace \in BOOLEAN /\ destroyed \in BOOLEAN
  /\ refs \in 0 .. MaxPins
  /\ ses \in Session
  /\ dial \in [Dials -> {"none", "connecting", "admitting", "returned", "refused"}]
  /\ conn \in [Dials -> {"none", "up", "died", "rechecked", "timedout", "dropped"}]
  /\ shown \in 0 .. Ceiling

\* There is at most one link: a connection that is up is the one held, or the
\* current dial's on its way through admission, and while a link is held the
\* session has no dial of its own in flight. Every late settle, close and
\* verdict has to find its guard (isCurrent, conn !== current) for this.
OneLink ==
  /\ \A d \in Dials : conn[d] = "up" => d = ses.current \/ dial[d] = "admitting"
  /\ ses.current # None =>
       \A d \in Dials : InFlight(d) => ~IsCurrent(d)

\* A session somebody holds always has something that will move it on: a dial
\* in flight with the backstop over it, an armed retry, a link that serves, is
\* refused, is watched or is closing, or it has given up for good.
HeldIsNeverStranded ==
  refs > 0 /\ ~destroyed =>
    \/ ses.phase = "failed"
    \/ ses.timer \in {"backoff", "probe"}
    \/ \E d \in Dials : IsCurrent(d) /\ (dial[d] = "admitting"
                                         \/ (dial[d] = "connecting" /\ ses.backstop))
    \/ ses.current # None /\
         \/ conn[ses.current] # "up"
         \/ ses.phase = "connected" \/ ses.timer = "watchdog"
         \/ dial[ses.current] = "refused"

\* Once the release grace is over a session nobody holds has no link, no dial
\* that could still become one, and no timer that would make one.
DormantHoldsNothing ==
  refs = 0 /\ ~grace /\ ~destroyed =>
    /\ ses.current = None /\ ses.timer = "none"
    /\ \A d \in Dials : InFlight(d) => ~IsCurrent(d)

\* The session gives up on a failure its connector calls terminal, or after
\* Ceiling remote failures published with no network failure and no
\* "connected" frame between them: what a reader of its frames can count.
GiveUpIsEarned ==
  [][ses.phase # "failed" /\ ses'.phase = "failed"
       => shown' = Ceiling \/ \E d \in Dials : DialFailsForGood(d)]_vars

\* A held session that is down, or whose endpoint is absent, dials again.
DownRedials ==
  (refs > 0 /\ ~destroyed /\ ses.current = None /\ ses.phase \in {"disconnected", "absent"})
    ~> (refs = 0 \/ destroyed \/ ses.phase \notin {"disconnected", "absent"})

\* A link held before its first answer is served or let go of: the handshake
\* cannot hang (the connect watchdog).
HandshakeEnds ==
  (ses.current # None /\ ses.phase = "connecting")
    ~> (ses.current = None \/ ses.phase # "connecting")

\* A session somebody holds does not stand still: neither down nor unanswered.
HeldMovesOn == DownRedials /\ HandshakeEnds
=============================================================================
