----------------------------- MODULE KavalUpkeep -----------------------------
(***************************************************************************)
(* How padi looks after its one kaval daemon once its boot has settled:    *)
(* the endpoint's status and connection, the serialized restart, the       *)
(* claims that keep a restart and a heal apart, the link-loss healer and   *)
(* the steady-state supervisor.                                            *)
(*                                                                         *)
(* Code: packages/padi/src/ptyHost/{endpointClaim,linkLoss,                *)
(* reconcileConverged,restartLocal}.ts, padi/src/kavalSupervision.ts,      *)
(* packages/surface-daemon-supervisor/src/{endpoint,restart}.ts.           *)
(*                                                                         *)
(* padi is single-threaded: an action is one synchronous stretch between   *)
(* two awaits. The daemon and the transport may change between any two.    *)
(* Simplifications:                                                        *)
(*   - the daemon's contract and build always fit and its gate names it:   *)
(*     what converging does otherwise is module Convergence;               *)
(*   - delays are left out: an armed timer may fire at any moment, so      *)
(*     backOff changes nothing here;                                       *)
(*   - a connection is named by an id, used again once its close has been  *)
(*     delivered.                                                          *)
(***************************************************************************)
EXTENDS Naturals, FiniteSets

CONSTANTS
  Conns,      \* bound: connections whose close may be outstanding at one time
  Ticks,      \* bound: runs of the healer's tick that may overlap
  Buttons,    \* callers of recycleKaval other than the supervisor
  Ceiling,    \* failed probes in a row before a repair, repairs before it stands down
  MaxFaults,  \* bound: things that go wrong
  MaxPresses  \* bound: presses of the restart button

None == "none"
Supervisor == "supervisor"

ASSUME KavalUpkeepAssumption ==
  /\ None \notin Conns
  /\ Supervisor \notin Buttons
  /\ Ceiling \in Nat \ {0}
  /\ MaxFaults \in Nat
  /\ MaxPresses \in Nat

Riders == Buttons \cup {Supervisor}

Readings == {"healthy", "wedged", "unreachable"}
Verdicts == {"adopted", "no-survivors", "incomplete", "failed"}
States == {"connecting", "connected", "degraded", "restarting", "dead"}

VARIABLES
  daemon,     \* "serving", "silent" (holds the socket, answers nothing), "gone"
  conn,       \* the endpoint's connection
  closing,    \* connections whose onClose has yet to be called
  status,     \* the last state the endpoint published
  hold,       \* restartHold
  timer,      \* the healer's timer is armed
  everConnected,
  unfinished,
  tick,       \* [Ticks -> where this run of tick stands]
  heal,       \* the step of the heal that owns the endpoint
  rst,        \* the step of the detached restart
  inFlight,   \* serializeRestart holds a fiber
  rider,      \* [Riders -> where this caller of the restart trigger stands]
  sup,        \* what the supervisor's probe answered, until it is recorded
  ledger,     \* its failure ledger and standingDown
  lapsed,     \* history: the runs of tick since whose reading the daemon stopped serving
  faults,
  presses

healer == <<timer, everConnected, unfinished>>
padi == <<conn, closing, status, hold, healer, tick, heal, rst, inFlight, rider, sup, ledger>>
vars == <<daemon, padi, lapsed, faults, presses>>

TypeOK ==
  /\ daemon \in {"serving", "silent", "gone"}
  /\ conn \in Conns \cup {None}
  /\ closing \subseteq Conns
  /\ status \in States
  /\ hold \in BOOLEAN
  /\ timer \in BOOLEAN /\ everConnected \in BOOLEAN /\ unfinished \in BOOLEAN
  /\ tick \in [Ticks -> {"idle", "asking", "healing"} \cup Readings \cup Verdicts]
  /\ heal \in {"idle", "probing", "taking", "binding", "dialling", "spawning", "rewiring"}
  /\ rst \in {"idle", "draining", "ensuring", "spawning"}
  /\ inFlight \in BOOLEAN
  /\ rider \in [Riders -> {"idle", "waiting", "ready", "joined"}]
  /\ sup \in {"idle"} \cup Readings
  /\ ledger \in [wedged : 0 .. Ceiling, unreachable : 0 .. Ceiling,
                 unrepaired : 0 .. Ceiling, standingDown : BOOLEAN]
  /\ lapsed \subseteq Ticks
  /\ faults \in 0 .. MaxFaults
  /\ presses \in 0 .. MaxPresses

RestartClaimed == \E r \in Riders : rider[r] # "idle"
HealClaimed == heal # "idle"

-----------------------------------------------------------------------------
(* The endpoint's status, and what the healer makes of each one.           *)

\* (mutant) the hold paints over "connecting" only.
UnderRestartHoldLeaks(held, s) ==
  IF held /\ s = "connecting" THEN "restarting" ELSE s

UnderRestartHold(held, s) ==
  IF held /\ s \in {"connecting", "degraded"} THEN "restarting" ELSE s

\* observe: "connected" cancels the timer unless a heal is unfinished, and a
\* link lost arms it unless a heal runs, which arms it when it fails.
Observe(s) ==
  /\ everConnected' = (everConnected \/ s = "connected")
  /\ timer' = CASE s = "connected" /\ ~unfinished -> FALSE
                [] s = "degraded" /\ everConnected /\ ~HealClaimed -> TRUE
                [] OTHER -> timer
  /\ UNCHANGED unfinished

Emit(s) ==
  /\ status' = UnderRestartHold(hold, s)
  /\ Observe(status')

\* (mutant) there is no connection to dispose of, and it is disposed of.
HoldConnectionDisposesNone ==
  \E c \in Conns \ (closing \cup {conn}) :
    /\ conn' = c
    /\ closing' = closing \cup {conn}
    /\ Emit("connected")

\* holdConnection: the connection replaced is disposed of, and closes later.
HoldConnection ==
  \E c \in Conns \ (closing \cup {conn}) :
    /\ conn' = c
    /\ closing' = closing \cup ({conn} \ {None})
    /\ Emit("connected")

\* (mutant) the connection goes without the status it stood for.
ReleaseHeldUnsaid ==
  IF conn = None
  THEN UNCHANGED <<conn, closing, status, healer>>
  ELSE conn' = None /\ closing' = closing \cup {conn} /\ UNCHANGED <<status, healer>>

\* releaseHeld.
ReleaseHeld ==
  IF conn = None
  THEN UNCHANGED <<conn, closing, status, healer>>
  ELSE /\ conn' = None
       /\ closing' = closing \cup {conn}
       /\ Emit("degraded")

\* A daemon that ends closes the connections made to it.
Cut == closing' = closing \cup ({conn} \ {None})

Lapse == lapsed' = Ticks

-----------------------------------------------------------------------------
(* The daemon and the transport.                                           *)

Fault == faults < MaxFaults /\ faults' = faults + 1

\* A call fails because of what it meets, or by chance.
FailsWhen(cause) == IF cause THEN UNCHANGED faults ELSE Fault

DaemonDies ==
  /\ daemon # "gone"
  /\ Fault
  /\ daemon' = "gone"
  /\ Cut
  /\ Lapse
  /\ UNCHANGED <<conn, status, hold, healer, tick, heal, rst, inFlight, rider,
                 sup, ledger, presses>>

DaemonHangs ==
  /\ daemon = "serving"
  /\ Fault
  /\ daemon' = "silent"
  /\ Lapse
  /\ UNCHANGED <<padi, presses>>

\* It answers again, or somebody else started one.
DaemonReturns ==
  /\ daemon # "serving"
  /\ daemon' = "serving"
  /\ UNCHANGED <<padi, lapsed, faults, presses>>

LinkDrops ==
  /\ conn # None /\ conn \notin closing
  /\ Fault
  /\ Cut
  /\ UNCHANGED <<daemon, conn, status, hold, healer, tick, heal, rst, inFlight,
                 rider, sup, ledger, lapsed, presses>>

\* (mutant) any close demotes the endpoint.
ClosedUnguarded(c) ==
  /\ c \in closing
  /\ closing' = closing \ {c}
  /\ conn' = None
  /\ Emit("degraded")
  /\ UNCHANGED <<daemon, hold, tick, heal, rst, inFlight, rider, sup, ledger,
                 lapsed, faults, presses>>

\* The onClose of a connection: only the one held demotes the endpoint.
Closed(c) ==
  /\ c \in closing
  /\ closing' = closing \ {c}
  /\ IF conn = c
     THEN conn' = None /\ Emit("degraded")
     ELSE UNCHANGED <<conn, status, healer>>
  /\ UNCHANGED <<daemon, hold, tick, heal, rst, inFlight, rider, sup, ledger,
                 lapsed, faults, presses>>

-----------------------------------------------------------------------------
(* The link-loss healer: tick, and the heal it runs under its claim.       *)

Wanted == status = "degraded" \/ (unfinished /\ status = "connected")

Cleared == ~HealClaimed /\ ~RestartClaimed /\ Wanted

\* (mutant) the healer steps aside for a restart and forgets the link.
StandDownForGood(armed) ==
  /\ timer' = armed
  /\ UNCHANGED <<everConnected, unfinished>>

\* What cleared() does when it says no: a restart is waited out.
StandDown(armed) ==
  /\ timer' = (armed \/ (~HealClaimed /\ RestartClaimed))
  /\ UNCHANGED <<everConnected, unfinished>>

Arm ==
  /\ timer' = (timer \/ ~HealClaimed)
  /\ UNCHANGED everConnected

TickFires(t) ==
  /\ timer /\ tick[t] = "idle"
  /\ IF Cleared
     THEN /\ tick' = [tick EXCEPT ![t] = "asking"]
          /\ timer' = FALSE
          /\ UNCHANGED <<everConnected, unfinished>>
     ELSE StandDown(FALSE) /\ UNCHANGED tick
  /\ UNCHANGED <<daemon, conn, closing, status, hold, heal, rst, inFlight, rider,
                 sup, ledger, lapsed, faults, presses>>

Reading == CASE daemon = "serving" -> "healthy"
             [] daemon = "silent" -> "wedged"
             [] daemon = "gone" -> "unreachable"

\* stillServing answers.
TickReads(t) ==
  /\ tick[t] = "asking"
  /\ tick' = [tick EXCEPT ![t] = Reading]
  /\ lapsed' = lapsed \ {t}
  /\ UNCHANGED <<daemon, conn, closing, status, hold, healer, heal, rst, inFlight,
                 rider, sup, ledger, faults, presses>>

\* (mutant) any daemon is worth a converge.
TickDecidesBlind(t) ==
  /\ tick[t] \in Readings
  /\ IF Cleared
     THEN /\ tick' = [tick EXCEPT ![t] = "healing"]
          /\ heal' = "probing"
          /\ UNCHANGED healer
     ELSE /\ StandDown(timer)
          /\ tick' = [tick EXCEPT ![t] = "idle"]
          /\ UNCHANGED heal
  /\ UNCHANGED <<daemon, conn, closing, status, hold, rst, inFlight, rider, sup,
                 ledger, lapsed, faults, presses>>

\* The reading is acted on only if the clearance still stands.
TickDecides(t) ==
  /\ tick[t] \in Readings
  /\ \/ /\ ~Cleared
        /\ StandDown(timer)
        /\ tick' = [tick EXCEPT ![t] = "idle"]
        /\ UNCHANGED heal
     \/ /\ Cleared /\ tick[t] # "healthy"
        /\ Arm
        /\ tick' = [tick EXCEPT ![t] = "idle"]
        /\ UNCHANGED <<unfinished, heal>>
     \/ /\ Cleared /\ tick[t] = "healthy"
        /\ tick' = [tick EXCEPT ![t] = "healing"]
        /\ heal' = "probing"
        /\ UNCHANGED healer
  /\ UNCHANGED <<daemon, conn, closing, status, hold, rst, inFlight, rider, sup,
                 ledger, lapsed, faults, presses>>

\* (mutant) an attempt that failed answers nobody who waits for it.
HealEndsUnannounced(verdict) ==
  /\ heal' = "idle"
  /\ tick' = [t \in Ticks |-> IF tick[t] = "healing" THEN verdict ELSE tick[t]]
  /\ rider' = [r \in Riders |-> IF rider[r] = "waiting" /\ verdict # "failed"
                                THEN "ready" ELSE rider[r]]

\* The end of withHealClaim: the restarts that waited for it may go on.
HealEnds(verdict) ==
  /\ heal' = "idle"
  /\ tick' = [t \in Ticks |-> IF tick[t] = "healing" THEN verdict ELSE tick[t]]
  /\ rider' = [r \in Riders |-> IF rider[r] = "waiting" THEN "ready" ELSE rider[r]]

HealStep(next) == heal' = next /\ UNCHANGED <<tick, rider>>

HealFails == Emit("dead") /\ HealEnds("failed") /\ UNCHANGED <<conn, closing>>

\* The probe that opens a converge: one that cannot tell what runs lets go of
\* what the endpoint holds, and a silent daemon may be taken over.
HealProbes ==
  /\ heal = "probing"
  /\ \/ FailsWhen(daemon = "silent") /\ ReleaseHeld /\ HealEnds("no-survivors")
     \/ /\ UNCHANGED <<faults, conn, closing>>
        /\ Emit("connecting")
        /\ HealStep(IF daemon = "silent" THEN "taking" ELSE "binding")
  /\ UNCHANGED <<daemon, hold, rst, inFlight, sup, ledger, lapsed, presses>>

\* takeOver: the holder is named by its gate once more, then killed.
HealTakesOver ==
  /\ heal = "taking"
  /\ \/ /\ daemon = "gone"
        /\ ReleaseHeld /\ HealEnds("no-survivors")
        /\ UNCHANGED <<daemon, lapsed, faults>>
     \/ /\ daemon # "gone"
        /\ daemon' = "gone"
        /\ Cut /\ Lapse /\ HealStep("spawning")
        /\ UNCHANGED <<conn, status, healer, faults>>
     \/ Fault /\ HealFails /\ UNCHANGED <<daemon, lapsed>>
  /\ UNCHANGED <<hold, rst, inFlight, sup, ledger, presses>>

\* adoptSurvivor: is there a holder to dial?
HealBinds ==
  /\ heal = "binding"
  /\ \/ /\ HealStep(IF daemon = "gone" THEN "spawning" ELSE "dialling")
        /\ UNCHANGED <<conn, closing, status, healer, faults>>
     \/ Fault /\ HealFails
  /\ UNCHANGED <<daemon, hold, rst, inFlight, sup, ledger, lapsed, presses>>

\* adoptAt: a survivor that cannot be reached is left standing.
HealDials ==
  /\ heal = "dialling"
  /\ \/ /\ daemon = "serving"
        /\ HoldConnection /\ HealStep("rewiring")
        /\ UNCHANGED faults
     \/ /\ FailsWhen(daemon # "serving")
        /\ Emit("degraded") /\ HealEnds("no-survivors")
        /\ UNCHANGED <<conn, closing>>
  /\ UNCHANGED <<daemon, hold, rst, inFlight, sup, ledger, lapsed, presses>>

\* spawnConnectHold: a spawn that meets a daemon already there reaches that one.
HealSpawns ==
  /\ heal = "spawning"
  /\ \/ /\ daemon # "silent"
        /\ daemon' = "serving"
        /\ HoldConnection /\ HealEnds("no-survivors")
        /\ UNCHANGED faults
     \/ FailsWhen(daemon = "silent") /\ HealFails /\ UNCHANGED daemon
  /\ UNCHANGED <<hold, rst, inFlight, sup, ledger, lapsed, presses>>

Linked == conn # None /\ conn \notin closing /\ daemon = "serving"

\* What was adopted is characterized, then its terminals are wired again.
HealRewires ==
  /\ heal = "rewiring"
  /\ \/ /\ Linked
        /\ HealEnds("adopted")
        /\ UNCHANGED <<conn, closing, status, healer, faults>>
     \/ FailsWhen(~Linked) /\ ReleaseHeld /\ HealEnds("no-survivors")
     \/ /\ FailsWhen(~Linked)
        /\ HealEnds("incomplete")
        /\ UNCHANGED <<conn, closing, status, healer>>
  /\ UNCHANGED <<daemon, hold, rst, inFlight, sup, ledger, lapsed, presses>>

Heals == HealProbes \/ HealTakesOver \/ HealBinds \/ HealDials \/ HealSpawns \/ HealRewires

\* (mutant) a verdict ends the incident whatever became of the link since.
TickSettlesTrusting(t) ==
  /\ tick[t] \in Verdicts
  /\ tick' = [tick EXCEPT ![t] = "idle"]
  /\ IF tick[t] \in {"adopted", "no-survivors"}
     THEN unfinished' = FALSE /\ timer' = FALSE /\ UNCHANGED everConnected
     ELSE Arm /\ unfinished' = (unfinished \/ tick[t] = "incomplete")
  /\ UNCHANGED <<daemon, conn, closing, status, hold, heal, rst, inFlight, rider,
                 sup, ledger, lapsed, faults, presses>>

\* tick resumes with the attempt's verdict: an incomplete one is remembered, one
\* that left the endpoint connected ends the incident, anything else is retried.
TickSettles(t) ==
  /\ tick[t] \in Verdicts
  /\ tick' = [tick EXCEPT ![t] = "idle"]
  /\ \/ /\ tick[t] = "incomplete"
        /\ Arm /\ unfinished' = TRUE
     \/ /\ tick[t] \in {"adopted", "no-survivors"} /\ status = "connected"
        /\ unfinished' = FALSE /\ timer' = FALSE
        /\ UNCHANGED everConnected
     \/ /\ tick[t] = "failed" \/ (tick[t] # "incomplete" /\ status # "connected")
        /\ Arm /\ UNCHANGED unfinished
  /\ UNCHANGED <<daemon, conn, closing, status, hold, heal, rst, inFlight, rider,
                 sup, ledger, lapsed, faults, presses>>

-----------------------------------------------------------------------------
(* The serialized restart and those who ride it.                           *)

\* (mutant) the child starts inside its own fork: the fiber is stored after the
\* child's finalizer cleared it.
TriggerStartsInFork(r) ==
  \/ /\ inFlight
     /\ rider' = [rider EXCEPT ![r] = "joined"]
     /\ UNCHANGED <<status, healer, hold, rst, inFlight, faults>>
  \/ /\ ~inFlight
     /\ status' = "restarting" /\ Observe("restarting")
     /\ inFlight' = TRUE
     /\ \/ /\ hold' = TRUE /\ rst' = "draining"
           /\ rider' = [rider EXCEPT ![r] = "joined"]
           /\ UNCHANGED faults
        \/ /\ Fault
           /\ rider' = [rider EXCEPT ![r] = "idle"]
           /\ UNCHANGED <<hold, rst>>

\* withRestartClaim: the claim is taken at once, and a heal under way is waited
\* for; then the trigger joins the restart in flight or forks one, which runs
\* by itself up to its drain. capture is an Effect.sync: when it throws, the
\* defect passes holdRestarting's tapError by, and only the finalizers run.
Trigger(r) ==
  \/ /\ inFlight
     /\ rider' = [rider EXCEPT ![r] = "joined"]
     /\ UNCHANGED <<status, healer, hold, rst, inFlight, faults>>
  \/ /\ ~inFlight
     /\ status' = "restarting" /\ Observe("restarting")
     /\ \/ /\ hold' = TRUE /\ rst' = "draining" /\ inFlight' = TRUE
           /\ rider' = [rider EXCEPT ![r] = "joined"]
           /\ UNCHANGED faults
        \/ /\ Fault
           /\ rider' = [rider EXCEPT ![r] = "idle"]
           /\ UNCHANGED <<hold, rst, inFlight>>

Claim(r) ==
  IF HealClaimed
  THEN /\ rider' = [rider EXCEPT ![r] = "waiting"]
       /\ UNCHANGED <<status, healer, hold, rst, inFlight, faults>>
  ELSE Trigger(r)

Press(b) ==
  /\ rider[b] = "idle"
  /\ presses < MaxPresses /\ presses' = presses + 1
  /\ Claim(b)
  /\ UNCHANGED <<daemon, conn, closing, tick, heal, sup, ledger, lapsed>>

RiderResumes(r) ==
  /\ rider[r] = "ready"
  /\ Trigger(r)
  /\ UNCHANGED <<daemon, conn, closing, tick, heal, sup, ledger, lapsed, presses>>

\* The caller of the button goes away: its claim goes, the restart does not.
Interrupted(b) ==
  /\ rider[b] \in {"waiting", "ready", "joined"}
  /\ rider' = [rider EXCEPT ![b] = "idle"]
  /\ UNCHANGED <<daemon, conn, closing, status, hold, healer, tick, heal, rst,
                 inFlight, sup, ledger, lapsed, faults, presses>>

\* Those who rode the restart are answered.
RestartEnds ==
  /\ rst' = "idle" /\ hold' = FALSE /\ inFlight' = FALSE
  /\ rider' = [r \in Riders |-> IF rider[r] = "joined" THEN "idle" ELSE rider[r]]

RestartStep(next) == rst' = next /\ UNCHANGED <<hold, inFlight, rider>>

RestartFails == Emit("dead") /\ RestartEnds /\ UNCHANGED <<daemon, conn, closing, lapsed>>

\* drain ends with killAll's answer or its deadline.
RestartDrains ==
  /\ rst = "draining"
  /\ Emit("connecting")
  /\ RestartStep("ensuring")
  /\ UNCHANGED <<daemon, conn, closing, tick, heal, sup, ledger, lapsed, faults, presses>>

\* ensure: the holder is killed, whatever it is.
RestartEnsures ==
  /\ rst = "ensuring"
  /\ \/ /\ daemon = "gone"
        /\ RestartStep("spawning")
        /\ UNCHANGED <<daemon, conn, closing, status, healer, lapsed, faults>>
     \/ /\ daemon # "gone"
        /\ daemon' = "gone"
        /\ Cut /\ Lapse /\ RestartStep("spawning")
        /\ UNCHANGED <<conn, status, healer, faults>>
     \/ Fault /\ RestartFails
  /\ UNCHANGED <<tick, heal, sup, ledger, presses>>

RestartSpawns ==
  /\ rst = "spawning"
  /\ \/ /\ daemon # "silent"
        /\ daemon' = "serving"
        /\ HoldConnection /\ RestartEnds
        /\ UNCHANGED <<lapsed, faults>>
     \/ FailsWhen(daemon = "silent") /\ RestartFails
  /\ UNCHANGED <<tick, heal, sup, ledger, presses>>

Restarts == RestartDrains \/ RestartEnsures \/ RestartSpawns

-----------------------------------------------------------------------------
(* The steady-state supervisor.                                            *)

Least(a, b) == IF a < b THEN a ELSE b
Counted(n) == Least(n + 1, Ceiling)

NoFailures == [wedged |-> 0, unreachable |-> 0, unrepaired |-> 0, standingDown |-> FALSE]

\* The probe of one poll is answered; no poll starts before a repair has ended.
SupReads ==
  /\ sup = "idle" /\ rider[Supervisor] = "idle"
  /\ sup' = Reading
  /\ UNCHANGED <<daemon, conn, closing, status, hold, healer, tick, heal, rst,
                 inFlight, rider, ledger, lapsed, faults, presses>>

\* (mutant) a daemon that is not there is taken for one that is starting.
NotedWedgedOnly(l, class) ==
  IF class = "wedged" THEN [l EXCEPT !.wedged = Counted(l.wedged)] ELSE l

Noted(l, class) == [l EXCEPT ![class] = Counted(l[class])]

\* A repair resets both failure classes and is counted itself.
Spent(l) ==
  [wedged |-> 0, unreachable |-> 0, unrepaired |-> Counted(l.unrepaired),
   standingDown |-> Counted(l.unrepaired) >= Ceiling]

\* observe: a ceiling reached is repaired by a restart, within the budget.
SupObserves ==
  /\ sup \in Readings
  /\ sup' = "idle"
  /\ \/ /\ sup = "healthy"
        /\ ledger' = NoFailures
        /\ UNCHANGED <<status, healer, hold, rst, inFlight, rider, faults>>
     \/ LET noted == Noted(ledger, sup)
            due == noted[sup] >= Ceiling /\ ~ledger.standingDown
        IN  \/ /\ sup # "healthy" /\ ~due
               /\ ledger' = noted
               /\ UNCHANGED <<status, healer, hold, rst, inFlight, rider, faults>>
            \/ /\ sup # "healthy" /\ due
               /\ ledger' = Spent(noted)
               /\ Claim(Supervisor)
  /\ UNCHANGED <<daemon, conn, closing, tick, heal, lapsed, presses>>

-----------------------------------------------------------------------------
\* The boot has settled: it connected, or it reported why not.
Init ==
  /\ daemon \in {"serving", "gone"}
  /\ \/ daemon = "serving" /\ conn \in Conns /\ status = "connected"
     \/ daemon = "gone" /\ conn = None /\ status = "dead"
  /\ closing = {}
  /\ everConnected = (status = "connected")
  /\ hold = FALSE /\ timer = FALSE /\ unfinished = FALSE
  /\ tick = [t \in Ticks |-> "idle"]
  /\ heal = "idle" /\ rst = "idle" /\ inFlight = FALSE
  /\ rider = [r \in Riders |-> "idle"]
  /\ sup = "idle" /\ ledger = NoFailures
  /\ lapsed = {}
  /\ faults = 0 /\ presses = 0

TickRuns(t) == TickFires(t) \/ TickReads(t) \/ TickDecides(t) \/ TickSettles(t)
Supervises == SupReads \/ SupObserves

Next ==
  \/ DaemonDies \/ DaemonHangs \/ DaemonReturns \/ LinkDrops
  \/ \E c \in Conns : Closed(c)
  \/ \E t \in Ticks : TickRuns(t)
  \/ Heals
  \/ \E b \in Buttons : Press(b) \/ Interrupted(b)
  \/ \E r \in Riders : RiderResumes(r)
  \/ Restarts
  \/ Supervises

Spec == Init /\ [][Next]_vars

\* Timers fire, closes are delivered, calls are answered or time out; nothing
\* obliges the daemon to come back or the user to press.
FairSpec ==
  /\ Spec
  /\ \A c \in Conns : WF_vars(Closed(c))
  /\ \A t \in Ticks : WF_vars(TickRuns(t))
  /\ WF_vars(Heals)
  /\ \A r \in Riders : WF_vars(RiderResumes(r))
  /\ WF_vars(Restarts)
  /\ WF_vars(Supervises)

-----------------------------------------------------------------------------
(* A restart and a heal never both have the endpoint (endpointClaim.ts): two
   spawns at one rendezvous end in a recycle that replaced nothing. A caller
   that goes away gives its claim back while its restart still runs.        *)
OneOwner == ~(HealClaimed /\ rst # "idle")

(* A lost link always has a retry to come: a timer, or a run of tick that will
   arm one or end connected (linkLoss.ts).                                 *)
RetryIsNeverLost ==
  status = "degraded" /\ everConnected => timer \/ \E t \in Ticks : tick[t] # "idle"

(* serializeRestart holds a fiber exactly while a restart runs, so a request
   never rides one that has ended (restart.ts, the ordering note).         *)
NoFinishedFiber == inFlight = (rst # "idle")

(* "connected" is only ever published over a connection that is held.      *)
ConnectedHoldsALink == status = "connected" => conn # None

(* What the endpoint says of itself is what it holds.                      *)
SaysWhatItHolds == NoFinishedFiber /\ ConnectedHoldsALink

(* A connection leaves the endpoint because it closed, or because a heal let
   go of it; the late close of one already replaced takes nothing (endpoint.ts,
   holdConnection).                                                         *)
LateCloseTakesNothing ==
  [][conn # None /\ conn' = None => conn \in closing \/ HealClaimed]_vars

(* A heal starts or ends a daemon only if the daemon stopped serving after the
   reading the heal rests on: anything else is a restart nobody budgeted
   (linkLoss.ts, stillServing).                                            *)
HealNeverRestarts ==
  [][HealClaimed /\ heal' # heal /\ daemon' # daemon
       => \E t \in lapsed : tick[t] = "healing"]_vars

(* Every caller of a restart is answered: no claim waits for a claim that waits
   for it (endpointClaim.ts, "Why nothing NESTED takes a second claim").   *)
EveryClaimEnds == \A r \in Riders : rider[r] # "idle" ~> rider[r] = "idle"

(* While a daemon goes on serving, a lost link comes back and stays, or somebody
   gave up on it: the healer (linkLoss.ts, cleared) leaves alone a status "dead",
   which an attempt that threw leaves behind, and a status "restarting", which a
   restart does whose capture throws, and either may be the last word.      *)
LostLinkIsHealedOrGivenUp ==
  <>[](daemon = "serving")
    => <>[](status = "connected") \/ []<>(status \in {"dead", "restarting"})

(* A daemon that does not serve is replaced, or the supervisor has spent its
   budget and stands down (kavalSupervision.ts).                           *)
OutageEnds == []<>(daemon = "serving" \/ ledger.standingDown)

(* "kaval re-converge attempt failed - the link is still down; retrying after
   the next backoff" (linkLoss.ts): with the daemon serving, an attempt that
   failed is followed by another one, or the link is back.                  *)
FailedHealIsRetried ==
  <>[](daemon = "serving")
    => \A t \in Ticks : tick[t] = "failed" ~> HealClaimed \/ status = "connected"

=============================================================================
