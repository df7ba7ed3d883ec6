-------------------------- MODULE KavalUpkeepProofs --------------------------
(***************************************************************************)
(* Proofs about KavalUpkeep, for any number of connections, overlapping    *)
(* ticks and callers of the restart, any ceiling and any number of faults: *)
(* types, the exclusion of restarts and heals, the retry that is never     *)
(* lost, and what a heal may do to the daemon.                             *)
(***************************************************************************)
EXTENDS KavalUpkeep, TLAPS

-----------------------------------------------------------------------------
(* What the calls do to the variables they share.                          *)

\* The healer's three variables stay typed, whatever the endpoint publishes.
LEMMA EmitType ==
  ASSUME TypeOK, NEW s \in States, Emit(s)
  PROVE  /\ status' \in States
         /\ timer' \in BOOLEAN /\ everConnected' \in BOOLEAN /\ unfinished' \in BOOLEAN
  <1>1. status' \in States
    BY DEF TypeOK, Emit, UnderRestartHold, States
  <1>2. everConnected' \in BOOLEAN /\ unfinished' \in BOOLEAN
    BY DEF TypeOK, Emit, Observe
  <1>3. timer' \in BOOLEAN
    BY DEF TypeOK, Emit, Observe
  <1>. QED BY <1>1, <1>2, <1>3

\* Connections that are held and closing are connections.
LEMMA HoldConnectionType ==
  ASSUME TypeOK, HoldConnection
  PROVE  /\ conn' \in Conns /\ closing' \subseteq Conns /\ status' \in States
         /\ timer' \in BOOLEAN /\ everConnected' \in BOOLEAN /\ unfinished' \in BOOLEAN
  BY EmitType DEF TypeOK, HoldConnection, States

LEMMA ReleaseHeldType ==
  ASSUME TypeOK, ReleaseHeld
  PROVE  /\ conn' \in Conns \cup {None} /\ closing' \subseteq Conns /\ status' \in States
         /\ timer' \in BOOLEAN /\ everConnected' \in BOOLEAN /\ unfinished' \in BOOLEAN
  <1>1. CASE conn = None
    BY <1>1 DEF TypeOK, ReleaseHeld, healer
  <1>2. CASE conn # None
    BY <1>2, EmitType DEF TypeOK, ReleaseHeld, States
  <1>. QED BY <1>1, <1>2

LEMMA HealEndsType ==
  ASSUME TypeOK, NEW verdict \in Verdicts, HealEnds(verdict)
  PROVE  /\ heal' = "idle"
         /\ tick' \in [Ticks -> {"idle", "asking", "healing"} \cup Readings \cup Verdicts]
         /\ rider' \in [Riders -> {"idle", "waiting", "ready", "joined"}]
  BY DEF TypeOK, HealEnds

LEMMA FaultType ==
  ASSUME TypeOK, KavalUpkeepAssumption, Fault
  PROVE  faults' \in 0 .. MaxFaults
  BY DEF TypeOK, KavalUpkeepAssumption, Fault

LEMMA FailsWhenType ==
  ASSUME TypeOK, KavalUpkeepAssumption, NEW cause \in BOOLEAN, FailsWhen(cause)
  PROVE  faults' \in 0 .. MaxFaults
  BY FaultType DEF TypeOK, FailsWhen

\* The trigger starts a restart, joins one, or fails at once.
LEMMA TriggerType ==
  ASSUME TypeOK, KavalUpkeepAssumption, NEW r \in Riders, Trigger(r)
  PROVE  /\ status' \in States
         /\ timer' \in BOOLEAN /\ everConnected' \in BOOLEAN /\ unfinished' \in BOOLEAN
         /\ hold' \in BOOLEAN /\ inFlight' \in BOOLEAN
         /\ rst' \in {"idle", "draining", "ensuring", "spawning"}
         /\ rider' \in [Riders -> {"idle", "waiting", "ready", "joined"}]
         /\ faults' \in 0 .. MaxFaults
  <1>1. CASE inFlight
    BY <1>1 DEF TypeOK, Trigger, healer
  <1>2. CASE ~inFlight
    <2>1. status' = "restarting" /\ Observe("restarting")
      BY <1>2 DEF Trigger
    <2>2. status' \in States /\ timer' \in BOOLEAN /\ everConnected' \in BOOLEAN
          /\ unfinished' \in BOOLEAN
      BY <2>1 DEF TypeOK, Observe, States
    <2>3. /\ hold' \in BOOLEAN /\ inFlight' \in BOOLEAN
          /\ rst' \in {"idle", "draining", "ensuring", "spawning"}
          /\ rider' \in [Riders -> {"idle", "waiting", "ready", "joined"}]
          /\ faults' \in 0 .. MaxFaults
      BY <1>2, FaultType DEF TypeOK, Trigger
    <2>. QED BY <2>2, <2>3
  <1>. QED BY <1>1, <1>2 DEF TypeOK

LEMMA ClaimType ==
  ASSUME TypeOK, KavalUpkeepAssumption, NEW r \in Riders, Claim(r)
  PROVE  /\ status' \in States
         /\ timer' \in BOOLEAN /\ everConnected' \in BOOLEAN /\ unfinished' \in BOOLEAN
         /\ hold' \in BOOLEAN /\ inFlight' \in BOOLEAN
         /\ rst' \in {"idle", "draining", "ensuring", "spawning"}
         /\ rider' \in [Riders -> {"idle", "waiting", "ready", "joined"}]
         /\ faults' \in 0 .. MaxFaults
  <1>1. CASE HealClaimed
    BY <1>1 DEF TypeOK, Claim, healer
  <1>2. CASE ~HealClaimed
    BY <1>2, TriggerType DEF Claim
  <1>. QED BY <1>1, <1>2

-----------------------------------------------------------------------------
(* Types.                                                                  *)

LEMMA TypeInit == KavalUpkeepAssumption /\ Init => TypeOK
  <1>. SUFFICES ASSUME KavalUpkeepAssumption, Init PROVE TypeOK
    OBVIOUS
  <1>1. ledger \in [wedged : 0 .. Ceiling, unreachable : 0 .. Ceiling,
                   unrepaired : 0 .. Ceiling, standingDown : BOOLEAN]
    BY DEF Init, KavalUpkeepAssumption, NoFailures
  <1>2. /\ tick \in [Ticks -> {"idle", "asking", "healing"} \cup Readings \cup Verdicts]
        /\ rider \in [Riders -> {"idle", "waiting", "ready", "joined"}]
    BY DEF Init
  <1>3. faults \in 0 .. MaxFaults /\ presses \in 0 .. MaxPresses
    BY DEF Init, KavalUpkeepAssumption
  <1>4. status \in States /\ everConnected \in BOOLEAN
    BY DEF Init, States
  <1>. QED BY <1>1, <1>2, <1>3, <1>4 DEF Init, TypeOK

\* The daemon, the transport and their closes.
LEMMA TypeWorld ==
  ASSUME TypeOK, KavalUpkeepAssumption,
         DaemonDies \/ DaemonHangs \/ DaemonReturns \/ LinkDrops \/ \E c \in Conns : Closed(c)
  PROVE  TypeOK'
  <1>. USE DEF healer, padi
  <1>1. CASE DaemonDies
    BY <1>1, FaultType DEF TypeOK, DaemonDies, Cut, Lapse
  <1>2. CASE DaemonHangs
    BY <1>2, FaultType DEF TypeOK, DaemonHangs, Lapse
  <1>3. CASE DaemonReturns
    BY <1>3 DEF TypeOK, DaemonReturns
  <1>4. CASE LinkDrops
    BY <1>4, FaultType DEF TypeOK, LinkDrops, Cut
  <1>5. CASE \E c \in Conns : Closed(c)
    <2>1. PICK c \in Conns : Closed(c)
      BY <1>5
    <2>2. CASE conn = c
      BY <2>1, <2>2, EmitType DEF TypeOK, Closed, States
    <2>3. CASE conn # c
      BY <2>1, <2>3 DEF TypeOK, Closed
    <2>. QED BY <2>2, <2>3
  <1>. QED BY <1>1, <1>2, <1>3, <1>4, <1>5

\* The healer's tick.
LEMMA TypeTick ==
  ASSUME TypeOK, NEW t \in Ticks, TickRuns(t)
  PROVE  TypeOK'
  <1>. USE DEF healer
  <1>1. CASE TickFires(t)
    <2>1. timer' \in BOOLEAN
      BY <1>1 DEF TypeOK, TickFires, StandDown, HealClaimed, RestartClaimed
    <2>2. tick' \in [Ticks -> {"idle", "asking", "healing"} \cup Readings \cup Verdicts]
      BY <1>1 DEF TypeOK, TickFires
    <2>3. everConnected' = everConnected /\ unfinished' = unfinished
      BY <1>1 DEF TickFires, StandDown
    <2>. QED BY <1>1, <2>1, <2>2, <2>3 DEF TypeOK, TickFires
  <1>2. CASE TickReads(t)
    <2>1. Reading \in Readings
      BY DEF TypeOK, Reading, Readings
    <2>. QED BY <1>2, <2>1 DEF TypeOK, TickReads
  <1>3. CASE TickDecides(t)
    <2>1. timer' \in BOOLEAN
      BY <1>3 DEF TypeOK, TickDecides, StandDown, Arm, HealClaimed, RestartClaimed
    <2>2. tick' \in [Ticks -> {"idle", "asking", "healing"} \cup Readings \cup Verdicts]
      BY <1>3 DEF TypeOK, TickDecides
    <2>3. everConnected' = everConnected /\ unfinished' = unfinished
      BY <1>3 DEF TickDecides, StandDown, Arm
    <2>4. heal' \in {heal, "probing"}
      BY <1>3 DEF TickDecides
    <2>. QED BY <1>3, <2>1, <2>2, <2>3, <2>4 DEF TypeOK, TickDecides
  <1>4. CASE TickSettles(t)
    <2>1. timer' \in BOOLEAN /\ unfinished' \in BOOLEAN /\ everConnected' = everConnected
      BY <1>4 DEF TypeOK, TickSettles, Arm, HealClaimed
    <2>2. tick' \in [Ticks -> {"idle", "asking", "healing"} \cup Readings \cup Verdicts]
      BY <1>4 DEF TypeOK, TickSettles
    <2>. QED BY <1>4, <2>1, <2>2 DEF TypeOK, TickSettles
  <1>. QED BY <1>1, <1>2, <1>3, <1>4 DEF TickRuns

\* The steps of a heal.
LEMMA TypeHeal ==
  ASSUME TypeOK, KavalUpkeepAssumption, Heals
  PROVE  TypeOK'
  <1>. USE DEF healer
  <1>1. ASSUME HealFails PROVE /\ status' \in States /\ timer' \in BOOLEAN
                               /\ everConnected' \in BOOLEAN /\ unfinished' \in BOOLEAN
                               /\ heal' = "idle" /\ conn' = conn /\ closing' = closing
                               /\ tick' \in [Ticks -> {"idle", "asking", "healing"} \cup Readings \cup Verdicts]
                               /\ rider' \in [Riders -> {"idle", "waiting", "ready", "joined"}]
    BY <1>1, EmitType, HealEndsType DEF HealFails, States, Verdicts
  <1>2. CASE HealProbes
    <2>1. faults' \in 0 .. MaxFaults
      BY <1>2, FailsWhenType DEF TypeOK, HealProbes
    <2>2. CASE ReleaseHeld /\ HealEnds("no-survivors")
      BY <1>2, <2>1, <2>2, ReleaseHeldType, HealEndsType DEF TypeOK, HealProbes, Verdicts
    <2>3. CASE /\ UNCHANGED <<faults, conn, closing>> /\ Emit("connecting")
               /\ HealStep(IF daemon = "silent" THEN "taking" ELSE "binding")
      BY <1>2, <2>3, EmitType DEF TypeOK, HealProbes, HealStep, States
    <2>. QED BY <1>2, <2>2, <2>3 DEF HealProbes
  <1>3. CASE HealTakesOver
    <2>1. CASE daemon = "gone" /\ ReleaseHeld /\ HealEnds("no-survivors")
                 /\ UNCHANGED <<daemon, lapsed, faults>>
      BY <1>3, <2>1, ReleaseHeldType, HealEndsType DEF TypeOK, HealTakesOver, Verdicts
    <2>2. CASE /\ daemon' = "gone" /\ Cut /\ Lapse /\ HealStep("spawning")
               /\ UNCHANGED <<conn, status, healer, faults>>
      BY <1>3, <2>2 DEF TypeOK, HealTakesOver, HealStep, Cut, Lapse
    <2>3. CASE Fault /\ HealFails /\ UNCHANGED <<daemon, lapsed>>
      BY <1>3, <2>3, <1>1, FaultType DEF TypeOK, HealTakesOver
    <2>. QED BY <1>3, <2>1, <2>2, <2>3 DEF HealTakesOver
  <1>4. CASE HealBinds
    <2>1. CASE Fault /\ HealFails
      BY <1>4, <2>1, <1>1, FaultType DEF TypeOK, HealBinds
    <2>2. CASE ~ (Fault /\ HealFails)
      BY <1>4, <2>2 DEF TypeOK, HealBinds, HealStep
    <2>. QED BY <2>1, <2>2
  <1>5. CASE HealDials
    <2>1. CASE HoldConnection /\ HealStep("rewiring") /\ UNCHANGED faults
      BY <1>5, <2>1, HoldConnectionType DEF TypeOK, HealDials, HealStep
    <2>2. CASE /\ FailsWhen(daemon # "serving") /\ Emit("degraded")
               /\ HealEnds("no-survivors") /\ UNCHANGED <<conn, closing>>
      BY <1>5, <2>2, EmitType, HealEndsType, FailsWhenType, ZenonT(30)
         DEF TypeOK, HealDials, States, Verdicts
    <2>. QED BY <1>5, <2>1, <2>2 DEF HealDials
  <1>6. CASE HealSpawns
    <2>1. CASE daemon' = "serving" /\ HoldConnection /\ HealEnds("no-survivors")
                 /\ UNCHANGED faults
      BY <1>6, <2>1, HoldConnectionType, HealEndsType DEF TypeOK, HealSpawns, Verdicts
    <2>2. CASE FailsWhen(daemon = "silent") /\ HealFails /\ UNCHANGED daemon
      BY <1>6, <2>2, <1>1, FailsWhenType DEF TypeOK, HealSpawns
    <2>. QED BY <1>6, <2>1, <2>2 DEF HealSpawns
  <1>7. CASE HealRewires
    <2>1. CASE HealEnds("adopted") /\ UNCHANGED <<conn, closing, status, healer, faults>>
      BY <1>7, <2>1, HealEndsType DEF TypeOK, HealRewires, Verdicts
    <2>2. CASE FailsWhen(~Linked) /\ ReleaseHeld /\ HealEnds("no-survivors")
      BY <1>7, <2>2, ReleaseHeldType, HealEndsType, FailsWhenType
         DEF TypeOK, HealRewires, Verdicts
    <2>3. CASE FailsWhen(~Linked) /\ HealEnds("incomplete")
                 /\ UNCHANGED <<conn, closing, status, healer>>
      <3>1. faults' \in 0 .. MaxFaults
        BY <2>3, FailsWhenType DEF TypeOK
      <3>2. HealEnds("incomplete") /\ "incomplete" \in Verdicts
        BY <2>3 DEF Verdicts
      <3>. QED BY <1>7, <2>3, <3>1, <3>2, HealEndsType DEF TypeOK, HealRewires
    <2>. QED BY <1>7, <2>1, <2>2, <2>3 DEF HealRewires
  <1>. QED BY <1>2, <1>3, <1>4, <1>5, <1>6, <1>7 DEF Heals

\* The restart and those who ride it.
LEMMA TypeRestart ==
  ASSUME TypeOK, KavalUpkeepAssumption,
         Restarts \/ (\E b \in Buttons : Press(b) \/ Interrupted(b))
         \/ (\E r \in Riders : RiderResumes(r))
  PROVE  TypeOK'
  <1>. USE DEF healer
  <1>1. ASSUME RestartEnds
        PROVE  /\ rst' = "idle" /\ hold' = FALSE /\ inFlight' = FALSE
               /\ rider' \in [Riders -> {"idle", "waiting", "ready", "joined"}]
    BY <1>1 DEF TypeOK, RestartEnds
  <1>2. ASSUME RestartFails, Fault \/ FailsWhen(daemon = "silent"),
               UNCHANGED <<tick, heal, sup, ledger, presses>>
        PROVE  TypeOK'
    BY <1>2, <1>1, EmitType, FaultType, FailsWhenType, ZenonT(30) DEF TypeOK, RestartFails, States
  <1>3. CASE RestartDrains
    BY <1>3, EmitType DEF TypeOK, RestartDrains, RestartStep, States
  <1>4. CASE RestartEnsures
    <2>1. CASE Fault /\ RestartFails
      BY <1>2, <1>4, <2>1 DEF RestartEnsures
    <2>2. CASE ~ (Fault /\ RestartFails)
      BY <1>4, <2>2 DEF TypeOK, RestartEnsures, RestartStep, Cut, Lapse
    <2>. QED BY <2>1, <2>2
  <1>5. CASE RestartSpawns
    <2>1. CASE FailsWhen(daemon = "silent") /\ RestartFails
      BY <1>2, <1>5, <2>1 DEF RestartSpawns
    <2>2. CASE daemon' = "serving" /\ HoldConnection /\ RestartEnds /\ UNCHANGED <<lapsed, faults>>
      BY <1>1, <1>5, <2>2, HoldConnectionType DEF TypeOK, RestartSpawns
    <2>. QED BY <1>5, <2>1, <2>2 DEF RestartSpawns
  <1>6. CASE \E b \in Buttons : Press(b) \/ Interrupted(b)
    <2>1. PICK b \in Buttons : Press(b) \/ Interrupted(b)
      BY <1>6
    <2>2. b \in Riders
      BY DEF Riders
    <2>3. CASE Press(b)
      <3>1. presses' \in 0 .. MaxPresses
        BY <2>3 DEF TypeOK, Press, KavalUpkeepAssumption
      <3>. QED BY <2>2, <2>3, <3>1, ClaimType DEF TypeOK, Press
    <2>4. CASE Interrupted(b)
      BY <2>2, <2>4 DEF TypeOK, Interrupted
    <2>. QED BY <2>1, <2>3, <2>4
  <1>7. CASE \E r \in Riders : RiderResumes(r)
    BY <1>7, TriggerType DEF TypeOK, RiderResumes
  <1>. QED BY <1>3, <1>4, <1>5, <1>6, <1>7 DEF Restarts

\* The supervisor: its ledger stops at the ceiling.
LEMMA TypeSupervisor ==
  ASSUME TypeOK, KavalUpkeepAssumption, Supervises
  PROVE  TypeOK'
  <1>. USE DEF healer
  <1>. DEFINE Ledgers == [wedged : 0 .. Ceiling, unreachable : 0 .. Ceiling,
                          unrepaired : 0 .. Ceiling, standingDown : BOOLEAN]
  <1>1. CASE SupReads
    <2>1. Reading \in Readings
      BY DEF TypeOK, Reading, Readings
    <2>. QED BY <1>1, <2>1 DEF TypeOK, SupReads
  <1>2. CASE SupObserves
    <2>1. \A n \in 0 .. Ceiling : Counted(n) \in 0 .. Ceiling
      BY DEF Counted, Least, KavalUpkeepAssumption
    <2>2. NoFailures \in Ledgers
      BY DEF NoFailures, KavalUpkeepAssumption
    <2>3. ASSUME sup # "healthy" PROVE Noted(ledger, sup) \in Ledgers
      <3>1. sup \in {"wedged", "unreachable"}
        BY <1>2, <2>3 DEF SupObserves, Readings
      <3>. QED BY <2>1, <3>1 DEF TypeOK, Noted
    <2>4. ASSUME NEW l \in Ledgers PROVE Spent(l) \in Ledgers
      BY <2>1 DEF Spent, KavalUpkeepAssumption
    <2>5. ledger' \in Ledgers
      BY <1>2, <2>2, <2>3, <2>4 DEF SupObserves
    <2>6. Supervisor \in Riders
      BY DEF Riders
    <2>7. CASE Claim(Supervisor)
      BY <1>2, <2>5, <2>6, <2>7, ClaimType DEF TypeOK, SupObserves
    <2>8. CASE UNCHANGED <<status, healer, hold, rst, inFlight, rider, faults>>
      BY <1>2, <2>5, <2>8 DEF TypeOK, SupObserves
    <2>. QED BY <1>2, <2>7, <2>8 DEF SupObserves
  <1>. QED BY <1>1, <1>2 DEF Supervises

LEMMA TypeStep ==
  ASSUME TypeOK, KavalUpkeepAssumption, [Next]_vars
  PROVE  TypeOK'
  <1>1. CASE Next
    BY <1>1, TypeWorld, TypeTick, TypeHeal, TypeRestart, TypeSupervisor DEF Next
  <1>2. CASE UNCHANGED vars
    BY <1>2 DEF TypeOK, vars, padi, healer
  <1>. QED BY <1>1, <1>2

\* Every reachable state is well-typed; in particular the supervisor's counts
\* never pass the ceiling.
THEOREM TypeCorrect == Spec => []TypeOK
  <1>1. Init => TypeOK
    BY TypeInit, KavalUpkeepAssumption
  <1>2. TypeOK /\ [Next]_vars => TypeOK'
    BY TypeStep, KavalUpkeepAssumption
  <1>. QED BY <1>1, <1>2, PTL DEF Spec

-----------------------------------------------------------------------------
(* Who owns the endpoint.                                                  *)

\* While a restart runs the endpoint says "restarting", which is what keeps a
\* heal from starting when the restart's callers have gone; a caller that waited
\* for a heal resumes with none under way.
Owners ==
  /\ inFlight = (rst # "idle")
  /\ hold = (rst # "idle")
  /\ rst # "idle" => status = "restarting"
  /\ OneOwner
  /\ \A r \in Riders : rider[r] = "ready" => heal = "idle"
  /\ ConnectedHoldsALink

LEMMA EmitHeld ==
  ASSUME TypeOK, Owners, NEW s \in {"connecting", "degraded"}, Emit(s)
  PROVE  /\ rst # "idle" => status' = "restarting"
         /\ status' # "connected"
  BY DEF Owners, Emit, UnderRestartHold

LEMMA OwnersInit == KavalUpkeepAssumption /\ Init => Owners
  BY DEF Init, Owners, OneOwner, HealClaimed, ConnectedHoldsALink, KavalUpkeepAssumption, Riders

LEMMA OwnersWorld ==
  ASSUME TypeOK, Owners,
         DaemonDies \/ DaemonHangs \/ DaemonReturns \/ LinkDrops \/ \E c \in Conns : Closed(c)
  PROVE  Owners'
  <1>1. /\ rst' = rst /\ hold' = hold /\ inFlight' = inFlight /\ heal' = heal /\ rider' = rider
        /\ rst # "idle" => status' = "restarting"
        /\ status' = "connected" => status = "connected" /\ conn' = conn
    <2>1. CASE \E c \in Conns : Closed(c)
      <3>1. PICK c \in Conns : Closed(c)
        BY <2>1
      <3>. QED BY <3>1, EmitHeld DEF Closed, Owners
    <2>2. CASE DaemonDies \/ DaemonHangs \/ DaemonReturns \/ LinkDrops
      BY <2>2 DEF DaemonDies, DaemonHangs, DaemonReturns, LinkDrops, padi, Owners
    <2>. QED BY <2>1, <2>2
  <1>. QED BY <1>1 DEF Owners, OneOwner, HealClaimed, ConnectedHoldsALink

\* A tick starts a heal only over a lost or unwired link, so not in a restart.
LEMMA OwnersTick ==
  ASSUME TypeOK, Owners, NEW t \in Ticks, TickRuns(t)
  PROVE  Owners'
  <1>1. UNCHANGED <<rst, hold, inFlight, rider, status, conn>>
    BY DEF TickRuns, TickFires, TickReads, TickDecides, TickSettles
  <1>2. CASE heal' = heal
    BY <1>1, <1>2 DEF Owners, OneOwner, HealClaimed, ConnectedHoldsALink
  <1>3. CASE heal' # heal
    <2>1. Cleared
      BY <1>3 DEF TickRuns, TickFires, TickReads, TickDecides, TickSettles
    <2>2. rst = "idle" /\ \A r \in Riders : rider[r] = "idle"
      BY <2>1 DEF Cleared, Wanted, RestartClaimed, Owners
    <2>. QED BY <1>1, <2>2 DEF Owners, OneOwner, HealClaimed, ConnectedHoldsALink
  <1>. QED BY <1>2, <1>3

LEMMA OwnersHeal ==
  ASSUME TypeOK, KavalUpkeepAssumption, Owners, Heals
  PROVE  Owners'
  <1>1. rst = "idle" /\ heal # "idle" /\ UNCHANGED <<rst, hold, inFlight>>
    BY DEF Owners, OneOwner, HealClaimed, Heals, HealProbes, HealTakesOver, HealBinds,
           HealDials, HealSpawns, HealRewires
  <1>2. \A r \in Riders : rider'[r] = "ready" => heal' = "idle"
    <2>1. ASSUME NEW v \in Verdicts, HealEnds(v) PROVE heal' = "idle"
      BY <2>1 DEF HealEnds
    <2>2. ASSUME NEW h, HealStep(h) PROVE rider' = rider
      BY <2>2 DEF HealStep
    <2>3. \A r \in Riders : rider[r] # "ready"
      BY <1>1 DEF Owners
    <2>4. heal' = "idle" \/ rider' = rider
      BY <2>1, <2>2 DEF Heals, HealProbes, HealTakesOver, HealBinds, HealDials, HealSpawns,
                        HealRewires, HealFails, Verdicts
    <2>. QED BY <2>3, <2>4
  <1>3. status' = "connected" => conn' # None
    <2>1. ASSUME ReleaseHeld PROVE status' = "connected" => conn' # None
      BY <2>1, EmitHeld DEF ReleaseHeld, healer, Owners, ConnectedHoldsALink
    <2>2. ASSUME HoldConnection PROVE conn' # None
      BY <2>2 DEF HoldConnection, KavalUpkeepAssumption
    <2>3. ASSUME HealFails PROVE status' # "connected"
      BY <2>3 DEF HealFails, Emit, UnderRestartHold
    <2>4. ASSUME Emit("connecting") \/ Emit("degraded") PROVE status' # "connected"
      BY <2>4, EmitHeld
    <2>5. ASSUME UNCHANGED <<conn, status>> PROVE status' = "connected" => conn' # None
      BY <2>5 DEF Owners, ConnectedHoldsALink
    <2>6. CASE HealProbes
      BY <2>6, <2>1, <2>4 DEF HealProbes
    <2>7. CASE HealTakesOver
      BY <2>7, <2>1, <2>3, <2>5 DEF HealTakesOver
    <2>8. CASE HealBinds
      BY <2>8, <2>3, <2>5 DEF HealBinds
    <2>9. CASE HealDials
      BY <2>9, <2>2, <2>4 DEF HealDials
    <2>10. CASE HealSpawns
      BY <2>10, <2>2, <2>3 DEF HealSpawns
    <2>11. CASE HealRewires
      BY <2>11, <2>1, <2>5 DEF HealRewires
    <2>. QED BY <2>6, <2>7, <2>8, <2>9, <2>10, <2>11 DEF Heals
  <1>. QED BY <1>1, <1>2, <1>3 DEF Owners, OneOwner, HealClaimed, ConnectedHoldsALink

\* A restart starts with no heal under way: a claim that finds one waits.
LEMMA OwnersTrigger ==
  ASSUME TypeOK, Owners, NEW r \in Riders, Trigger(r), heal = "idle",
         UNCHANGED <<heal, conn>>
  PROVE  Owners'
  <1>1. CASE inFlight
    BY <1>1 DEF Trigger, healer, TypeOK, Owners, OneOwner, HealClaimed, ConnectedHoldsALink
  <1>2. CASE ~inFlight
    <2>1. status' = "restarting"
      BY <1>2 DEF Trigger
    <2>2. inFlight' = (rst' # "idle") /\ hold' = (rst' # "idle")
      BY <1>2 DEF Trigger, Owners
    <2>. QED BY <2>1, <2>2 DEF Owners, OneOwner, HealClaimed, ConnectedHoldsALink
  <1>. QED BY <1>1, <1>2

LEMMA OwnersClaim ==
  ASSUME TypeOK, Owners, NEW r \in Riders, Claim(r), UNCHANGED <<heal, conn>>
  PROVE  Owners'
  <1>1. CASE HealClaimed
    <2>1. \A s \in Riders : rider'[s] = "ready" => rider[s] = "ready"
      BY <1>1 DEF Claim, TypeOK
    <2>. QED BY <1>1, <2>1 DEF Claim, Owners, OneOwner, HealClaimed, ConnectedHoldsALink
  <1>2. CASE ~HealClaimed
    BY <1>2, OwnersTrigger DEF Claim, HealClaimed
  <1>. QED BY <1>1, <1>2

LEMMA OwnersRestart ==
  ASSUME TypeOK, KavalUpkeepAssumption, Owners,
         Restarts \/ (\E b \in Buttons : Press(b) \/ Interrupted(b))
         \/ (\E r \in Riders : RiderResumes(r))
  PROVE  Owners'
  <1>1. ASSUME RestartEnds, UNCHANGED heal, status' = "connected" => conn' # None
        PROVE  Owners'
    <2>1. \A r \in Riders : rider'[r] = "ready" => rider[r] = "ready"
      BY <1>1 DEF RestartEnds
    <2>. QED BY <1>1, <2>1 DEF RestartEnds, Owners, OneOwner, HealClaimed, ConnectedHoldsALink
  <1>2. ASSUME RestartFails, UNCHANGED heal PROVE Owners'
    BY <1>1, <1>2 DEF RestartFails, Emit, UnderRestartHold
  <1>3. ASSUME NEW next \in {"ensuring", "spawning"}, RestartStep(next), rst # "idle",
               UNCHANGED <<heal, conn>>, status' = "restarting"
        PROVE  Owners'
    BY <1>3 DEF RestartStep, Owners, OneOwner, HealClaimed, ConnectedHoldsALink
  <1>4. CASE RestartDrains
    BY <1>3, <1>4, EmitHeld DEF RestartDrains
  <1>5. CASE RestartEnsures
    BY <1>2, <1>3, <1>5 DEF RestartEnsures, Owners
  <1>6. CASE RestartSpawns
    <2>1. ASSUME HoldConnection PROVE conn' # None
      BY <2>1 DEF HoldConnection, KavalUpkeepAssumption
    <2>. QED BY <1>1, <1>2, <1>6, <2>1 DEF RestartSpawns
  <1>7. CASE \E b \in Buttons : Press(b) \/ Interrupted(b)
    <2>1. PICK b \in Buttons : Press(b) \/ Interrupted(b)
      BY <1>7
    <2>2. b \in Riders
      BY DEF Riders
    <2>3. CASE Press(b)
      BY <2>2, <2>3, OwnersClaim DEF Press
    <2>4. CASE Interrupted(b)
      <3>1. \A r \in Riders : rider'[r] = "ready" => rider[r] = "ready"
        BY <2>4 DEF Interrupted, TypeOK
      <3>. QED BY <2>4, <3>1 DEF Interrupted, healer, Owners, OneOwner, HealClaimed,
                                 ConnectedHoldsALink
    <2>. QED BY <2>1, <2>3, <2>4
  <1>8. CASE \E r \in Riders : RiderResumes(r)
    <2>1. PICK r \in Riders : RiderResumes(r)
      BY <1>8
    <2>2. heal = "idle"
      BY <2>1 DEF RiderResumes, Owners
    <2>. QED BY <2>1, <2>2, OwnersTrigger DEF RiderResumes
  <1>. QED BY <1>4, <1>5, <1>6, <1>7, <1>8 DEF Restarts

LEMMA OwnersSupervisor ==
  ASSUME TypeOK, Owners, Supervises
  PROVE  Owners'
  <1>1. CASE Claim(Supervisor) /\ UNCHANGED <<heal, conn>>
    BY <1>1, OwnersClaim DEF Riders
  <1>2. CASE UNCHANGED <<status, hold, rst, inFlight, rider, heal, conn>>
    BY <1>2 DEF Owners, OneOwner, HealClaimed, ConnectedHoldsALink
  <1>3. CASE SupReads
    BY <1>2, <1>3 DEF SupReads
  <1>4. CASE SupObserves
    BY <1>1, <1>2, <1>4 DEF SupObserves
  <1>. QED BY <1>3, <1>4 DEF Supervises

LEMMA OwnersStep ==
  ASSUME TypeOK, KavalUpkeepAssumption, Owners, [Next]_vars
  PROVE  Owners'
  <1>1. CASE Next
    BY <1>1, OwnersWorld, OwnersTick, OwnersHeal, OwnersRestart, OwnersSupervisor DEF Next
  <1>2. CASE UNCHANGED vars
    BY <1>2 DEF vars, padi, Owners, OneOwner, HealClaimed, ConnectedHoldsALink
  <1>. QED BY <1>1, <1>2

THEOREM OwnersHold == Spec => [](TypeOK /\ Owners)
  <1>1. Init => TypeOK /\ Owners
    BY TypeInit, OwnersInit, KavalUpkeepAssumption
  <1>2. TypeOK /\ Owners /\ [Next]_vars => (TypeOK /\ Owners)'
    BY TypeStep, OwnersStep, KavalUpkeepAssumption
  <1>. QED BY <1>1, <1>2, PTL DEF Spec

\* A restart and a heal never both have the endpoint, although the claims that
\* keep them apart are given back by callers that go away.
THEOREM RestartAndHealExclude == Spec => []OneOwner
  <1>1. TypeOK /\ Owners => OneOwner
    BY DEF Owners
  <1>. QED BY <1>1, OwnersHold, PTL

\* The endpoint holds what it says it holds, and a fiber exactly while one runs.
THEOREM StatusIsTrue == Spec => []SaysWhatItHolds
  <1>1. TypeOK /\ Owners => SaysWhatItHolds
    BY DEF Owners, SaysWhatItHolds, NoFinishedFiber
  <1>. QED BY <1>1, OwnersHold, PTL

-----------------------------------------------------------------------------
(* The retry that is never lost.                                           *)

\* A heal belongs to a run of tick, which arms the next retry when it resumes.
Pursued ==
  /\ RetryIsNeverLost
  /\ HealClaimed => \E t \in Ticks : tick[t] = "healing"

\* What the endpoint publishes leaves a retry, unless a heal has it in hand.
LEMMA EmitArms ==
  ASSUME NEW s \in States, Emit(s), ~HealClaimed, RetryIsNeverLost, tick' = tick
  PROVE  RetryIsNeverLost'
  BY DEF Emit, Observe, RetryIsNeverLost, UnderRestartHold

\* While a run of tick is under way there is nothing to arm.
LEMMA TickPursues ==
  ASSUME NEW t \in Ticks, tick'[t] # "idle", heal' = "idle" \/ tick'[t] = "healing"
  PROVE  Pursued'
  BY DEF Pursued, RetryIsNeverLost, HealClaimed

LEMMA PursuedWorld ==
  ASSUME TypeOK, Pursued,
         DaemonDies \/ DaemonHangs \/ DaemonReturns \/ LinkDrops \/ \E c \in Conns : Closed(c)
  PROVE  Pursued'
  <1>1. CASE \E c \in Conns : Closed(c)
    <2>1. PICK c \in Conns : Closed(c)
      BY <1>1
    <2>2. CASE HealClaimed
      <3>1. PICK t \in Ticks : tick[t] = "healing"
        BY <2>2 DEF Pursued
      <3>. QED BY <2>1, <3>1, TickPursues DEF Closed
    <2>3. CASE ~HealClaimed /\ conn = c
      BY <2>1, <2>3, EmitArms DEF Closed, Pursued, HealClaimed, States
    <2>4. CASE ~HealClaimed /\ conn # c
      BY <2>1, <2>4 DEF Closed, Pursued, RetryIsNeverLost, HealClaimed, healer
    <2>. QED BY <2>2, <2>3, <2>4
  <1>2. CASE DaemonDies \/ DaemonHangs \/ DaemonReturns \/ LinkDrops
    BY <1>2 DEF DaemonDies, DaemonHangs, DaemonReturns, LinkDrops, padi, healer,
                Pursued, RetryIsNeverLost, HealClaimed
  <1>. QED BY <1>1, <1>2

\* Every way out of the tick leaves a timer, another run, or a link.
LEMMA PursuedTick ==
  ASSUME TypeOK, Pursued, NEW t \in Ticks, TickRuns(t)
  PROVE  Pursued'
  <1>1. \A u \in Ticks \ {t} : tick'[u] = tick[u]
    BY DEF TypeOK, TickRuns, TickFires, TickReads, TickDecides, TickSettles
  <1>2. ASSUME NEW u \in Ticks \ {t}, tick[u] = "healing" PROVE Pursued'
    BY <1>1, <1>2, TickPursues
  <1>3. CASE TickFires(t)
    <2>1. CASE Cleared
      BY <1>3, <2>1, TickPursues DEF TickFires, TypeOK, Cleared, HealClaimed
    <2>2. CASE ~Cleared /\ HealClaimed
      BY <1>2, <1>3, <2>2 DEF TickFires, Pursued
    <2>3. CASE ~Cleared /\ ~HealClaimed
      BY <1>3, <2>3 DEF TickFires, StandDown, Cleared, Wanted, Pursued, RetryIsNeverLost,
                        HealClaimed
    <2>. QED BY <2>1, <2>2, <2>3
  <1>4. CASE TickReads(t)
    <2>1. tick'[t] # "idle"
      BY <1>4 DEF TickReads, TypeOK, Reading
    <2>2. CASE HealClaimed
      BY <1>2, <1>4, <2>2 DEF TickReads, Pursued
    <2>3. CASE ~HealClaimed
      BY <1>4, <2>1, <2>3, TickPursues DEF TickReads, HealClaimed
    <2>. QED BY <2>2, <2>3
  <1>5. CASE TickDecides(t)
    <2>1. CASE HealClaimed
      BY <1>2, <1>5, <2>1 DEF TickDecides, Readings, Pursued
    <2>2. CASE ~HealClaimed /\ heal' = "idle"
      BY <1>5, <2>2 DEF TickDecides, StandDown, Arm, Cleared, Wanted, Pursued,
                        RetryIsNeverLost, HealClaimed
    <2>3. CASE ~HealClaimed /\ heal' # "idle"
      <3>1. tick'[t] = "healing"
        BY <1>5, <2>3 DEF TickDecides, HealClaimed, TypeOK
      <3>. QED BY <3>1, TickPursues
    <2>. QED BY <2>1, <2>2, <2>3
  <1>6. CASE TickSettles(t)
    <2>1. CASE HealClaimed
      BY <1>2, <1>6, <2>1 DEF TickSettles, Verdicts, Pursued
    <2>2. CASE ~HealClaimed
      BY <1>6, <2>2 DEF TickSettles, Arm, Pursued, RetryIsNeverLost, HealClaimed
    <2>. QED BY <2>1, <2>2
  <1>. QED BY <1>3, <1>4, <1>5, <1>6 DEF TickRuns

LEMMA PursuedHeal ==
  ASSUME TypeOK, Pursued, Heals
  PROVE  Pursued'
  <1>1. PICK t \in Ticks : tick[t] = "healing"
    BY DEF Pursued, HealClaimed, Heals, HealProbes, HealTakesOver, HealBinds, HealDials,
           HealSpawns, HealRewires
  <1>2. ASSUME NEW v \in Verdicts, HealEnds(v) PROVE Pursued'
    <2>1. tick'[t] # "idle" /\ heal' = "idle"
      BY <1>1, <1>2 DEF HealEnds, Verdicts
    <2>. QED BY <2>1, TickPursues
  <1>3. ASSUME NEW h, HealStep(h) PROVE Pursued'
    BY <1>1, <1>3, TickPursues DEF HealStep
  <1>. QED BY <1>2, <1>3 DEF Heals, HealProbes, HealTakesOver, HealBinds, HealDials, HealSpawns,
                             HealRewires, HealFails, Verdicts

LEMMA PursuedTrigger ==
  ASSUME TypeOK, Pursued, NEW r \in Riders, Trigger(r), UNCHANGED <<heal, tick>>
  PROVE  Pursued'
  <1>1. CASE inFlight
    BY <1>1 DEF Trigger, healer, Pursued, RetryIsNeverLost, HealClaimed
  <1>2. CASE ~inFlight
    BY <1>2 DEF Trigger, Pursued, RetryIsNeverLost, HealClaimed
  <1>. QED BY <1>1, <1>2

LEMMA PursuedClaim ==
  ASSUME TypeOK, Pursued, NEW r \in Riders, Claim(r), UNCHANGED <<heal, tick>>
  PROVE  Pursued'
  <1>1. CASE HealClaimed
    BY <1>1 DEF Claim, healer, Pursued, RetryIsNeverLost, HealClaimed
  <1>2. CASE ~HealClaimed
    BY <1>2, PursuedTrigger DEF Claim
  <1>. QED BY <1>1, <1>2

LEMMA PursuedRest ==
  ASSUME TypeOK, Owners, Pursued,
         Restarts \/ Supervises \/ (\E b \in Buttons : Press(b) \/ Interrupted(b))
         \/ (\E r \in Riders : RiderResumes(r))
  PROVE  Pursued'
  <1>1. ASSUME UNCHANGED <<status, healer, tick, heal>> PROVE Pursued'
    BY <1>1 DEF healer, Pursued, RetryIsNeverLost, HealClaimed
  <1>2. ASSUME NEW s \in States, Emit(s), UNCHANGED <<tick, heal>>, rst # "idle" PROVE Pursued'
    BY <1>2, EmitArms DEF Pursued, HealClaimed, Owners, OneOwner
  <1>3. CASE Restarts
    BY <1>1, <1>2, <1>3 DEF Restarts, RestartDrains, RestartEnsures, RestartSpawns,
                            RestartFails, HoldConnection, States
  <1>4. CASE Supervises
    <2>1. Supervisor \in Riders
      BY DEF Riders
    <2>. QED BY <1>1, <1>4, <2>1, PursuedClaim DEF Supervises, SupReads, SupObserves
  <1>5. CASE \E b \in Buttons : Press(b) \/ Interrupted(b)
    BY <1>1, <1>5, PursuedClaim DEF Press, Interrupted, Riders
  <1>6. CASE \E r \in Riders : RiderResumes(r)
    BY <1>6, PursuedTrigger DEF RiderResumes
  <1>. QED BY <1>3, <1>4, <1>5, <1>6

\* A lost link always has a retry to come, whatever restarts, heals and late
\* readings fall between.
THEOREM RetryKept == Spec => []RetryIsNeverLost
  <1>1. Init => Pursued
    BY DEF Init, Pursued, RetryIsNeverLost, HealClaimed
  <1>2. TypeOK /\ Owners /\ Pursued /\ [Next]_vars => Pursued'
    <2>. SUFFICES ASSUME TypeOK, Owners, Pursued, [Next]_vars PROVE Pursued'
      OBVIOUS
    <2>1. CASE Next
      BY <2>1, PursuedWorld, PursuedTick, PursuedHeal, PursuedRest DEF Next
    <2>2. CASE UNCHANGED vars
      BY <2>2 DEF vars, padi, healer, Pursued, RetryIsNeverLost, HealClaimed
    <2>. QED BY <2>1, <2>2
  <1>3. Pursued => RetryIsNeverLost
    BY DEF Pursued
  <1>. QED BY <1>1, <1>2, <1>3, OwnersHold, PTL DEF Spec

-----------------------------------------------------------------------------
(* What a heal may do to the daemon.                                       *)

\* A reading of "healthy" stands until the daemon stops serving, and a heal that
\* is about to kill or to spawn has met a daemon that stopped.
Witnessed ==
  /\ \A t \in Ticks \ lapsed : tick[t] \in {"healthy", "healing"} => daemon = "serving"
  /\ HealClaimed => \E t \in Ticks : tick[t] = "healing"
  /\ heal \in {"taking", "spawning"} => \E t \in lapsed : tick[t] = "healing"

\* Whoever ends the daemon ends every reading.
LEMMA LapseWitnesses ==
  ASSUME TypeOK, Witnessed, Lapse, tick' = tick,
         heal' = heal \/ (HealClaimed /\ heal' = "spawning")
  PROVE  Witnessed'
  <1>1. lapsed' = Ticks
    BY DEF Lapse
  <1>2. HealClaimed' => \E t \in Ticks : tick'[t] = "healing"
    BY DEF Witnessed, HealClaimed
  <1>3. heal' \in {"taking", "spawning"} => HealClaimed'
    BY DEF HealClaimed
  <1>. QED BY <1>1, <1>2, <1>3 DEF Witnessed

LEMMA ServeWitnesses ==
  ASSUME TypeOK, Witnessed, UNCHANGED <<tick, heal, lapsed>>,
         daemon' = daemon \/ daemon' = "serving"
  PROVE  Witnessed'
  BY DEF Witnessed, HealClaimed

\* The end of a heal leaves no run of tick healing.
LEMMA EndWitnesses ==
  ASSUME TypeOK, Witnessed, NEW v \in Verdicts, HealEnds(v), UNCHANGED lapsed,
         daemon' = daemon \/ daemon' = "serving"
  PROVE  Witnessed'
  <1>1. \A t \in Ticks : tick'[t] \in {"healthy", "healing"} => tick'[t] = tick[t]
    BY DEF HealEnds, Verdicts
  <1>2. heal' = "idle"
    BY DEF HealEnds
  <1>. QED BY <1>1, <1>2 DEF Witnessed, HealClaimed

LEMMA WitnessedTick ==
  ASSUME TypeOK, Witnessed, NEW t \in Ticks, TickRuns(t)
  PROVE  Witnessed'
  <1>0. lapsed \subseteq Ticks /\ \A u \in Ticks \ {t} : tick'[u] = tick[u]
    BY DEF TypeOK, TickRuns, TickFires, TickReads, TickDecides, TickSettles
  <1>1. daemon' = daemon
    BY DEF TickRuns, TickFires, TickReads, TickDecides, TickSettles
  <1>2. CASE TickReads(t)
    <2>1. lapsed' = lapsed \ {t} /\ heal' = heal /\ tick[t] = "asking"
      BY <1>2 DEF TickReads
    <2>2. tick'[t] \in {"healthy", "healing"} => daemon = "serving"
      BY <1>2 DEF TickReads, TypeOK, Reading
    <2>. QED BY <1>0, <1>1, <2>1, <2>2 DEF Witnessed, HealClaimed
  <1>3. CASE TickFires(t)
    <2>1. lapsed' = lapsed /\ heal' = heal /\ tick[t] = "idle"
      BY <1>3 DEF TickFires
    <2>2. tick'[t] \notin {"healthy", "healing"}
      BY <1>3 DEF TickFires, TypeOK
    <2>. QED BY <1>0, <1>1, <2>1, <2>2 DEF Witnessed, HealClaimed
  <1>4. CASE TickSettles(t)
    <2>1. lapsed' = lapsed /\ heal' = heal /\ tick[t] # "healing"
      BY <1>4 DEF TickSettles, Verdicts
    <2>2. tick'[t] \notin {"healthy", "healing"}
      BY <1>4 DEF TickSettles, TypeOK
    <2>. QED BY <1>0, <1>1, <2>1, <2>2 DEF Witnessed, HealClaimed
  <1>5. CASE TickDecides(t)
    <2>1. lapsed' = lapsed /\ tick[t] # "healing"
      BY <1>5 DEF TickDecides, Readings
    <2>2. CASE heal' = heal /\ tick'[t] = "idle"
      BY <1>0, <1>1, <2>1, <2>2 DEF Witnessed, HealClaimed
    <2>3. CASE tick[t] = "healthy" /\ heal' = "probing" /\ tick'[t] = "healing"
      BY <1>0, <1>1, <2>1, <2>3 DEF Witnessed, HealClaimed
    <2>. QED BY <1>5, <2>2, <2>3 DEF TickDecides, TypeOK
  <1>. QED BY <1>2, <1>3, <1>4, <1>5 DEF TickRuns

LEMMA WitnessedHeal ==
  ASSUME TypeOK, Witnessed, Heals
  PROVE  Witnessed'
  <1>1. PICK t \in Ticks : tick[t] = "healing"
    BY DEF Witnessed, HealClaimed, Heals, HealProbes, HealTakesOver, HealBinds, HealDials,
           HealSpawns, HealRewires
  <1>2. ASSUME NEW v \in Verdicts, HealEnds(v), lapsed' = lapsed,
               daemon' = daemon \/ daemon' = "serving"
        PROVE  Witnessed'
    BY <1>2, EndWitnesses
  <1>3. ASSUME NEW h, HealStep(h), UNCHANGED <<daemon, lapsed>>,
               h \in {"taking", "spawning"} => daemon # "serving"
        PROVE  Witnessed'
    <2>1. tick' = tick /\ heal' = h
      BY <1>3 DEF HealStep
    <2>2. h \in {"taking", "spawning"} => t \in lapsed
      BY <1>1, <1>3 DEF Witnessed
    <2>. QED BY <1>1, <1>3, <2>1, <2>2 DEF Witnessed, HealClaimed
  <1>4. CASE HealProbes
    BY <1>2, <1>3, <1>4 DEF HealProbes, Verdicts
  <1>5. CASE HealTakesOver
    <2>1. CASE Lapse /\ HealStep("spawning")
      BY <1>5, <2>1, LapseWitnesses DEF HealTakesOver, HealStep, HealClaimed
    <2>. QED BY <1>2, <1>5, <2>1 DEF HealTakesOver, HealFails, Verdicts
  <1>6. CASE HealBinds
    BY <1>2, <1>3, <1>6 DEF HealBinds, HealFails, Verdicts
  <1>7. CASE HealDials
    BY <1>2, <1>3, <1>7 DEF HealDials, Verdicts
  <1>8. CASE HealSpawns
    BY <1>2, <1>8 DEF HealSpawns, HealFails, Verdicts
  <1>9. CASE HealRewires
    BY <1>2, <1>9 DEF HealRewires, Verdicts
  <1>. QED BY <1>4, <1>5, <1>6, <1>7, <1>8, <1>9 DEF Heals

LEMMA WitnessedStep ==
  ASSUME TypeOK, Witnessed, [Next]_vars
  PROVE  Witnessed'
  <1>1. CASE DaemonDies \/ DaemonHangs
    BY <1>1, LapseWitnesses DEF DaemonDies, DaemonHangs, padi
  <1>2. CASE DaemonReturns \/ LinkDrops \/ \E c \in Conns : Closed(c)
    BY <1>2, ServeWitnesses DEF DaemonReturns, LinkDrops, Closed, padi
  <1>3. CASE \E t \in Ticks : TickRuns(t)
    BY <1>3, WitnessedTick
  <1>4. CASE Heals
    BY <1>4, WitnessedHeal
  <1>5. CASE Restarts
    <2>1. CASE Lapse /\ UNCHANGED <<tick, heal>>
      BY <2>1, LapseWitnesses
    <2>2. CASE UNCHANGED <<tick, heal, lapsed>> /\ (daemon' = daemon \/ daemon' = "serving")
      BY <2>2, ServeWitnesses
    <2>. QED BY <1>5, <2>1, <2>2 DEF Restarts, RestartDrains, RestartEnsures, RestartSpawns,
                                     RestartFails
  <1>6. CASE \/ Supervises
             \/ \E b \in Buttons : Press(b) \/ Interrupted(b)
             \/ \E r \in Riders : RiderResumes(r)
    BY <1>6, ServeWitnesses DEF Supervises, SupReads, SupObserves, Press, Interrupted,
                                RiderResumes
  <1>7. CASE UNCHANGED vars
    BY <1>7, ServeWitnesses DEF vars, padi
  <1>. QED BY <1>1, <1>2, <1>3, <1>4, <1>5, <1>6, <1>7 DEF Next

\* A heal kills and spawns only where the daemon stopped serving after it was
\* read healthy; everything else is left to the budgeted restart.
THEOREM HealsNeverRestart == Spec => HealNeverRestarts
  <1>1. Init => Witnessed
    BY DEF Init, Witnessed, HealClaimed
  <1>2. TypeOK /\ Witnessed /\ [Next]_vars
          => (HealClaimed /\ heal' # heal /\ daemon' # daemon
                => \E t \in lapsed : tick[t] = "healing")
    <2>. SUFFICES ASSUME Witnessed, Next, HealClaimed, heal' # heal, daemon' # daemon
                  PROVE  \E t \in lapsed : tick[t] = "healing"
      BY DEF vars
    <2>1. heal \in {"taking", "spawning"}
      BY DEF Next, DaemonDies, DaemonHangs, DaemonReturns, LinkDrops, Closed, TickRuns,
             TickFires, TickReads, TickDecides, TickSettles, Heals, HealProbes, HealTakesOver,
             HealBinds, HealDials, HealSpawns, HealRewires, Restarts, RestartDrains,
             RestartEnsures, RestartSpawns, Supervises, SupReads, SupObserves, Press,
             Interrupted, RiderResumes, padi
    <2>. QED BY <2>1 DEF Witnessed
  <1>3. TypeOK /\ Witnessed /\ [Next]_vars => Witnessed'
    BY WitnessedStep
  <1>. QED BY <1>1, <1>2, <1>3, TypeCorrect, PTL DEF Spec, HealNeverRestarts

\* Only a close of the connection held, or a heal that lets go of it, takes it.
THEOREM LateClosesTakeNothing == Spec => LateCloseTakesNothing
  <1>1. [Next]_vars => (conn # None /\ conn' = None => conn \in closing \/ HealClaimed)
    <2>. SUFFICES ASSUME Next, conn # None, conn' = None, ~HealClaimed PROVE conn \in closing
      BY DEF vars, padi
    <2>1. ~ HoldConnection
      BY KavalUpkeepAssumption DEF HoldConnection
    <2>2. \E c \in Conns : Closed(c)
      BY <2>1 DEF Next, DaemonDies, DaemonHangs, DaemonReturns, LinkDrops, TickRuns,
             TickFires, TickReads, TickDecides, TickSettles, Heals, HealProbes, HealTakesOver,
             HealBinds, HealDials, HealSpawns, HealRewires, Restarts, RestartDrains,
             RestartEnsures, RestartSpawns, RestartFails, Supervises, SupReads, SupObserves,
             Press, Interrupted, RiderResumes, padi, HealClaimed
    <2>. QED BY <2>2 DEF Closed
  <1>. QED BY <1>1, PTL DEF Spec, LateCloseTakesNothing

=============================================================================
