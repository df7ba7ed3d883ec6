------------------------ MODULE RemoteSessionProofs ------------------------
(***************************************************************************)
(* RemoteSession keeps one link, strands no holder and holds nothing once  *)
(* dormant, for every number of dials, pins and failures.                  *)
(***************************************************************************)
EXTENDS RemoteSession, TLAPS

\* What each of the three rests on: where the attempt, the connection, the
\* timer and the client promise may stand beside one another.
SlotsAgree ==
  /\ \A d \in Dials : dial[d] \in {"none", "connecting"} => conn[d] = "none"
  /\ \A d \in Dials : conn[d] = "up" => d = ses.current \/ dial[d] = "admitting"

LinkIsCurrent ==
  ses.current # None => ses.epoch = ses.current /\ Wired(ses.current) /\ ses.promise

TimerAgrees ==
  /\ ses.timer = "watchdog" => ses.phase = "connecting" /\ ses.current # None
  /\ ses.timer \in {"backoff", "probe"} => ses.current = None
  /\ \A d \in Dials : InFlight(d) /\ IsCurrent(d) => ses.timer = "none" /\ ses.promise

\* What will move the session on, held or not.
Moving ==
  \/ ses.phase = "failed"
  \/ ses.timer \in {"backoff", "probe"}
  \/ \E d \in Dials : IsCurrent(d) /\ (dial[d] = "admitting"
                                       \/ (dial[d] = "connecting" /\ ses.backstop))
  \/ ses.current # None /\
       \/ conn[ses.current] # "up"
       \/ ses.phase = "connected" \/ ses.timer = "watchdog"
       \/ dial[ses.current] = "refused"

Pursued == (ses.promise \/ refs > 0) /\ ~destroyed => Moving

Dormant == DormantHoldsNothing /\ (grace => refs = 0)

Inv == TypeOK /\ SlotsAgree /\ LinkIsCurrent /\ TimerAgrees /\ Pursued /\ Dormant

-----------------------------------------------------------------------------
(* What the calls do to the fields of the session record.                  *)

\* disarmConnectWatchdog clears the timer or leaves it.
LEMMA DisarmedType ==
  ASSUME NEW x \in Session, NEW p \in Phases
  PROVE  Disarmed(x, p) \in {"none", x.timer} /\ Disarmed(x, p) \in Timers
BY DEF Disarmed, Session, Timers

\* setUp moves the phase and the two timers, nothing else.
LEMMA SetUpFields ==
  ASSUME NEW x \in Session, NEW p \in Phases
  PROVE  SetUp(x, p) = [x EXCEPT !.phase = p, !.timer = Disarmed(x, p),
                                 !.backstop = p # "connected"]
         /\ SetUp(x, p) \in Session
BY DisarmedType DEF SetUp, LeavePhase, Session

\* setDown moves the phase and the two timers, nothing else.
LEMMA SetDownFields ==
  ASSUME NEW x \in Session, NEW p \in Phases
  PROVE  SetDown(x, p) = [x EXCEPT !.phase = p, !.timer = Disarmed(x, p),
                                   !.backstop = FALSE]
         /\ SetDown(x, p) \in Session
BY DisarmedType DEF SetDown, LeavePhase, Session

\* The ledger's run stays within its ceiling and is all record moves.
LEMMA RecordFields ==
  ASSUME NEW x \in Session, NEW cause \in Causes
  PROVE  /\ Record(x, cause) \in Session
         /\ Record(x, cause).current = x.current /\ Record(x, cause).epoch = x.epoch
         /\ Record(x, cause).timer = x.timer /\ Record(x, cause).phase = x.phase
<1> DEFINE r == IF cause = "network" THEN 0 ELSE Least(x.run + 1, Ceiling)
<1>1. r \in 0 .. Ceiling
  BY RemoteSessionAssumption DEF Least, Session
<1> QED
  BY <1>1 DEF Record, Session

\* What a record that is down, with nothing scheduled yet, becomes: given up, or
\* waiting for a retry.
DownOf(x, y) ==
  /\ y \in Session
  /\ y.current = x.current /\ y.epoch = x.epoch
  /\ \/ y.phase = "failed" /\ y.timer = "none"
     \/ y.phase = "disconnected" /\ y.timer = "backoff"

\* A down session whose timer slot is free gives up or arms the backoff.
LEMMA ScheduleFields ==
  ASSUME NEW x \in Session, NEW cause \in Causes, NEW terminal \in BOOLEAN,
         ~destroyed, x.timer = "none", x.phase = "disconnected"
  PROVE  DownOf(x, ScheduleReconnect(x, cause, terminal))
<1> DEFINE y == Record(x, cause)
           z == [y EXCEPT !.promise = FALSE]
<1>1. /\ y \in Session /\ y.current = x.current /\ y.epoch = x.epoch
      /\ y.timer = "none" /\ y.phase = "disconnected"
  BY RecordFields
<1> HIDE DEF y
<1>2. /\ z \in Session /\ z.current = x.current /\ z.epoch = x.epoch
      /\ z.timer = "none" /\ z.phase = "disconnected"
  BY <1>1 DEF Session
<1> HIDE DEF z
<1>3. DownOf(x, SetDown(z, "failed"))
  <2>1. "failed" \in Phases
    BY DEF Phases
  <2>2. Disarmed(z, "failed") = "none"
    BY <1>2 DEF Disarmed
  <2> DEFINE w == [z EXCEPT !.phase = "failed", !.timer = "none", !.backstop = FALSE]
  <2>3. SetDown(z, "failed") = w
    BY <2>2 DEF SetDown, LeavePhase
  <2>4. w.phase = "failed" /\ w.timer = "none" /\ w.current = z.current /\ w.epoch = z.epoch
    BY <1>2 DEF Session
  <2>5. SetDown(z, "failed") \in Session
    BY <1>2, <2>1, SetDownFields
  <2> QED
    BY <1>2, <2>3, <2>4, <2>5 DEF DownOf
<1>4. DownOf(x, [y EXCEPT !.timer = "backoff"])
  <2> DEFINE w == [y EXCEPT !.timer = "backoff"]
  <2>1. w \in Session
    BY <1>1 DEF Session, Timers
  <2>2. w.phase = "disconnected" /\ w.timer = "backoff" /\ w.current = y.current
        /\ w.epoch = y.epoch
    BY <1>1 DEF Session
  <2> QED
    BY <1>1, <2>1, <2>2 DEF DownOf
<1>5. ScheduleReconnect(x, cause, terminal)
        \in {SetDown(z, "failed"), [y EXCEPT !.timer = "backoff"]}
  BY DEF ScheduleReconnect, y, z
<1> QED
  BY <1>3, <1>4, <1>5

\* The down frame of a record whose timer slot is free.
LEMMA DownFields ==
  ASSUME NEW x \in Session, NEW p \in Phases, x.timer = "none" \/ p # "connecting",
         x.timer = "none" \/ x.phase = "connecting"
  PROVE  /\ SetDown(x, p) \in Session
         /\ SetDown(x, p).current = x.current /\ SetDown(x, p).epoch = x.epoch
         /\ SetDown(x, p).timer = "none" /\ SetDown(x, p).phase = p
         /\ SetDown(x, p).promise = x.promise
<1>1. Disarmed(x, p) = "none"
  BY DEF Disarmed
<1> DEFINE w == [x EXCEPT !.phase = p, !.timer = "none", !.backstop = FALSE]
<1>2. SetDown(x, p) = w
  BY <1>1 DEF SetDown, LeavePhase, Session
<1>3. SetDown(x, p) \in Session
  BY SetDownFields
<1>4. /\ w.current = x.current /\ w.epoch = x.epoch /\ w.timer = "none" /\ w.phase = p
      /\ w.promise = x.promise
  BY DEF Session
<1> QED
  BY <1>2, <1>3, <1>4

\* The same of a failure: first the down frame, then the schedule.
LEMMA FailFields ==
  ASSUME NEW x \in Session, NEW cause \in Causes, NEW terminal \in BOOLEAN,
         ~destroyed, x.timer = "none"
  PROVE  DownOf(x, Fail(x, cause, terminal))
<1> DEFINE y == SetDown(x, "disconnected")
<1>1. /\ y \in Session /\ y.current = x.current /\ y.epoch = x.epoch
      /\ y.timer = "none" /\ y.phase = "disconnected"
  <2>1. "disconnected" \in Phases
    BY DEF Phases
  <2> QED
    BY <2>1, DownFields
<1> HIDE DEF y
<1>2. DownOf(y, ScheduleReconnect(y, cause, terminal))
  BY <1>1, ScheduleFields
<1>3. Fail(x, cause, terminal) = ScheduleReconnect(y, cause, terminal)
  BY DEF Fail, y
<1> QED
  BY <1>1, <1>2, <1>3 DEF DownOf

\* A dial is launched in its own name, with the backstop over it.
LEMMA AttemptFields ==
  ASSUME NEW x \in Session, NEW d \in Dials, x.timer = "none"
  PROVE  /\ Attempt(x, d) \in Session
         /\ Attempt(x, d).current = x.current /\ Attempt(x, d).epoch = d
         /\ Attempt(x, d).timer = "none" /\ Attempt(x, d).phase = "opening"
         /\ Attempt(x, d).backstop /\ Attempt(x, d).promise
<1> DEFINE y == [x EXCEPT !.epoch = d, !.promise = TRUE]
<1>1. y \in Session
  BY DEF Session
<1>2. y.current = x.current /\ y.epoch = d /\ y.timer = "none" /\ y.promise
  BY DEF Session
<1>3. "opening" \in Phases /\ "opening" # "connected"
  BY DEF Phases
<1> HIDE DEF y
<1>4. Disarmed(y, "opening") = "none"
  BY <1>2 DEF Disarmed
<1> DEFINE w == [y EXCEPT !.phase = "opening", !.timer = "none", !.backstop = TRUE]
<1>5. SetUp(y, "opening") = w
  BY <1>3, <1>4 DEF SetUp, LeavePhase
<1>6. /\ w.current = y.current /\ w.epoch = y.epoch /\ w.timer = "none"
      /\ w.phase = "opening" /\ w.backstop /\ w.promise = y.promise
  BY <1>1 DEF Session
<1>7. Attempt(x, d) = SetUp(y, "opening")
  BY DEF Attempt, y
<1>8. SetUp(y, "opening") \in Session
  BY <1>1, <1>3, SetUpFields
<1> QED
  BY <1>2, <1>5, <1>6, <1>7, <1>8

-----------------------------------------------------------------------------
(* The two shapes most steps have: a dial starts, or the one in flight fails. *)

\* A session that holds no link and starts a dial for a holder keeps Inv.
LEMMA Launching ==
  ASSUME Inv, NEW x \in Session, x.timer = "none", x.current = None, ses.current = None,
         Launch(x),
         refs' \in 1 .. MaxPins, grace' \in BOOLEAN, grace' => refs' = 0,
         UNCHANGED <<admits, destroyed, conn, shown>>
  PROVE  Inv'
<1> USE DEF None, Dials
<1>1. PICK d \in Dials : Free(d) /\ dial' = [dial EXCEPT ![d] = "connecting"]
                          /\ ses' = Attempt(x, d)
  BY DEF Launch
<1>2. /\ ses' \in Session /\ ses'.current = None /\ ses'.epoch = d
      /\ ses'.timer = "none" /\ ses'.backstop /\ ses'.promise
  BY <1>1, AttemptFields
<1>3. TypeOK'
  BY <1>1, <1>2, RemoteSessionAssumption DEF Inv, TypeOK
<1>4. conn[d] = "none" /\ \A c \in Dials : conn[c] = "up" => c # d
  BY <1>1 DEF Inv, SlotsAgree, Free
<1>5. SlotsAgree'
  BY <1>1, <1>2, <1>4 DEF Inv, TypeOK, SlotsAgree
<1>6. LinkIsCurrent' /\ TimerAgrees'
  BY <1>1, <1>2 DEF LinkIsCurrent, TimerAgrees
<1>7. Pursued'
  <2>1. dial'[d] = "connecting"
    BY <1>1 DEF Inv, TypeOK
  <2> QED
    BY <1>2, <2>1 DEF Pursued, Moving, IsCurrent
<1>8. Dormant'
  BY DEF Dormant, DormantHoldsNothing
<1> QED
  BY <1>3, <1>5, <1>6, <1>7, <1>8 DEF Inv

\* The failure of the dial in flight keeps Inv.
LEMMA Failing ==
  ASSUME Inv, NEW d \in Dials, InFlight(d), IsCurrent(d), Vacate(d),
         NEW x \in Session, x.timer = ses.timer, x.current = ses.current,
         x.epoch = ses.epoch, NEW cause \in Causes, NEW terminal \in BOOLEAN,
         ses' = Fail(x, cause, terminal), Show(cause),
         UNCHANGED <<admits, refs, grace, destroyed>>
  PROVE  Inv'
<1> USE DEF None, Dials
<1>1. ses.timer = "none" /\ ses.current = None /\ ses.epoch = d /\ ~destroyed
  BY DEF Inv, TimerAgrees, LinkIsCurrent, InFlight, IsCurrent, Wired
<1>2. DownOf(x, ses')
  BY <1>1, FailFields
<1>3. /\ ses' \in Session /\ ses'.current = None /\ ses'.epoch = d
      /\ ses'.timer = "none" \/ ses'.timer = "backoff"
      /\ ses'.phase = "failed" \/ ses'.timer = "backoff"
  BY <1>1, <1>2 DEF DownOf
<1>4. dial' = [dial EXCEPT ![d] = "none"] /\ conn' = [conn EXCEPT ![d] = "none"]
  BY DEF Vacate
<1>5. TypeOK'
  <2>1. shown' \in 0 .. Ceiling
    BY RemoteSessionAssumption DEF Inv, TypeOK, Show, Least
  <2> QED
    BY <1>3, <1>4, <2>1 DEF Inv, TypeOK
<1>6. SlotsAgree'
  BY <1>1, <1>3, <1>4 DEF Inv, TypeOK, SlotsAgree
<1>7. LinkIsCurrent'
  BY <1>3 DEF LinkIsCurrent
<1>8. \A c \in Dials : ~(InFlight(c) /\ IsCurrent(c))'
  BY <1>3, <1>4 DEF Inv, TypeOK, InFlight, IsCurrent
<1>9. TimerAgrees'
  BY <1>3, <1>8 DEF TimerAgrees
<1>10. Pursued'
  BY <1>3 DEF Pursued, Moving
<1>11. Dormant'
  BY <1>1, <1>3, <1>8 DEF Inv, Dormant, DormantHoldsNothing, IsCurrent
<1> QED
  BY <1>5, <1>6, <1>7, <1>9, <1>10, <1>11 DEF Inv
\* A link that becomes connected leaves the other fields as they are.
LEMMA EnterFields ==
  ASSUME NEW x \in Session
  PROVE  /\ EnterConnected(x) \in Session
         /\ EnterConnected(x).current = x.current /\ EnterConnected(x).epoch = x.epoch
         /\ EnterConnected(x).promise = x.promise
         /\ EnterConnected(x).phase = "connected"
         /\ EnterConnected(x).timer = IF x.phase = "connecting" THEN "none" ELSE x.timer
<1> DEFINE y == [x EXCEPT !.run = 0]
<1>1. y \in Session
  BY RemoteSessionAssumption DEF Session
<1>2. /\ y.current = x.current /\ y.epoch = x.epoch /\ y.promise = x.promise
      /\ y.phase = x.phase /\ y.timer = x.timer
  BY DEF Session
<1>3. "connected" \in Phases
  BY DEF Phases
<1> HIDE DEF y
<1> DEFINE t == Disarmed(y, "connected")
           w == [y EXCEPT !.phase = "connected", !.timer = t, !.backstop = FALSE]
<1>4. t = IF x.phase = "connecting" THEN "none" ELSE x.timer
  BY <1>2 DEF Disarmed
<1>5. SetUp(y, "connected") \in Session
  BY <1>1, <1>3, SetUpFields
<1>6. SetUp(y, "connected") = w
  BY DEF SetUp, LeavePhase
<1> HIDE DEF t
<1>7. /\ w.current = y.current /\ w.epoch = y.epoch /\ w.promise = y.promise
      /\ w.phase = "connected" /\ w.timer = t
  BY <1>1 DEF Session
<1>8. EnterConnected(x) = SetUp(y, "connected")
  BY DEF EnterConnected, Success, y
<1> QED
  BY <1>2, <1>4, <1>5, <1>6, <1>7, <1>8

\* An absent endpoint is probed once the timer slot is free.
LEMMA ProbeFields ==
  ASSUME NEW x \in Session, ~destroyed, x.timer = "none"
  PROVE  /\ ScheduleAbsentProbe(SetDown(x, "absent")) \in Session
         /\ ScheduleAbsentProbe(SetDown(x, "absent")).current = x.current
         /\ ScheduleAbsentProbe(SetDown(x, "absent")).epoch = x.epoch
         /\ ScheduleAbsentProbe(SetDown(x, "absent")).timer = "probe"
<1> DEFINE y == SetDown(x, "absent")
           w == [y EXCEPT !.promise = FALSE, !.timer = "probe"]
<1>1. "absent" \in Phases
  BY DEF Phases
<1>2. y \in Session /\ y.current = x.current /\ y.epoch = x.epoch /\ y.timer = "none"
  BY <1>1, DownFields
<1> HIDE DEF y
<1>3. w \in Session
  BY <1>2 DEF Session, Timers
<1>4. w.current = y.current /\ w.epoch = y.epoch /\ w.timer = "probe"
  BY <1>2 DEF Session
<1>5. ScheduleAbsentProbe(y) = w
  BY <1>2 DEF ScheduleAbsentProbe
<1> QED
  BY <1>2, <1>3, <1>4, <1>5 DEF y

\* The end of the link held leaves a session that is down, with no link and no
\* client, and a free timer slot.
LEMMA LostFields ==
  ASSUME ses \in Session, ses.timer = "none" \/ ses.phase = "connecting"
  PROVE  /\ LinkLost \in Session
         /\ LinkLost.current = None /\ LinkLost.epoch = ses.epoch
         /\ LinkLost.timer = "none" /\ LinkLost.phase = "disconnected"
         /\ ~LinkLost.promise
<1> DEFINE y == SetDown(ses, "disconnected")
           t == ses.cycling /\ ses.timedOut
<1>1. "disconnected" \in Phases
  BY DEF Phases
<1>2. /\ y \in Session /\ y.epoch = ses.epoch /\ y.timer = "none"
      /\ y.phase = "disconnected"
  BY <1>1, DownFields
<1> HIDE DEF y
<1>3. t \in BOOLEAN
  BY DEF Session
<1> HIDE DEF t
<1> DEFINE w == [y EXCEPT !.current = None, !.promise = FALSE, !.cycling = FALSE,
                          !.timedOut = t]
<1>4. w \in Session
  BY <1>2, <1>3 DEF Session
<1>5. /\ w.current = None /\ w.epoch = y.epoch /\ w.timer = y.timer
      /\ w.phase = y.phase /\ ~w.promise
  BY <1>2 DEF Session
<1>6. LinkLost = w
  BY DEF LinkLost, y, t
<1> QED
  BY <1>2, <1>4, <1>5, <1>6
-----------------------------------------------------------------------------
(* The inductive invariant.                                                *)

\* It holds of a session that was just made.
LEMMA InvInit == Init => Inv
<1> SUFFICES ASSUME Init PROVE Inv
  OBVIOUS
<1>1. /\ ses \in Session /\ ses.current = None /\ ses.epoch = None
      /\ ses.timer = "none" /\ ~ses.promise
  BY RemoteSessionAssumption DEF Init, Session, Phases, Timers, None
<1>2. \A d \in Dials : dial[d] = "none" /\ conn[d] = "none"
  BY DEF Init
<1>3. TypeOK
  <2>1. /\ dial \in [Dials -> {"none", "connecting", "admitting", "returned", "refused"}]
        /\ conn \in [Dials -> {"none", "up", "died", "rechecked", "timedout", "dropped"}]
    BY DEF Init
  <2>2. refs \in 0 .. MaxPins /\ shown \in 0 .. Ceiling
    BY RemoteSessionAssumption DEF Init
  <2>3. admits \in BOOLEAN /\ grace \in BOOLEAN /\ destroyed \in BOOLEAN
    BY DEF Init
  <2> QED
    BY <1>1, <2>1, <2>2, <2>3 DEF TypeOK
<1> QED
  BY <1>1, <1>2, <1>3 DEF Init, Inv, SlotsAgree, LinkIsCurrent, TimerAgrees, Pursued,
     Dormant, DormantHoldsNothing, InFlight

\* The holders' verbs keep it.
LEMMA VerbsKeepInv ==
  ASSUME Inv, Pin \/ Release \/ Reconnect \/ Recheck \/ Nudge \/ Destroy \/ MarkConnected
  PROVE  Inv'
<1> USE DEF None, Dials
<1> DEFINE idle == [ses EXCEPT !.timer = "none"]
<1>1. ses \in Session
  BY DEF Inv, TypeOK
<1>2. /\ idle \in Session /\ idle.timer = "none" /\ idle.current = ses.current
      /\ idle.epoch = ses.epoch /\ idle.promise = ses.promise /\ idle.phase = ses.phase
  BY <1>1 DEF Session, Timers
<1>3. \A x \in Session : /\ Success(x) \in Session /\ Success(x).timer = x.timer
                         /\ Success(x).current = x.current
  BY RemoteSessionAssumption DEF Success, Session
<1>4. ~ses.promise => ses.current = None
  BY DEF Inv, LinkIsCurrent
<1>5. CASE Pin
  <2>1. refs' \in 1 .. MaxPins /\ grace' \in BOOLEAN /\ (grace' => refs' = 0)
    <3>1. refs' \in 1 .. MaxPins
      BY <1>5, RemoteSessionAssumption DEF Pin, Inv, TypeOK
    <3>2. grace' = FALSE
      BY <1>5 DEF Pin
    <3> QED
      BY <3>1, <3>2
  <2>2. CASE ses.promise
    <3>1. UNCHANGED <<admits, destroyed, ses, dial, conn, shown>>
      BY <1>5, <2>2 DEF Pin
    <3> QED
      BY <2>1, <2>2, <3>1 DEF Inv, TypeOK, SlotsAgree, LinkIsCurrent, TimerAgrees, Pursued,
         Moving, Dormant, DormantHoldsNothing, IsCurrent, InFlight, Wired
  <2>3. CASE ~ses.promise
    <3>1. Launch(idle) /\ UNCHANGED <<admits, destroyed, conn, shown>>
      BY <1>5, <2>3 DEF Pin
    <3> HIDE DEF idle
    <3> QED
      BY <1>2, <1>4, <2>1, <2>3, <3>1, Launching
  <2> QED
    BY <2>2, <2>3
<1>6. CASE Release
  <2>1. /\ refs' \in 0 .. MaxPins /\ refs > 0
        /\ UNCHANGED <<admits, destroyed, ses, dial, conn, shown>>
    BY <1>6, RemoteSessionAssumption DEF Release, Inv, TypeOK
  <2>2. (grace' <=> refs' = 0) /\ grace' \in BOOLEAN
    BY <1>6, Zenon DEF Release
  <2> QED
    BY <2>1, <2>2 DEF Inv, TypeOK, SlotsAgree, LinkIsCurrent, TimerAgrees, Pursued,
       Moving, Dormant, DormantHoldsNothing, IsCurrent, InFlight, Wired
<1>7. CASE Reconnect
  <2>1. /\ ~ses.promise /\ ses.timer = "none" /\ refs > 0 /\ Launch(Success(ses))
        /\ UNCHANGED <<admits, refs, grace, destroyed, conn, shown>>
    BY <1>7 DEF Reconnect
  <2>2. refs' \in 1 .. MaxPins /\ grace' \in BOOLEAN /\ (grace' => refs' = 0)
    BY <2>1 DEF Inv, TypeOK, Dormant
  <2> QED
    BY <1>1, <1>3, <1>4, <2>1, <2>2, Launching
<1>8. CASE Recheck
  <2>1. /\ refs > 0 /\ UNCHANGED <<admits, refs, grace, destroyed, shown>>
    BY <1>8 DEF Recheck
  <2>2. refs' \in 1 .. MaxPins /\ grace' \in BOOLEAN /\ (grace' => refs' = 0)
    BY <2>1 DEF Inv, TypeOK, Dormant
  <2>3. CASE ses.current # None
    <3>1. /\ ses' = [Success(idle) EXCEPT !.cycling = TRUE] /\ UNCHANGED dial
          /\ conn' = TornDown(ses.current, "rechecked")
      BY <1>8, <2>3 DEF Recheck
    <3>2. /\ ses' \in Session /\ ses'.timer = "none" /\ ses'.current = ses.current
          /\ ses'.epoch = ses.epoch /\ ses'.promise = ses.promise
      <4> HIDE DEF idle
      <4> DEFINE y == Success(idle)
      <4>1. /\ y \in Session /\ y.timer = "none" /\ y.current = ses.current
            /\ y.epoch = ses.epoch /\ y.promise = ses.promise
        BY <1>2, RemoteSessionAssumption DEF Success, Session
      <4> HIDE DEF y
      <4>2. ses' = [y EXCEPT !.cycling = TRUE]
        BY <3>1 DEF y
      <4> QED
        BY <4>1, <4>2 DEF Session
    <3>3. conn' \in [Dials -> {"none", "up", "died", "rechecked", "timedout", "dropped"}]
      BY <3>1 DEF TornDown, Inv, TypeOK
    <3>4. \A d \in Dials : conn'[d] = IF d = ses.current THEN "rechecked" ELSE conn[d]
      BY <3>1 DEF TornDown
    <3>5. TypeOK' /\ SlotsAgree'
      BY <2>1, <3>1, <3>2, <3>3, <3>4, <2>3 DEF Inv, TypeOK, SlotsAgree, LinkIsCurrent, Wired
    <3>6. LinkIsCurrent' /\ TimerAgrees'
      BY <2>1, <3>1, <3>2 DEF Inv, LinkIsCurrent, TimerAgrees, Wired, InFlight, IsCurrent
    <3>7. Pursued'
      BY <1>1, <2>3, <3>2, <3>4 DEF Pursued, Moving, Session
    <3>8. Dormant'
      BY <2>1, <2>2 DEF Dormant, DormantHoldsNothing
    <3> QED
      BY <3>5, <3>6, <3>7, <3>8 DEF Inv
  <2>4. CASE ses.current = None
    <3>1. Launch(Success(idle)) /\ UNCHANGED conn
      BY <1>8, <2>4 DEF Recheck
    <3> HIDE DEF idle
    <3> QED
      BY <1>2, <1>3, <2>1, <2>2, <2>4, <3>1, Launching
  <2> QED
    BY <2>3, <2>4
<1>9. CASE Nudge
  <2>1. /\ ses.timer # "none" /\ ses.phase = "disconnected" /\ refs > 0 /\ Launch(idle)
        /\ UNCHANGED <<admits, refs, grace, destroyed, conn, shown>>
    BY <1>9 DEF Nudge
  <2>2. refs' \in 1 .. MaxPins /\ grace' \in BOOLEAN /\ (grace' => refs' = 0)
    BY <2>1 DEF Inv, TypeOK, Dormant
  <2>3. ses.current = None
    BY <1>1, <2>1 DEF Inv, TimerAgrees, Session, Timers
  <2> HIDE DEF idle
  <2> QED
    BY <1>2, <2>1, <2>2, <2>3, Launching
<1>10. CASE Destroy
  <2>1. /\ destroyed' = TRUE /\ grace' = FALSE /\ conn' = TornDown(ses.current, "dropped")
        /\ ses' = [ses EXCEPT !.timer = "none", !.backstop = FALSE,
                              !.current = None, !.promise = FALSE]
        /\ UNCHANGED <<admits, refs, dial, shown>>
    BY <1>10 DEF Destroy
  <2>2. ses' \in Session /\ ses'.timer = "none" /\ ses'.current = None
    BY <1>1, <2>1 DEF Session, Timers
  <2>3. conn' \in [Dials -> {"none", "up", "died", "rechecked", "timedout", "dropped"}]
    BY <2>1 DEF TornDown, Inv, TypeOK
  <2>4. \A d \in Dials : conn'[d] = IF d = ses.current THEN "dropped" ELSE conn[d]
    BY <2>1 DEF TornDown
  <2>5. TypeOK' /\ SlotsAgree'
    <3>1. destroyed' \in BOOLEAN /\ grace' \in BOOLEAN
      BY <2>1
    <3>2. SlotsAgree'
      BY <2>1, <2>2, <2>4 DEF Inv, TypeOK, SlotsAgree, LinkIsCurrent, Wired
    <3> QED
      BY <2>1, <2>2, <2>3, <3>1, <3>2 DEF Inv, TypeOK
  <2>6. LinkIsCurrent' /\ TimerAgrees' /\ Pursued' /\ Dormant'
    BY <2>1, <2>2 DEF LinkIsCurrent, TimerAgrees, Pursued, Dormant, DormantHoldsNothing,
       IsCurrent
  <2> QED
    BY <2>5, <2>6 DEF Inv
<1>11. CASE MarkConnected
  <2>1. /\ ses.phase = "connecting" /\ ses.current # None /\ ses' = EnterConnected(ses)
        /\ shown' = 0 /\ UNCHANGED <<admits, refs, grace, destroyed, dial, conn>>
    BY <1>11 DEF MarkConnected
  <2>2. /\ ses' \in Session /\ ses'.timer = "none" /\ ses'.current = ses.current
        /\ ses'.epoch = ses.epoch /\ ses'.promise = ses.promise /\ ses'.phase = "connected"
    BY <1>1, <2>1, EnterFields
  <2>3. TypeOK' /\ SlotsAgree'
    BY <2>1, <2>2, RemoteSessionAssumption DEF Inv, TypeOK, SlotsAgree
  <2>4. LinkIsCurrent' /\ TimerAgrees' /\ Pursued'
    BY <2>1, <2>2 DEF Inv, LinkIsCurrent, TimerAgrees, Pursued, Moving, Wired
  <2>5. Dormant'
    BY <2>1, <2>2 DEF Inv, Dormant, DormantHoldsNothing, InFlight, IsCurrent
  <2> QED
    BY <2>3, <2>4, <2>5 DEF Inv
<1> QED
  BY <1>5, <1>6, <1>7, <1>8, <1>9, <1>10, <1>11
\* The timers keep it.
LEMMA TimersKeepInv ==
  ASSUME Inv, RetryFires \/ WatchdogFires \/ BackstopFires \/ LetTheLinkGo
  PROVE  Inv'
<1> USE DEF None, Dials
<1> DEFINE idle == [ses EXCEPT !.timer = "none"]
<1>1. ses \in Session
  BY DEF Inv, TypeOK
<1>2. /\ idle \in Session /\ idle.timer = "none" /\ idle.current = ses.current
      /\ idle.epoch = ses.epoch /\ idle.promise = ses.promise /\ idle.phase = ses.phase
  BY <1>1 DEF Session, Timers
<1>3. CASE RetryFires
  <2>1. /\ ses.timer \in {"backoff", "probe"}
        /\ UNCHANGED <<admits, refs, grace, destroyed, conn, shown>>
    BY <1>3 DEF RetryFires
  <2>2. ses.current = None
    BY <2>1 DEF Inv, TimerAgrees
  <2>3. CASE refs = 0
    <3>1. ses' = [idle EXCEPT !.promise = FALSE] /\ UNCHANGED dial
      BY <1>3, <2>3 DEF RetryFires
    <3> HIDE DEF idle
    <3>2. /\ ses' \in Session /\ ses'.timer = "none" /\ ses'.current = None
          /\ ses'.epoch = ses.epoch /\ ~ses'.promise
      BY <1>2, <2>2, <3>1 DEF Session
    <3>3. TypeOK' /\ SlotsAgree' /\ LinkIsCurrent' /\ TimerAgrees' /\ Pursued'
      BY <2>1, <2>2, <2>3, <3>1, <3>2 DEF Inv, TypeOK, SlotsAgree, LinkIsCurrent,
         TimerAgrees, Pursued, InFlight, IsCurrent
    <3>4. Dormant'
      BY <2>1, <2>2, <2>3, <3>1, <3>2 DEF Inv, Dormant, DormantHoldsNothing,
         InFlight, IsCurrent
    <3> QED
      BY <3>3, <3>4 DEF Inv
  <2>4. CASE refs # 0
    <3>1. Launch(idle)
      BY <1>3, <2>4 DEF RetryFires
    <3>2. refs' \in 1 .. MaxPins /\ grace' \in BOOLEAN /\ (grace' => refs' = 0)
      BY <2>1, <2>4, RemoteSessionAssumption DEF Inv, TypeOK, Dormant
    <3> HIDE DEF idle
    <3> QED
      BY <1>2, <2>1, <2>2, <3>1, <3>2, Launching
  <2> QED
    BY <2>3, <2>4
<1>4. CASE WatchdogFires
  <2>1. /\ ses.timer = "watchdog" /\ UNCHANGED <<admits, refs, grace, destroyed, dial, shown>>
    BY <1>4 DEF WatchdogFires
  <2>2. ses.phase = "connecting" /\ ses.current # None
    BY <2>1 DEF Inv, TimerAgrees
  <2>3. /\ ses' = [ses EXCEPT !.timer = "none", !.timedOut = TRUE]
        /\ conn' = TornDown(ses.current, "timedout")
    BY <1>4, <2>2 DEF WatchdogFires
  <2>4. /\ ses' \in Session /\ ses'.timer = "none" /\ ses'.current = ses.current
        /\ ses'.epoch = ses.epoch /\ ses'.promise = ses.promise
    BY <1>1, <2>3 DEF Session, Timers
  <2>5. conn' \in [Dials -> {"none", "up", "died", "rechecked", "timedout", "dropped"}]
    BY <2>3 DEF TornDown, Inv, TypeOK
  <2>6. \A d \in Dials : conn'[d] = IF d = ses.current THEN "timedout" ELSE conn[d]
    BY <2>3 DEF TornDown
  <2>7. TypeOK' /\ SlotsAgree'
    BY <2>1, <2>2, <2>4, <2>5, <2>6 DEF Inv, TypeOK, SlotsAgree, LinkIsCurrent, Wired
  <2>8. LinkIsCurrent' /\ TimerAgrees'
    BY <2>1, <2>2, <2>4 DEF Inv, LinkIsCurrent, TimerAgrees, Wired
  <2>9. Pursued'
    BY <1>1, <2>2, <2>4, <2>6 DEF Pursued, Moving, Session
  <2>10. Dormant'
    BY <2>1, <2>2, <2>4 DEF Inv, Dormant, DormantHoldsNothing
  <2> QED
    BY <2>7, <2>8, <2>9, <2>10 DEF Inv
<1>5. CASE LetTheLinkGo
  <2>1. /\ grace /\ grace' = FALSE /\ refs = 0 /\ UNCHANGED <<admits, refs, destroyed, dial, shown>>
    BY <1>5 DEF LetTheLinkGo, Inv, Dormant
  <2>2. CASE destroyed
    <3>1. UNCHANGED <<ses, conn>>
      BY <1>5, <2>2 DEF LetTheLinkGo
    <3> QED
      BY <2>1, <2>2, <3>1 DEF Inv, TypeOK, SlotsAgree, LinkIsCurrent, TimerAgrees, Pursued,
         Dormant, DormantHoldsNothing, InFlight, IsCurrent, Wired
  <2>3. CASE ~destroyed
    <3>1. /\ ses' = [ses EXCEPT !.timer = "none", !.backstop = FALSE, !.epoch = None,
                                !.current = None, !.promise = FALSE]
          /\ conn' = TornDown(ses.current, "dropped")
      BY <1>5, <2>3 DEF LetTheLinkGo
    <3>2. /\ ses' \in Session /\ ses'.timer = "none" /\ ses'.current = None
          /\ ses'.epoch = None /\ ~ses'.promise
      BY <1>1, <3>1 DEF Session, Timers
    <3>3. conn' \in [Dials -> {"none", "up", "died", "rechecked", "timedout", "dropped"}]
      BY <3>1 DEF TornDown, Inv, TypeOK
    <3>4. \A d \in Dials : conn'[d] = IF d = ses.current THEN "dropped" ELSE conn[d]
      BY <3>1 DEF TornDown
    <3>5. TypeOK'
      BY <2>1, <3>2, <3>3 DEF Inv, TypeOK
    <3>6. SlotsAgree'
      BY <2>1, <3>2, <3>3, <3>4 DEF Inv, SlotsAgree, LinkIsCurrent, Wired
    <3>7. LinkIsCurrent' /\ TimerAgrees' /\ Pursued' /\ Dormant'
      BY <2>1, <3>2 DEF LinkIsCurrent, TimerAgrees, Pursued, Dormant, DormantHoldsNothing,
         IsCurrent
    <3> QED
      BY <3>5, <3>6, <3>7 DEF Inv
  <2> QED
    BY <2>2, <2>3 DEF Inv, TypeOK
<1>6. CASE BackstopFires
  <2>1. CASE Recheck
    BY <2>1, VerbsKeepInv
  <2>2. CASE ~Recheck
    <3>1. /\ destroyed /\ ses' = [ses EXCEPT !.backstop = FALSE]
          /\ UNCHANGED <<admits, refs, grace, destroyed, dial, conn, shown>>
      BY <1>6, <2>2 DEF BackstopFires
    <3>2. /\ ses' \in Session /\ ses'.timer = ses.timer /\ ses'.current = ses.current
          /\ ses'.epoch = ses.epoch /\ ses'.promise = ses.promise /\ ses'.phase = ses.phase
      BY <1>1, <3>1 DEF Session
    <3>3. TypeOK' /\ SlotsAgree' /\ LinkIsCurrent'
      BY <3>1, <3>2 DEF Inv, TypeOK, SlotsAgree, LinkIsCurrent, Wired
    <3>4. TimerAgrees' /\ Pursued' /\ Dormant'
      BY <3>1, <3>2 DEF Inv, TimerAgrees, Pursued, Dormant, DormantHoldsNothing, IsCurrent
    <3> QED
      BY <3>3, <3>4 DEF Inv
  <2> QED
    BY <2>1, <2>2
<1> QED
  BY <1>3, <1>4, <1>5, <1>6
\* The dial and its outcomes keep it.
LEMMA DialsKeepInv ==
  ASSUME Inv, NEW d \in Dials, Connecting(d) \/ Superseded(d) \/ Outcome(d)
  PROVE  Inv'
<1> USE DEF None, Dials
<1>1. ses \in Session
  BY DEF Inv, TypeOK
<1>2. /\ Success(ses) \in Session /\ Success(ses).timer = ses.timer
      /\ Success(ses).current = ses.current /\ Success(ses).epoch = ses.epoch
  BY <1>1, RemoteSessionAssumption DEF Success, Session
<1>3. ASSUME InFlight(d), IsCurrent(d)
      PROVE  ses.timer = "none" /\ ses.current = None /\ ses.epoch = d /\ ~destroyed
         /\ ses.promise
  BY <1>3 DEF Inv, TimerAgrees, LinkIsCurrent, InFlight, IsCurrent, Wired
<1>4. "network" \in Causes /\ "network" # "remote"
  BY DEF Causes
<1>5. CASE Connecting(d)
  <2>1. /\ InFlight(d) /\ IsCurrent(d) /\ dial[d] = "connecting" /\ ses.phase = "opening"
        /\ ses' = SetUp(ses, "connecting")
        /\ UNCHANGED <<admits, refs, grace, destroyed, dial, conn, shown>>
    BY <1>5 DEF Connecting, InFlight
  <2>2. "connecting" \in Phases /\ "connecting" # "connected"
    BY DEF Phases
  <2>3. Disarmed(ses, "connecting") = "none"
    BY <1>3, <2>1 DEF Disarmed
  <2>4. ses' \in Session
    BY <1>1, <2>1, <2>2, SetUpFields
  <2>5. ses' = [ses EXCEPT !.phase = "connecting", !.timer = "none", !.backstop = TRUE]
    BY <2>1, <2>2, <2>3 DEF SetUp, LeavePhase
  <2>6. /\ ses'.timer = "none" /\ ses'.current = None /\ ses'.epoch = ses.epoch /\ ses'.backstop
        /\ ses'.promise
    BY <1>1, <1>3, <2>1, <2>5 DEF Session
  <2>7. TypeOK' /\ SlotsAgree' /\ LinkIsCurrent'
    BY <1>3, <2>1, <2>4, <2>6 DEF Inv, TypeOK, SlotsAgree, LinkIsCurrent
  <2>8. TimerAgrees' /\ Pursued'
    BY <1>3, <2>1, <2>6 DEF TimerAgrees, Pursued, Moving, IsCurrent
  <2>9. Dormant'
    BY <1>3, <2>1, <2>6 DEF Inv, Dormant, DormantHoldsNothing, InFlight, IsCurrent
  <2> QED
    BY <2>7, <2>8, <2>9 DEF Inv
<1>6. CASE Superseded(d)
  <2>1. /\ ~IsCurrent(d) /\ InFlight(d) /\ UNCHANGED <<admits, refs, grace, destroyed, ses, shown>>
        /\ dial' = [dial EXCEPT ![d] = "none"] /\ conn' = [conn EXCEPT ![d] = "none"]
    BY <1>6 DEF Superseded, Vacate
  <2>2. ses.current # d
    BY <2>1 DEF Inv, LinkIsCurrent, Wired, InFlight
  <2>3. TypeOK' /\ SlotsAgree' /\ LinkIsCurrent'
    BY <2>1, <2>2 DEF Inv, TypeOK, SlotsAgree, LinkIsCurrent, Wired
  <2>4. \A c \in Dials : c # d => dial'[c] = dial[c] /\ conn'[c] = conn[c]
    BY <2>1 DEF Inv, TypeOK
  <2>5. dial'[d] = "none"
    BY <2>1 DEF Inv, TypeOK
  <2>6. TimerAgrees' /\ Dormant'
    BY <2>1, <2>4, <2>5 DEF Inv, TimerAgrees, Dormant, DormantHoldsNothing, InFlight, IsCurrent
  <2>7. Pursued'
    BY <1>1, <2>1, <2>2, <2>4 DEF Inv, Pursued, Moving, IsCurrent, Session
  <2> QED
    BY <2>3, <2>6, <2>7 DEF Inv
<1>7. CASE DialAbsent(d)
  <2>1. /\ InFlight(d) /\ IsCurrent(d) /\ UNCHANGED <<admits, refs, grace, destroyed, shown>>
        /\ dial' = [dial EXCEPT ![d] = "none"] /\ conn' = [conn EXCEPT ![d] = "none"]
        /\ ses' = ScheduleAbsentProbe(SetDown(ses, "absent"))
    BY <1>7 DEF DialAbsent, InFlight, Vacate
  <2>2. /\ ses' \in Session /\ ses'.current = None /\ ses'.epoch = d /\ ses'.timer = "probe"
    BY <1>1, <1>3, <2>1, ProbeFields
  <2>3. TypeOK' /\ SlotsAgree' /\ LinkIsCurrent'
    BY <1>3, <2>1, <2>2 DEF Inv, TypeOK, SlotsAgree, LinkIsCurrent
  <2>4. \A c \in Dials : ~(InFlight(c) /\ IsCurrent(c))'
    BY <2>1, <2>2 DEF Inv, TypeOK, InFlight, IsCurrent
  <2>5. TimerAgrees' /\ Pursued'
    BY <2>2, <2>4 DEF TimerAgrees, Pursued, Moving
  <2>6. Dormant'
    BY <1>3, <2>1, <2>2, <2>4 DEF Inv, Dormant, DormantHoldsNothing
  <2> QED
    BY <2>3, <2>5, <2>6 DEF Inv
<1>8. CASE DialFails(d)
  <2>1. PICK cause \in Causes : ses' = Fail(ses, cause, FALSE) /\ Show(cause)
    BY <1>8 DEF DialFails
  <2>2. InFlight(d) /\ IsCurrent(d) /\ Vacate(d) /\ UNCHANGED <<admits, refs, grace, destroyed>>
    BY <1>8 DEF DialFails, InFlight
  <2> QED
    BY <1>1, <2>1, <2>2, Failing
<1>9. CASE DialFailsForGood(d)
  <2>1. PICK cause \in Causes : ses' = Fail(ses, cause, TRUE) /\ Show(cause)
    BY <1>9 DEF DialFailsForGood
  <2>2. InFlight(d) /\ IsCurrent(d) /\ Vacate(d) /\ UNCHANGED <<admits, refs, grace, destroyed>>
    BY <1>9 DEF DialFailsForGood, InFlight
  <2> QED
    BY <1>1, <2>1, <2>2, Failing
<1>10. CASE DialReturns(d)
  <2>1. /\ InFlight(d) /\ IsCurrent(d) /\ ses.phase = "connecting"
        /\ dial' = [dial EXCEPT ![d] = "returned"] /\ conn' = [conn EXCEPT ![d] = "up"]
        /\ ses' = [ses EXCEPT !.current = d, !.timer = "watchdog"]
        /\ UNCHANGED <<admits, refs, grace, destroyed, shown>>
    BY <1>10 DEF DialReturns, InFlight
  <2>2. /\ ses' \in Session /\ ses'.current = d /\ ses'.timer = "watchdog"
        /\ ses'.epoch = d /\ ses'.phase = "connecting" /\ ses'.promise
    BY <1>1, <1>3, <2>1 DEF Session, Timers
  <2>3. /\ dial'[d] = "returned" /\ conn'[d] = "up"
        /\ \A c \in Dials : c # d => dial'[c] = dial[c] /\ conn'[c] = conn[c]
    BY <2>1 DEF Inv, TypeOK
  <2>4. TypeOK'
    BY <2>1, <2>2 DEF Inv, TypeOK
  <2>5. SlotsAgree'
    BY <1>3, <2>1, <2>2, <2>3 DEF Inv, SlotsAgree
  <2>6. LinkIsCurrent'
    BY <2>2, <2>3 DEF LinkIsCurrent, Wired
  <2>7. \A c \in Dials : ~(InFlight(c) /\ IsCurrent(c))'
    BY <2>2, <2>3 DEF InFlight, IsCurrent
  <2>8. TimerAgrees' /\ Pursued'
    BY <2>2, <2>7 DEF TimerAgrees, Pursued, Moving
  <2>9. Dormant'
    BY <1>3, <2>1 DEF Inv, Dormant, DormantHoldsNothing
  <2> QED
    BY <2>4, <2>5, <2>6, <2>8, <2>9 DEF Inv
<1>11. CASE AskAdmit(d)
  <2>1. /\ InFlight(d) /\ IsCurrent(d)
        /\ dial' = [dial EXCEPT ![d] = "admitting"] /\ conn' = [conn EXCEPT ![d] = "up"]
        /\ UNCHANGED <<admits, refs, grace, destroyed, ses, shown>>
    BY <1>11 DEF AskAdmit, InFlight
  <2>2. /\ dial'[d] = "admitting" /\ conn'[d] = "up"
        /\ \A c \in Dials : c # d => dial'[c] = dial[c] /\ conn'[c] = conn[c]
    BY <2>1 DEF Inv, TypeOK
  <2>3. TypeOK'
    BY <2>1 DEF Inv, TypeOK
  <2>4. SlotsAgree' /\ LinkIsCurrent'
    BY <1>3, <2>1, <2>2 DEF Inv, SlotsAgree, LinkIsCurrent
  <2>5. TimerAgrees' /\ Pursued'
    BY <1>3, <2>1, <2>2 DEF Inv, TimerAgrees, Pursued, Moving, IsCurrent
  <2>6. Dormant'
    BY <1>3, <2>1 DEF Inv, Dormant, DormantHoldsNothing
  <2> QED
    BY <2>3, <2>4, <2>5, <2>6 DEF Inv
<1>12. CASE AdmitFails(d)
  <2>1. /\ InFlight(d) /\ IsCurrent(d) /\ Vacate(d) /\ UNCHANGED <<admits, refs, grace, destroyed>>
        /\ ses' = Fail(ses, "network", FALSE) /\ Show("network")
    BY <1>12 DEF AdmitFails, InFlight
  <2> QED
    BY <1>1, <1>4, <2>1, Failing
<1>13. CASE Adopt(d)
  <2> DEFINE x == [ses EXCEPT !.current = d]
  <2>1. /\ InFlight(d) /\ IsCurrent(d) /\ dial[d] = "admitting"
        /\ dial' = [dial EXCEPT ![d] = "returned"] /\ ses' = EnterConnected(x) /\ shown' = 0
        /\ UNCHANGED <<admits, refs, grace, destroyed, conn>>
    BY <1>13 DEF Adopt, InFlight
  <2>a. /\ x \in Session /\ x.current = d /\ x.timer = "none" /\ x.epoch = d /\ x.promise
    BY <1>1, <1>3, <2>1 DEF Session
  <2> HIDE DEF x
  <2>2. /\ ses' \in Session /\ ses'.current = d /\ ses'.timer = "none" /\ ses'.epoch = d
        /\ ses'.promise /\ ses'.phase = "connected"
    BY <2>1, <2>a, EnterFields
  <2>3. /\ dial'[d] = "returned" /\ conn' = conn
        /\ \A c \in Dials : c # d => dial'[c] = dial[c]
    BY <2>1 DEF Inv, TypeOK
  <2>4. TypeOK'
    BY <2>1, <2>2, RemoteSessionAssumption DEF Inv, TypeOK
  <2>5. SlotsAgree'
    BY <1>3, <2>1, <2>2, <2>3 DEF Inv, SlotsAgree
  <2>6. LinkIsCurrent'
    BY <2>2, <2>3 DEF LinkIsCurrent, Wired
  <2>7. \A c \in Dials : ~(InFlight(c) /\ IsCurrent(c))'
    BY <2>2, <2>3 DEF InFlight, IsCurrent
  <2>8. TimerAgrees' /\ Pursued'
    BY <2>2, <2>3, <2>7 DEF TimerAgrees, Pursued, Moving
  <2>9. Dormant'
    BY <1>3, <2>1 DEF Inv, Dormant, DormantHoldsNothing
  <2> QED
    BY <2>4, <2>5, <2>6, <2>8, <2>9 DEF Inv
<1>14. CASE Refuse(d)
  <2> DEFINE x == [ses EXCEPT !.current = d]
             y == Success(x)
  <2>1. /\ InFlight(d) /\ IsCurrent(d) /\ dial[d] = "admitting"
        /\ dial' = [dial EXCEPT ![d] = "refused"] /\ ses' = SetDown(y, "disconnected")
        /\ UNCHANGED <<admits, refs, grace, destroyed, conn, shown>>
    BY <1>14 DEF Refuse, InFlight
  <2>a. /\ x \in Session /\ x.current = d /\ x.timer = "none" /\ x.epoch = d /\ x.promise
    BY <1>1, <1>3, <2>1 DEF Session
  <2> HIDE DEF x
  <2>b. /\ y \in Session /\ y.current = d /\ y.timer = "none" /\ y.epoch = d /\ y.promise
    BY <2>a, RemoteSessionAssumption DEF Success, Session
  <2> HIDE DEF y
  <2>c. "disconnected" \in Phases
    BY DEF Phases
  <2>2. /\ ses' \in Session /\ ses'.current = d /\ ses'.timer = "none" /\ ses'.epoch = d
        /\ ses'.promise
    BY <2>1, <2>b, <2>c, DownFields
  <2>3. /\ dial'[d] = "refused" /\ conn' = conn
        /\ \A c \in Dials : c # d => dial'[c] = dial[c]
    BY <2>1 DEF Inv, TypeOK
  <2>4. TypeOK'
    BY <2>1, <2>2, RemoteSessionAssumption DEF Inv, TypeOK
  <2>5. SlotsAgree'
    BY <1>3, <2>1, <2>2, <2>3 DEF Inv, SlotsAgree
  <2>6. LinkIsCurrent'
    BY <2>2, <2>3 DEF LinkIsCurrent, Wired
  <2>7. \A c \in Dials : ~(InFlight(c) /\ IsCurrent(c))'
    BY <2>2, <2>3 DEF InFlight, IsCurrent
  <2>8. TimerAgrees' /\ Pursued'
    BY <2>2, <2>3, <2>7 DEF TimerAgrees, Pursued, Moving
  <2>9. Dormant'
    BY <1>3, <2>1 DEF Inv, Dormant, DormantHoldsNothing
  <2> QED
    BY <2>4, <2>5, <2>6, <2>8, <2>9 DEF Inv
<1>15. CASE Replaced(d)
  <2>1. /\ InFlight(d) /\ IsCurrent(d) /\ Vacate(d) /\ UNCHANGED <<admits, refs, grace, destroyed>>
        /\ ses' = Fail(Success(ses), "network", FALSE) /\ Show("network")
    BY <1>15 DEF Replaced, InFlight
  <2> QED
    BY <1>2, <1>4, <2>1, Failing
<1> QED
  BY <1>5, <1>6, <1>7, <1>8, <1>9, <1>10, <1>11, <1>12, <1>13, <1>14, <1>15 DEF Outcome
\* The close of a link, and its death, keep it.
LEMMA ClosesKeepInv ==
  ASSUME Inv, NEW d \in Dials, Die(d) \/ Closed(d)
  PROVE  Inv'
<1> USE DEF None, Dials
<1>1. ses \in Session
  BY DEF Inv, TypeOK
<1>2. CASE Die(d)
  <2>1. /\ conn[d] = "up" /\ conn' = [conn EXCEPT ![d] = "died"]
        /\ UNCHANGED <<admits, refs, grace, destroyed, ses, dial, shown>>
    BY <1>2 DEF Die
  <2>2. conn'[d] = "died" /\ \A c \in Dials : c # d => conn'[c] = conn[c]
    BY <2>1 DEF Inv, TypeOK
  <2>3. TypeOK' /\ SlotsAgree' /\ LinkIsCurrent'
    BY <2>1, <2>2 DEF Inv, TypeOK, SlotsAgree, LinkIsCurrent, Wired
  <2>4. TimerAgrees' /\ Dormant'
    BY <2>1 DEF Inv, TimerAgrees, Dormant, DormantHoldsNothing, InFlight, IsCurrent
  <2>5. Pursued'
    BY <1>1, <2>1, <2>2 DEF Inv, Pursued, Moving, IsCurrent, Session
  <2> QED
    BY <2>3, <2>4, <2>5 DEF Inv
<1>3. CASE Closed(d)
  <2>1. /\ Wired(d) /\ conn[d] # "up" /\ UNCHANGED <<admits, refs, grace, destroyed>>
        /\ dial' = [dial EXCEPT ![d] = "none"] /\ conn' = [conn EXCEPT ![d] = "none"]
    BY <1>3 DEF Closed, Vacate
  <2>2. /\ dial'[d] = "none" /\ conn'[d] = "none"
        /\ \A c \in Dials : c # d => dial'[c] = dial[c] /\ conn'[c] = conn[c]
    BY <2>1 DEF Inv, TypeOK
  <2>3. CASE ses.current # d
    <3>1. UNCHANGED <<ses, shown>>
      BY <1>3, <2>3 DEF Closed
    <3>2. TypeOK' /\ SlotsAgree' /\ LinkIsCurrent'
      BY <2>1, <2>2, <2>3, <3>1 DEF Inv, TypeOK, SlotsAgree, LinkIsCurrent, Wired
    <3>3. TimerAgrees' /\ Dormant'
      BY <2>1, <2>2, <3>1 DEF Inv, TimerAgrees, Dormant, DormantHoldsNothing,
         InFlight, IsCurrent
    <3>4. Pursued'
      <4>1. ~InFlight(d)
        BY <2>1 DEF Wired, InFlight
      <4> QED
        BY <1>1, <2>1, <2>2, <2>3, <3>1, <4>1 DEF Inv, Pursued, Moving, IsCurrent,
           InFlight, Session
    <3> QED
      BY <3>2, <3>3, <3>4 DEF Inv
  <2>4. CASE ses.current = d
    <3>1. ses.epoch = d /\ (ses.timer = "none" \/ ses.phase = "connecting")
      BY <1>1, <2>4 DEF Inv, LinkIsCurrent, TimerAgrees, Session, Timers
    <3>2. /\ LinkLost \in Session /\ LinkLost.current = None /\ LinkLost.epoch = d
          /\ LinkLost.timer = "none" /\ LinkLost.phase = "disconnected" /\ ~LinkLost.promise
      BY <1>1, <3>1, LostFields
    <3>3. CASE destroyed \/ refs = 0
      <4>1. ses' = LinkLost /\ UNCHANGED shown
        BY <1>3, <2>4, <3>3 DEF Closed
      <4>2. TypeOK' /\ SlotsAgree' /\ LinkIsCurrent'
        BY <2>1, <2>2, <2>4, <3>2, <4>1 DEF Inv, TypeOK, SlotsAgree, LinkIsCurrent
      <4>3. \A c \in Dials : ~(InFlight(c) /\ IsCurrent(c))'
        BY <2>2, <3>2, <4>1 DEF InFlight, IsCurrent
      <4>4. TimerAgrees' /\ Pursued'
        BY <2>1, <3>2, <3>3, <4>1, <4>3 DEF TimerAgrees, Pursued
      <4>5. Dormant'
        BY <2>1, <3>2, <4>1, <4>3 DEF Inv, Dormant, DormantHoldsNothing
      <4> QED
        BY <4>2, <4>4, <4>5 DEF Inv
    <3>4. CASE ~destroyed /\ refs # 0
      <4>1. PICK cause \in CloseCauses :
              ses' = ScheduleReconnect(LinkLost, cause, FALSE) /\ Show(cause)
        BY <1>3, <2>4, <3>4 DEF Closed
      <4>2. cause \in Causes
        BY <4>1 DEF CloseCauses, Causes
      <4>3. DownOf(LinkLost, ses')
        BY <3>2, <3>4, <4>1, <4>2, ScheduleFields
      <4>4. /\ ses' \in Session /\ ses'.current = None /\ ses'.epoch = d
            /\ ses'.timer = "none" \/ ses'.timer = "backoff"
            /\ ses'.phase = "failed" \/ ses'.timer = "backoff"
        BY <3>2, <4>3 DEF DownOf
      <4>5. shown' \in 0 .. Ceiling
        BY <4>1, RemoteSessionAssumption DEF Inv, TypeOK, Show, Least
      <4>6. TypeOK' /\ SlotsAgree' /\ LinkIsCurrent'
        BY <2>1, <2>2, <2>4, <4>4, <4>5 DEF Inv, TypeOK, SlotsAgree, LinkIsCurrent
      <4>7. \A c \in Dials : ~(InFlight(c) /\ IsCurrent(c))'
        BY <2>2, <4>4 DEF InFlight, IsCurrent
      <4>8. TimerAgrees' /\ Pursued'
        BY <4>4, <4>7 DEF TimerAgrees, Pursued, Moving
      <4>9. Dormant'
        BY <2>1, <3>4 DEF Inv, Dormant, DormantHoldsNothing
      <4> QED
        BY <4>6, <4>8, <4>9 DEF Inv
    <3> QED
      BY <3>3, <3>4
  <2> QED
    BY <2>3, <2>4
<1> QED
  BY <1>2, <1>3

-----------------------------------------------------------------------------
(* The theorems.                                                           *)

\* Inv holds in every reachable state.
THEOREM InvHolds == Spec => []Inv
<1>1. Inv /\ [Next]_vars => Inv'
  <2> SUFFICES ASSUME Inv, [Next]_vars PROVE Inv'
    OBVIOUS
  <2>1. CASE Next
    BY <2>1, VerbsKeepInv, TimersKeepInv, DialsKeepInv, ClosesKeepInv DEF Next
  <2>2. CASE UNCHANGED vars
    BY <2>2 DEF vars, Inv, TypeOK, SlotsAgree, LinkIsCurrent, TimerAgrees, Pursued, Moving,
       Dormant, DormantHoldsNothing, InFlight, IsCurrent, Wired
  <2> QED
    BY <2>1, <2>2
<1> QED
  BY InvInit, <1>1, PTL DEF Spec

\* The session's state has its type, whatever calls, closes and settles come in
\* whatever order.
THEOREM TypeCorrect == Spec => []TypeOK
<1>1. Inv => TypeOK
  BY DEF Inv
<1> QED
  BY <1>1, InvHolds, PTL

\* No second link beside the one held, and no dial of the session's own while
\* one is held: the epoch and identity guards of session.ts are enough.
THEOREM LinkIsUnique == Spec => []OneLink
<1>1. Inv => OneLink
  BY DEF Inv, SlotsAgree, LinkIsCurrent, OneLink, InFlight, IsCurrent, Wired
<1> QED
  BY <1>1, InvHolds, PTL

\* Whoever holds the session has something that will move it on.
THEOREM HolderIsNeverStranded == Spec => []HeldIsNeverStranded
<1>1. Inv => HeldIsNeverStranded
  BY DEF Inv, Pursued, Moving, HeldIsNeverStranded
<1> QED
  BY <1>1, InvHolds, PTL

\* A session let go of holds nothing.
THEOREM DormantIsEmpty == Spec => []DormantHoldsNothing
<1>1. Inv => DormantHoldsNothing
  BY DEF Inv, Dormant
<1> QED
  BY <1>1, InvHolds, PTL

-----------------------------------------------------------------------------
(* The give-up.                                                            *)

\* The ledger counts no failure that was not published.
Counted == ses.run =< shown

\* The down frame keeps the ledger.
LEMMA DownRun ==
  ASSUME NEW x \in Session, NEW p \in Phases
  PROVE  SetDown(x, p).run = x.run /\ SetDown(x, p).phase = p
<1> DEFINE t == Disarmed(x, p)
           w == [x EXCEPT !.phase = p, !.timer = t, !.backstop = FALSE]
<1>1. SetDown(x, p) = w
  BY DEF SetDown, LeavePhase
<1> HIDE DEF t
<1> QED
  BY <1>1 DEF Session

\* A scheduled failure is counted with the frame that publishes it, and gives up
\* only at the ceiling, or on its connector's word.
LEMMA ScheduleRun ==
  ASSUME Inv, NEW x \in Session, NEW cause \in Causes, NEW terminal \in BOOLEAN,
         ~destroyed, x.timer = "none", x.phase = "disconnected", x.run =< shown, Show(cause)
  PROVE  /\ ScheduleReconnect(x, cause, terminal).run =< shown'
         /\ ScheduleReconnect(x, cause, terminal).phase = "failed" => terminal \/ shown' = Ceiling
<1> DEFINE y == Record(x, cause)
           z == [y EXCEPT !.promise = FALSE]
           r == IF cause = "network" THEN 0 ELSE Least(x.run + 1, Ceiling)
<1>0. x.run \in 0 .. Ceiling /\ shown \in 0 .. Ceiling /\ Ceiling \in Nat
  BY RemoteSessionAssumption DEF Session, Inv, TypeOK
<1>1. r \in 0 .. Ceiling /\ r =< shown' /\ shown' \in 0 .. Ceiling
  BY <1>0 DEF Show, Least
<1>2. y \in Session /\ y.phase = "disconnected"
  BY RecordFields
<1>3. y.run = r
  BY DEF Record, Session
<1> HIDE DEF y, r
<1>4. z \in Session /\ z.run = y.run
  BY <1>2 DEF Session
<1> HIDE DEF z
<1>5. SetDown(z, "failed").run = r
  BY <1>3, <1>4, DownRun DEF Phases
<1>6. CASE terminal \/ Exhausted(y, cause)
  <2>1. ScheduleReconnect(x, cause, terminal) = SetDown(z, "failed")
    BY <1>6 DEF ScheduleReconnect, y, z
  <2>2. ~terminal => shown' = Ceiling
    <3>1. Exhausted(y, cause) => shown' = Ceiling
      BY <1>0, <1>1, <1>3 DEF Exhausted
    <3> QED
      BY <1>6, <3>1
  <2> QED
    BY <1>1, <1>5, <2>1, <2>2
<1>7. CASE ~(terminal \/ Exhausted(y, cause))
  <2>1. ScheduleReconnect(x, cause, terminal) = [y EXCEPT !.timer = "backoff"]
    BY <1>7 DEF ScheduleReconnect, y
  <2>2. [y EXCEPT !.timer = "backoff"].run = y.run
        /\ [y EXCEPT !.timer = "backoff"].phase = "disconnected"
    BY <1>2 DEF Session
  <2> QED
    BY <1>1, <1>3, <2>1, <2>2
<1> QED
  BY <1>6, <1>7

\* The same of a dial that fails.
LEMMA FailRun ==
  ASSUME Inv, NEW x \in Session, NEW cause \in Causes, NEW terminal \in BOOLEAN,
         ~destroyed, x.timer = "none", x.run =< shown, Show(cause)
  PROVE  /\ Fail(x, cause, terminal).run =< shown'
         /\ Fail(x, cause, terminal).phase = "failed" => terminal \/ shown' = Ceiling
<1> DEFINE y == SetDown(x, "disconnected")
<1>1. "disconnected" \in Phases
  BY DEF Phases
<1>2. y \in Session /\ y.timer = "none" /\ y.phase = "disconnected" /\ y.run = x.run
  BY <1>1, DownFields, DownRun
<1>3. Fail(x, cause, terminal) = ScheduleReconnect(y, cause, terminal)
  BY DEF Fail, y
<1> HIDE DEF y
<1> QED
  BY <1>2, <1>3, ScheduleRun

\* A launch keeps the ledger.
LEMMA LaunchRun ==
  ASSUME NEW x \in Session, Launch(x)
  PROVE  ses'.run = x.run /\ ses'.phase = "opening"
<1>1. PICK d \in Dials : ses' = Attempt(x, d)
  BY DEF Launch
<1> DEFINE y == [x EXCEPT !.epoch = d, !.promise = TRUE]
           t == Disarmed(y, "opening")
           w == [y EXCEPT !.phase = "opening", !.timer = t, !.backstop = TRUE]
<1>2. y \in Session /\ y.run = x.run
  BY DEF Session
<1>3. ses' = w
  BY <1>1 DEF Attempt, SetUp, LeavePhase
<1> HIDE DEF y, t
<1> QED
  BY <1>2, <1>3 DEF Session

\* What only moves the other fields.
LEMMA CalmRun ==
  ASSUME Inv, Counted,
         \/ Pin \/ Release \/ Reconnect \/ Recheck \/ Nudge \/ Destroy \/ RetryFires
         \/ WatchdogFires \/ BackstopFires \/ LetTheLinkGo
  PROVE  ses'.run \in {0, ses.run} /\ ses'.phase \in {ses.phase, "opening"} /\ shown' = shown
<1> DEFINE idle == [ses EXCEPT !.timer = "none"]
<1>1. ses \in Session
  BY DEF Inv, TypeOK
<1>2. idle \in Session /\ idle.run = ses.run /\ idle.phase = ses.phase
  BY <1>1 DEF Session, Timers
<1>3. \A x \in Session : Success(x) \in Session /\ Success(x).run = 0
                         /\ Success(x).phase = x.phase
  BY RemoteSessionAssumption DEF Success, Session
<1>4. shown' = shown
  BY DEF Pin, Release, Reconnect, Recheck, Nudge, Destroy, RetryFires, WatchdogFires,
         BackstopFires, LetTheLinkGo
<1>5. CASE Pin
  <2>1. ses' = ses \/ Launch(idle)
    BY <1>5 DEF Pin
  <2> HIDE DEF idle
  <2> QED
    BY <1>2, <1>4, <2>1, LaunchRun
<1>6. CASE Reconnect
  <2>1. Launch(Success(ses))
    BY <1>6 DEF Reconnect
  <2> QED
    BY <1>1, <1>3, <1>4, <2>1, LaunchRun
<1>7. ASSUME Recheck PROVE ses'.run = 0 /\ ses'.phase \in {ses.phase, "opening"}
  <2>1. ses' = [Success(idle) EXCEPT !.cycling = TRUE] \/ Launch(Success(idle))
    BY <1>7 DEF Recheck
  <2> HIDE DEF idle
  <2>2. Success(idle) \in Session /\ Success(idle).run = 0 /\ Success(idle).phase = ses.phase
    BY <1>2, <1>3
  <2>3. CASE Launch(Success(idle))
    BY <2>2, <2>3, LaunchRun
  <2>4. CASE ses' = [Success(idle) EXCEPT !.cycling = TRUE]
    BY <2>2, <2>4 DEF Session
  <2> QED
    BY <2>1, <2>3, <2>4
<1>8. CASE Nudge
  <2>1. Launch(idle)
    BY <1>8 DEF Nudge
  <2> HIDE DEF idle
  <2> QED
    BY <1>2, <1>4, <2>1, LaunchRun
<1>9. CASE RetryFires
  <2>1. ses' = [idle EXCEPT !.promise = FALSE] \/ Launch(idle)
    BY <1>9 DEF RetryFires
  <2> HIDE DEF idle
  <2>2. [idle EXCEPT !.promise = FALSE].run = ses.run /\ [idle EXCEPT !.promise = FALSE].phase = ses.phase
    BY <1>2 DEF Session
  <2> QED
    BY <1>2, <1>4, <2>1, <2>2, LaunchRun
<1>10. CASE WatchdogFires \/ Release \/ Destroy \/ LetTheLinkGo
  BY <1>1, <1>4, <1>10 DEF WatchdogFires, Release, Destroy, LetTheLinkGo, Session
<1>11. CASE BackstopFires
  <2>1. Recheck \/ ses' = [ses EXCEPT !.backstop = FALSE]
    BY <1>11 DEF BackstopFires
  <2>2. [ses EXCEPT !.backstop = FALSE].run = ses.run /\ [ses EXCEPT !.backstop = FALSE].phase = ses.phase
    BY <1>1 DEF Session
  <2> QED
    BY <1>4, <1>7, <2>1, <2>2
<1> QED
  BY <1>4, <1>5, <1>6, <1>7, <1>8, <1>9, <1>10, <1>11

\* A link that becomes connected starts the count anew.
LEMMA EnterRun ==
  ASSUME NEW x \in Session
  PROVE  EnterConnected(x).run = 0
<1> DEFINE y == [x EXCEPT !.run = 0]
           t == Disarmed(y, "connected")
           w == [y EXCEPT !.phase = "connected", !.timer = t, !.backstop = FALSE]
<1>1. y \in Session /\ y.run = 0
  BY RemoteSessionAssumption DEF Session
<1>2. EnterConnected(x) = w
  BY DEF EnterConnected, Success, SetUp, LeavePhase
<1> HIDE DEF y, t
<1> QED
  BY <1>1, <1>2 DEF Session

\* Every step of a dial keeps the count and earns its give-up.
LEMMA DialRun ==
  ASSUME Inv, Counted, NEW d \in Dials,
         Connecting(d) \/ Superseded(d) \/ Outcome(d) \/ Die(d) \/ MarkConnected
  PROVE  /\ ses'.run =< shown'
         /\ ses'.phase = "failed" => ses.phase = "failed" \/ shown' = Ceiling \/ DialFailsForGood(d)
<1> USE DEF None
<1>1. ses \in Session /\ ses.run \in 0 .. Ceiling /\ shown \in 0 .. Ceiling /\ ses.run =< shown
      /\ Ceiling \in Nat
  BY RemoteSessionAssumption DEF Inv, TypeOK, Session, Counted
<1>2. Success(ses) \in Session /\ Success(ses).run = 0 /\ Success(ses).timer = ses.timer
  BY RemoteSessionAssumption, <1>1 DEF Success, Session
<1>3. CASE Connecting(d)
  <2> DEFINE t == Disarmed(ses, "connecting")
             w == [ses EXCEPT !.phase = "connecting", !.timer = t, !.backstop = TRUE]
  <2>1. ses' = w /\ shown' = shown
    BY <1>3 DEF Connecting, SetUp, LeavePhase
  <2> HIDE DEF t
  <2> QED
    BY <1>1, <2>1 DEF Session
<1>4. CASE Superseded(d) \/ Die(d) \/ AskAdmit(d)
  BY <1>1, <1>4 DEF Superseded, Die, AskAdmit
<1>5. CASE DialAbsent(d)
  <2> DEFINE y == SetDown(ses, "absent")
  <2>1. "absent" \in Phases
    BY DEF Phases
  <2>2. y \in Session /\ y.run = ses.run /\ y.phase = "absent"
    BY <1>1, <2>1, DownRun, SetDownFields
  <2>3. ses' \in {y, [y EXCEPT !.promise = FALSE, !.timer = "probe"]} /\ shown' = shown
    BY <1>5 DEF DialAbsent, ScheduleAbsentProbe
  <2> HIDE DEF y
  <2>4. [y EXCEPT !.promise = FALSE, !.timer = "probe"].run = y.run
        /\ [y EXCEPT !.promise = FALSE, !.timer = "probe"].phase = y.phase
    BY <2>2 DEF Session
  <2> QED
    BY <1>1, <2>2, <2>3, <2>4
<1>6. CASE DialFails(d) \/ DialFailsForGood(d)
  <2>1. InFlight(d) /\ IsCurrent(d)
    BY <1>6 DEF DialFails, DialFailsForGood, InFlight
  <2>2. ses.timer = "none" /\ ~destroyed
    BY <2>1 DEF Inv, TimerAgrees, IsCurrent
  <2>3. CASE DialFails(d)
    <3>1. PICK cause \in Causes : ses' = Fail(ses, cause, FALSE) /\ Show(cause)
      BY <2>3 DEF DialFails
    <3> QED
      BY <1>1, <2>2, <3>1, FailRun
  <2>4. CASE DialFailsForGood(d)
    <3>1. PICK cause \in Causes : ses' = Fail(ses, cause, TRUE) /\ Show(cause)
      BY <2>4 DEF DialFailsForGood
    <3> QED
      BY <1>1, <2>2, <2>4, <3>1, FailRun
  <2> QED
    BY <1>6, <2>3, <2>4
<1>7. CASE DialReturns(d)
  BY <1>1, <1>7 DEF DialReturns, Session
<1>8. CASE AdmitFails(d) \/ Replaced(d)
  <2>1. InFlight(d) /\ IsCurrent(d)
    BY <1>8 DEF AdmitFails, Replaced, InFlight
  <2>2. ses.timer = "none" /\ ~destroyed
    BY <2>1 DEF Inv, TimerAgrees, IsCurrent
  <2>3. "network" \in Causes
    BY DEF Causes
  <2>4. PICK x \in {ses, Success(ses)} : ses' = Fail(x, "network", FALSE) /\ Show("network")
    BY <1>8 DEF AdmitFails, Replaced
  <2>5. x \in Session /\ x.timer = "none" /\ x.run =< shown
    BY <1>1, <1>2, <2>2, <2>4
  <2> QED
    BY <2>2, <2>3, <2>4, <2>5, FailRun
<1>9. CASE Adopt(d) \/ MarkConnected
  <2>1. [ses EXCEPT !.current = d] \in Session
    BY <1>1 DEF Session
  <2>2. PICK x \in Session : ses' = EnterConnected(x)
    BY <1>1, <1>9, <2>1 DEF Adopt, MarkConnected
  <2>3. shown' = 0
    BY <1>9 DEF Adopt, MarkConnected
  <2>4. ses'.run = 0 /\ ses'.phase = "connected"
    BY <2>2, EnterFields, EnterRun
  <2> QED
    BY <2>3, <2>4
<1>10. CASE Refuse(d)
  <2> DEFINE x == [ses EXCEPT !.current = d]
  <2>1. x \in Session
    BY <1>1 DEF Session
  <2> HIDE DEF x
  <2>2. Success(x) \in Session /\ Success(x).run = 0
    BY <2>1, RemoteSessionAssumption DEF Success, Session
  <2>3. ses' = SetDown(Success(x), "disconnected") /\ shown' = shown
    BY <1>10 DEF Refuse, x
  <2>4. ses'.run = 0 /\ ses'.phase = "disconnected"
    BY <2>2, <2>3, DownRun DEF Phases
  <2> QED
    BY <1>1, <2>3, <2>4
<1> QED
  BY <1>3, <1>4, <1>5, <1>6, <1>7, <1>8, <1>9, <1>10 DEF Outcome

\* So does a close.
LEMMA CloseRun ==
  ASSUME Inv, Counted, NEW d \in Dials, Closed(d)
  PROVE  /\ ses'.run =< shown'
         /\ ses'.phase = "failed" => ses.phase = "failed" \/ shown' = Ceiling
<1>1. ses \in Session /\ ses.run \in 0 .. Ceiling /\ shown \in 0 .. Ceiling /\ ses.run =< shown
  BY DEF Inv, TypeOK, Session, Counted
<1>2. CASE ses.current # d
  BY <1>1, <1>2 DEF Closed
<1>3. CASE ses.current = d
  <2>1. ses.timer = "none" \/ ses.phase = "connecting"
    BY <1>1, <1>3 DEF Inv, TimerAgrees, Session, Timers, None, Dials
  <2>2. LinkLost \in Session /\ LinkLost.timer = "none" /\ LinkLost.phase = "disconnected"
    BY <1>1, <2>1, LostFields
  <2>3. LinkLost.run = ses.run
    <3> DEFINE y == SetDown(ses, "disconnected")
               t == ses.cycling /\ ses.timedOut
    <3>1. "disconnected" \in Phases
      BY DEF Phases
    <3>2. y \in Session /\ y.run = ses.run
      BY <1>1, <3>1, DownRun, SetDownFields
    <3>3. LinkLost = [y EXCEPT !.current = None, !.promise = FALSE, !.cycling = FALSE, !.timedOut = t]
      BY DEF LinkLost
    <3> HIDE DEF y, t
    <3> QED
      BY <3>2, <3>3 DEF Session
  <2>4. CASE destroyed \/ refs = 0
    BY <1>1, <1>3, <2>2, <2>3, <2>4 DEF Closed
  <2>5. CASE ~destroyed /\ refs # 0
    <3>1. PICK cause \in CloseCauses :
            ses' = ScheduleReconnect(LinkLost, cause, FALSE) /\ Show(cause)
      BY <1>3, <2>5 DEF Closed
    <3>2. cause \in Causes
      BY <3>1 DEF CloseCauses, Causes
    <3> QED
      BY <1>1, <2>2, <2>3, <2>5, <3>1, <3>2, ScheduleRun
  <2> QED
    BY <2>4, <2>5
<1> QED
  BY <1>2, <1>3

\* A session that has given up was told so by its connector, or has published as
\* many remote failures in a row as the ceiling says: no reset, supersession or
\* late close lets a failure count twice, or one that nobody saw.
THEOREM GiveUpsAreEarned == Spec => GiveUpIsEarned
<1> DEFINE Earned == ses.phase # "failed" /\ ses'.phase = "failed"
                       => shown' = Ceiling \/ \E d \in Dials : DialFailsForGood(d)
<1>1. Init => Counted
  BY DEF Init, Counted
<1>2. Inv /\ Counted /\ [Next]_vars => Counted' /\ [Earned]_vars
  <2> SUFFICES ASSUME Inv, Counted, [Next]_vars PROVE Counted' /\ Earned
    OBVIOUS
  <2>1. ASSUME NEW d \in Dials,
               Connecting(d) \/ Superseded(d) \/ Outcome(d) \/ Die(d) \/ MarkConnected
        PROVE  Counted' /\ Earned
    BY <2>1, DialRun DEF Counted
  <2>2. ASSUME NEW d \in Dials, Closed(d) PROVE Counted' /\ Earned
    BY <2>2, CloseRun DEF Counted
  <2>3. CASE \/ Pin \/ Release \/ Reconnect \/ Recheck \/ Nudge \/ Destroy \/ RetryFires
             \/ WatchdogFires \/ BackstopFires \/ LetTheLinkGo
    <3>1. ses'.run \in {0, ses.run} /\ ses'.phase \in {ses.phase, "opening"} /\ shown' = shown
      BY <2>3, CalmRun
    <3>2. shown \in Nat
      BY RemoteSessionAssumption DEF Inv, TypeOK
    <3> QED
      BY <3>1, <3>2 DEF Counted
  <2>4. CASE MarkConnected
    <3>1. 1 \in Dials
      BY RemoteSessionAssumption DEF Dials
    <3> QED
      BY <2>1, <2>4, <3>1
  <2>5. CASE UNCHANGED vars
    BY <2>5 DEF vars, Counted
  <2> QED
    BY <2>1, <2>2, <2>3, <2>4, <2>5 DEF Next
<1>3. GiveUpIsEarned <=> [][Earned]_vars
  BY DEF GiveUpIsEarned
<1> QED
  BY <1>1, <1>2, <1>3, InvHolds, PTL DEF Spec
=============================================================================
