------------------------- MODULE DaemonTenureProofs -------------------------
(***************************************************************************)
(* Proofs about DaemonTenure, for every lifetime, every number of misses   *)
(* and idle polls, and any signals: the teardown's order, the exit code    *)
(* and the proof of absence.                                               *)
(***************************************************************************)
EXTENDS DaemonTenure, SequenceTheorems, TLAPS

-----------------------------------------------------------------------------
(* Types.                                                                  *)

\* The three parts of TypeOK, strengthened: a trigger that is armed has not fired,
\* and a trigger that counts is below its limit until it fires.  (Booleans are
\* compared with FALSE and TRUE where they meet other values: the provers take
\* such a comparison for one of terms.)
Switches ==
  /\ armed \in BOOLEAN /\ socket \in BOOLEAN /\ gate \in BOOLEAN /\ wedged \in BOOLEAN
  /\ faulted \in BOOLEAN /\ aborted \in BOOLEAN /\ bindAlive \in BOOLEAN
  /\ busy \in BOOLEAN /\ announced \in BOOLEAN /\ faultedFirst \in BOOLEAN

Modes ==
  /\ lifetime \in Lifetimes
  /\ phase \in {"bound", "waiting", "closing", "releasing", "returned", "exiting"}
  /\ reason \in Reasons \cup {None}
  /\ process \in {"up", "exit 0", "exit 1", "signalled", "reaped"}
  /\ watchdog \in {"watching", "grace", "over"}
  /\ anchor \in AnchorStates
  /\ armed = FALSE \/ (phase = "waiting" /\ reason = None)

Counts ==
  /\ misses \in 0 .. MissesToExit /\ idleFor \in -1 .. IdlePolls
  /\ signals \in 0 .. MaxSignals
  /\ lastPolls \in Seq(AnchorStates) /\ Len(lastPolls) =< MissesToExit
  /\ phase \in {"bound", "waiting"} => misses < MissesToExit /\ idleFor < IdlePolls

\* The last answers of the anchor poll, at most MissesToExit of them.
Recent(a) == LET s == Append(lastPolls, a) IN
               SubSeq(s, IF Len(s) > MissesToExit THEN 2 ELSE 1, Len(s))

LEMMA RecentIs ==
  ASSUME NEW a \in AnchorStates, lastPolls \in Seq(AnchorStates),
         Len(lastPolls) =< MissesToExit
  PROVE  /\ Recent(a) \in Seq(AnchorStates)
         /\ Len(Recent(a)) \in 1 .. MissesToExit
         /\ Len(Recent(a)) =< Len(lastPolls) + 1
         /\ Len(lastPolls) < MissesToExit => Len(Recent(a)) = Len(lastPolls) + 1
         /\ Len(lastPolls) = MissesToExit => Len(Recent(a)) = Len(lastPolls)
         /\ Recent(a)[Len(Recent(a))] = a
         /\ \A i \in 1 .. Len(Recent(a)) - 1 :
              Recent(a)[i] = lastPolls[i + Len(lastPolls) + 1 - Len(Recent(a))]
<1>. DEFINE s == Append(lastPolls, a)
            n == Len(lastPolls)
            m == IF n + 1 > MissesToExit THEN 2 ELSE 1
<1>1. /\ s \in Seq(AnchorStates) /\ Len(s) = n + 1 /\ n \in Nat /\ s[n + 1] = a
      /\ \A i \in 1 .. n : s[i] = lastPolls[i]
  OBVIOUS
<1>2. MissesToExit \in Nat \ {0}
  BY TenureAssumption
<1>3. m \in 1 .. Len(s) + 1 /\ Len(s) \in m - 1 .. Len(s) /\ m =< n + 1
  BY <1>1, <1>2
<1>4. Recent(a) = SubSeq(s, m, Len(s))
  BY <1>1 DEF Recent
<1>. HIDE DEF s, n
<1>5. /\ SubSeq(s, m, Len(s)) \in Seq(AnchorStates)
      /\ Len(SubSeq(s, m, Len(s))) = Len(s) - m + 1
      /\ \A i \in 1 .. Len(s) - m + 1 : SubSeq(s, m, Len(s))[i] = s[m + i - 1]
  BY <1>1, <1>3, SubSeqProperties
<1>6. Recent(a) \in Seq(AnchorStates) /\ Len(Recent(a)) = n + 2 - m
  BY <1>1, <1>3, <1>4, <1>5
<1>7. \A i \in 1 .. n + 2 - m : Recent(a)[i] = s[m + i - 1]
  BY <1>1, <1>3, <1>4, <1>5
<1>8. m \in {1, 2} /\ (n < MissesToExit <=> m = 1) /\ n =< MissesToExit
  BY <1>1, <1>2 DEF n
<1>. HIDE DEF m
<1>9. n + 2 - m \in 1 .. MissesToExit /\ n + 2 - m =< n + 1
  BY <1>1, <1>2, <1>3, <1>8
<1>10. Recent(a)[n + 2 - m] = a
  <2>1. Recent(a)[n + 2 - m] = s[m + (n + 2 - m) - 1]
    BY <1>7, <1>9
  <2>2. m + (n + 2 - m) - 1 = n + 1
    BY <1>1, <1>8
  <2>. QED  BY <1>1, <2>1, <2>2
<1>11. \A i \in 1 .. n + 1 - m : Recent(a)[i] = lastPolls[i + n + 1 - (n + 2 - m)]
  <2>. SUFFICES ASSUME NEW i \in 1 .. n + 1 - m
                PROVE  Recent(a)[i] = lastPolls[i + n + 1 - (n + 2 - m)]
    OBVIOUS
  <2>1. i \in 1 .. n + 2 - m /\ m + i - 1 \in 1 .. n /\ i + n + 1 - (n + 2 - m) = m + i - 1
    BY <1>1, <1>8
  <2>. QED  BY <1>1, <1>7, <2>1
<1>12. n + 2 - m - 1 = n + 1 - m
  BY <1>1, <1>8
<1>. QED  BY <1>1, <1>6, <1>8, <1>9, <1>10, <1>11, <1>12 DEF n

\* What an anchor poll does, with its answers under their name.
LEMMA PollIs ==
  ASSUME AnchorPoll
  PROVE  /\ armed /\ Up
         /\ misses' = IF anchor = "gone" THEN misses + 1 ELSE 0
         /\ lastPolls' = Recent(anchor)
         /\ IF misses' >= MissesToExit
            THEN Finish("anchor-gone")
            ELSE UNCHANGED <<reason, armed, phase>>
         /\ UNCHANGED <<lifetime, idleFor, socket, gate, process, wedged, watchdog, worldVars,
                        announced, faultedFirst>>
BY DEF AnchorPoll, Waiting, Running, Recent

LEMMA TypeInit == Init => Switches /\ Modes /\ Counts
<1>1. Init => Switches
  BY DEF Init, Switches
<1>2. Init => Modes
  BY TenureAssumption DEF Init, Modes, Reasons, None, AnchorStates
<1>3. Init => Counts
  BY TenureAssumption DEF Init, Counts
<1>. QED  BY <1>1, <1>2, <1>3

LEMMA SwitchesStep ==
  ASSUME Switches, Next \/ UNCHANGED vars
  PROVE  Switches'
<1>. USE DEF worldVars, histVars, daemonVars
<1>1. CASE ArmAndAnnounce
  BY <1>1 DEF ArmAndAnnounce, OverAtArming, Switches
<1>2. CASE AnchorPoll
  BY <1>2, PollIs DEF Finish, Switches
<1>3. CASE IdlePoll
  BY <1>3 DEF IdlePoll, Waiting, Finish, Switches
<1>4. CASE BindPoll
  BY <1>4 DEF BindPoll, Waiting, Finish, Switches
<1>5. CASE CloseListener \/ ReleaseGate
  BY <1>5 DEF CloseListener, ReleaseGate, Switches
<1>6. CASE StandDown \/ Exit
  BY <1>6, ZenonT(30) DEF StandDown, Exit, Switches
<1>7. CASE WatchTick \/ GraceOver
  BY <1>7 DEF WatchTick, GraceOver, Switches
<1>8. CASE ReadyThrows
  BY <1>8 DEF ReadyThrows, Switches
<1>9. CASE Signal
  BY <1>9 DEF Signal, Finish, Switches
<1>10. CASE Fault \/ Abort
  BY <1>10 DEF Fault, Abort, Finish, Switches
<1>11. CASE Wedge \/ BindDies
  BY <1>11 DEF Wedge, BindDies, Switches
<1>12. CASE AnchorChanges \/ Activity
  BY <1>12, ZenonT(30) DEF AnchorChanges, Activity, Switches
<1>13. CASE UNCHANGED vars
  BY <1>13 DEF vars, Switches
<1>. QED
  BY <1>1, <1>2, <1>3, <1>4, <1>5, <1>6, <1>7,
     <1>8, <1>9, <1>10, <1>11, <1>12, <1>13 DEF Next, Loop, Sibling

LEMMA ModesStep ==
  ASSUME Modes, Next \/ UNCHANGED vars
  PROVE  Modes'
<1>. USE DEF Reasons, None, AnchorStates, worldVars, histVars, daemonVars
<1>1. CASE ArmAndAnnounce
  BY <1>1 DEF ArmAndAnnounce, OverAtArming, Modes
<1>2. CASE AnchorPoll
  BY <1>2, PollIs DEF Finish, Modes
<1>3. CASE IdlePoll
  BY <1>3 DEF IdlePoll, Waiting, Finish, Modes
<1>4. CASE BindPoll
  BY <1>4 DEF BindPoll, Waiting, Finish, Modes
<1>5. CASE CloseListener \/ ReleaseGate
  BY <1>5 DEF CloseListener, ReleaseGate, Modes
<1>6. CASE StandDown \/ Exit
  BY <1>6 DEF StandDown, Exit, Modes
<1>7. CASE WatchTick \/ GraceOver
  BY <1>7 DEF WatchTick, GraceOver, Modes
<1>8. CASE ReadyThrows
  BY <1>8 DEF ReadyThrows, Modes
<1>9. CASE Signal
  BY <1>9 DEF Signal, Finish, Modes
<1>10. CASE Fault \/ Abort
  BY <1>10 DEF Fault, Abort, Finish, Modes
<1>11. CASE Wedge \/ BindDies
  BY <1>11 DEF Wedge, BindDies, Modes
<1>12. CASE AnchorChanges \/ Activity
  BY <1>12 DEF AnchorChanges, Activity, Modes
<1>13. CASE UNCHANGED vars
  BY <1>13 DEF vars, Modes
<1>. QED
  BY <1>1, <1>2, <1>3, <1>4, <1>5, <1>6, <1>7,
     <1>8, <1>9, <1>10, <1>11, <1>12, <1>13 DEF Next, Loop, Sibling

LEMMA CountsStep ==
  ASSUME Modes, Counts, Next \/ UNCHANGED vars
  PROVE  Counts'
<1>. USE DEF worldVars, histVars, daemonVars
<1>1. CASE AnchorPoll
  <2>1. phase = "waiting"
    BY <1>1, PollIs DEF Modes
  <2>2. misses \in 0 .. MissesToExit - 1
    BY <2>1, TenureAssumption DEF Counts
  <2>3. lastPolls' = Recent(anchor) /\ UNCHANGED <<idleFor, signals>>
        /\ misses' \in {0, misses + 1}
        /\ (misses' >= MissesToExit => phase' = "closing")
    BY <1>1, PollIs DEF Finish
  <2>4. lastPolls' \in Seq(AnchorStates) /\ Len(lastPolls') =< MissesToExit
    <3>1. anchor \in AnchorStates /\ lastPolls \in Seq(AnchorStates) /\ Len(lastPolls) =< MissesToExit
      BY DEF Modes, Counts
    <3>2. Recent(anchor) \in Seq(AnchorStates) /\ Len(Recent(anchor)) \in 1 .. MissesToExit
      BY <3>1, RecentIs
    <3>. QED  BY <2>3, <3>2, TenureAssumption
  <2>5. misses' \in 0 .. MissesToExit /\ (phase' \in {"bound", "waiting"} => misses' < MissesToExit)
    BY <2>2, <2>3, TenureAssumption
  <2>. QED  BY <2>1, <2>3, <2>4, <2>5 DEF Counts
<1>2. CASE IdlePoll
  <2>1. phase = "waiting"
    BY <1>2 DEF IdlePoll, Waiting, Modes
  <2>2. UNCHANGED <<misses, signals, lastPolls>>
    BY <1>2 DEF IdlePoll
  <2>3. idleFor' \in {-1, idleFor + 1} /\ (idleFor' >= IdlePolls => phase' = "closing")
    BY <1>2 DEF IdlePoll, Finish
  <2>. QED  BY <2>1, <2>2, <2>3, TenureAssumption DEF Counts
<1>3. CASE Signal
  <2>1. UNCHANGED <<misses, idleFor, lastPolls>> /\ signals' = signals + 1
        /\ signals < MaxSignals /\ phase' \in {phase, "closing"}
    BY <1>3 DEF Signal, Finish
  <2>. QED  BY <2>1, TenureAssumption DEF Counts
<1>4. CASE ~(AnchorPoll \/ IdlePoll \/ Signal)
  <2>1. /\ UNCHANGED <<misses, idleFor, signals, lastPolls>>
        /\ phase' \in {"bound", "waiting"} => phase \in {"bound", "waiting"}
    BY <1>4 DEF Next, Loop, Sibling, ArmAndAnnounce, BindPoll, CloseListener, ReleaseGate,
                StandDown, Exit, WatchTick, GraceOver, ReadyThrows, Fault, Abort, Wedge,
                BindDies, AnchorChanges, Activity, Finish, vars
  <2>. QED  BY <2>1 DEF Counts
<1>. QED  BY <1>1, <1>2, <1>3, <1>4

\* Every reachable state is well-typed; in particular no trigger that counts
\* goes past its limit.
THEOREM TypeCorrect == Spec => []TypeOK
<1>1. Init => Switches /\ Modes /\ Counts
  BY TypeInit
<1>2. (Switches /\ Modes /\ Counts) /\ [Next]_vars => (Switches /\ Modes /\ Counts)'
  BY SwitchesStep, ModesStep, CountsStep
<1>3. Switches /\ Modes /\ Counts => TypeOK
  BY DEF Switches, Modes, Counts, TypeOK
<1>. QED  BY <1>1, <1>2, <1>3, PTL DEF Spec

-----------------------------------------------------------------------------
(* The order of the end.                                                   *)

\* The teardown has done what its phases say, an announced daemon has its
\* handlers until it decides to stop, and a fault before the arming is decided
\* on at the arming.
Ordered ==
  /\ phase = "releasing" => socket = FALSE
  /\ phase \in {"returned", "exiting"} => socket = FALSE /\ gate = FALSE
  /\ process \in {"exit 0", "exit 1"} => phase = "exiting"
  /\ phase = "waiting" => armed = TRUE
  /\ phase = "bound" => announced = FALSE /\ faultedFirst = FALSE /\ armed = FALSE
  /\ faultedFirst = FALSE \/ reason = "runtime-fault"
  /\ process = "exit 0" => reason # "runtime-fault"
  /\ process = "signalled" => phase # "waiting"

LEMMA OrderedInit == Init => Ordered
BY DEF Init, Ordered

LEMMA OrderedStep ==
  ASSUME Switches, Modes, Ordered, Next \/ UNCHANGED vars
  PROVE  Ordered'
<1>. USE DEF None, worldVars, histVars, daemonVars, Up, Running
<1>1. CASE ArmAndAnnounce
  <2>1. /\ process = "up" /\ phase = "bound" /\ process' = process
        /\ faultedFirst' = faulted /\ reason' = OverAtArming
    BY <1>1 DEF ArmAndAnnounce
  <2>2. CASE reason' = None
    BY <1>1, <2>1, <2>2 DEF ArmAndAnnounce, OverAtArming, Ordered, Switches
  <2>3. CASE reason' # None
    <3>1. phase' = "closing"
      BY <1>1, <2>3 DEF ArmAndAnnounce
    <3>2. faulted = FALSE \/ reason' = "runtime-fault"
      BY <2>1 DEF OverAtArming, Switches
    <3>. QED  BY <2>1, <3>1, <3>2 DEF Ordered
  <2>. QED  BY <2>2, <2>3
<1>2. CASE AnchorPoll
  BY <1>2, PollIs DEF Finish, Ordered, Modes
<1>3. CASE IdlePoll
  BY <1>3 DEF IdlePoll, Waiting, Finish, Ordered, Modes
<1>4. CASE BindPoll
  BY <1>4 DEF BindPoll, Waiting, Finish, Ordered, Modes
<1>5. CASE CloseListener
  BY <1>5 DEF CloseListener, Ordered
<1>6. CASE ReleaseGate
  BY <1>6 DEF ReleaseGate, Ordered
<1>7. CASE StandDown
  BY <1>7 DEF StandDown, Ordered
<1>8. CASE Exit
  BY <1>8 DEF Exit, Ordered
<1>9. CASE Sibling
  BY <1>9 DEF Sibling, WatchTick, GraceOver, Ordered
<1>10. CASE ReadyThrows
  BY <1>10 DEF ReadyThrows, OverAtArming, Ordered
<1>11. CASE Signal
  BY <1>11 DEF Signal, Finish, Ordered, Modes
<1>12. CASE Fault \/ Abort
  BY <1>12 DEF Fault, Abort, Finish, Ordered, Modes
<1>13. CASE Wedge \/ BindDies \/ AnchorChanges \/ Activity \/ UNCHANGED vars
  BY <1>13 DEF Wedge, BindDies, AnchorChanges, Activity, vars, Ordered
<1>. QED
  BY <1>1, <1>2, <1>3, <1>4, <1>5, <1>6, <1>7, <1>8, <1>9, <1>10, <1>11, <1>12, <1>13
     DEF Next, Loop, Sibling

\* Whatever ends a daemon and in whatever order it comes: an exit leaves neither
\* file behind, a fault that came before the arming is never reported as a
\* success, and a daemon of any lifetime that announced itself is not ended by
\* the default disposition of a signal before it has decided to stop.
THEOREM EndIsInOrder == Spec => []EndsInOrder
<1>1. Init => Switches /\ Modes /\ Counts /\ Ordered
  BY TypeInit, OrderedInit
<1>2. (Switches /\ Modes /\ Counts /\ Ordered) /\ [Next]_vars
        => (Switches /\ Modes /\ Counts /\ Ordered)'
  BY SwitchesStep, ModesStep, CountsStep, OrderedStep
<1>3. Switches /\ Ordered => EndsInOrder
  BY DEF Switches, Ordered, EndsInOrder, ExitLeavesNothing, AnnouncedIsSignalSafe, FaultIsNeverSuccess
<1>. QED  BY <1>1, <1>2, <1>3, PTL DEF Spec

-----------------------------------------------------------------------------
(* The proof of absence.                                                   *)

\* Each miss that is counted is one of the last answers.
MissesAreAnswers ==
  /\ misses =< Len(lastPolls)
  /\ \A i \in 1 .. Len(lastPolls) : i > Len(lastPolls) - misses => lastPolls[i] = "gone"

LEMMA PollCounts ==
  ASSUME Modes, Counts, MissesAreAnswers, AnchorPoll
  PROVE  MissesAreAnswers'
<1>. DEFINE n == Len(lastPolls)
            n2 == Len(Recent(anchor))
<1>0. phase = "waiting" /\ anchor \in AnchorStates
  <2>1. armed
    BY PollIs
  <2>. QED  BY <2>1 DEF Modes
<1>1. /\ anchor \in AnchorStates /\ lastPolls \in Seq(AnchorStates)
      /\ n =< MissesToExit /\ n \in Nat /\ misses \in Nat /\ misses < MissesToExit
  BY <1>0, TenureAssumption DEF Counts
<1>2. /\ n2 \in 1 .. MissesToExit /\ n2 =< n + 1 /\ (n < MissesToExit => n2 = n + 1)
      /\ n = MissesToExit => n2 = n
      /\ Recent(anchor)[n2] = anchor
      /\ \A i \in 1 .. n2 - 1 : Recent(anchor)[i] = lastPolls[i + n + 1 - n2]
  BY <1>1, RecentIs
<1>. HIDE DEF n, n2
<1>3. CASE anchor = "gone"
  <2>1. misses' = misses + 1 /\ lastPolls' = Recent(anchor)
    BY <1>3, PollIs
  <2>2. misses =< n /\ \A i \in 1 .. n : i > n - misses => lastPolls[i] = "gone"
    BY DEF MissesAreAnswers, n
  <2>3. misses + 1 =< n2
    BY <1>1, <1>2, <2>2, TenureAssumption
  <2>4. ASSUME NEW i \in 1 .. n2, i > n2 - (misses + 1) PROVE Recent(anchor)[i] = "gone"
    <3>1. CASE i = n2
      BY <1>2, <1>3, <3>1
    <3>2. CASE i # n2
      <4>1. i \in 1 .. n2 - 1 /\ i + n + 1 - n2 \in 1 .. n /\ i + n + 1 - n2 > n - misses
        BY <1>1, <1>2, <2>4, <3>2
      <4>. QED  BY <1>2, <2>2, <4>1
    <3>. QED  BY <3>1, <3>2
  <2>. QED  BY <2>1, <2>3, <2>4 DEF MissesAreAnswers, n2
<1>4. CASE anchor # "gone"
  <2>1. misses' = 0 /\ lastPolls' = Recent(anchor)
    BY <1>4, PollIs
  <2>. QED  BY <1>2, <2>1 DEF MissesAreAnswers, n2
<1>. QED  BY <1>3, <1>4

LEMMA MissesStep ==
  ASSUME Modes, Counts, MissesAreAnswers, Next \/ UNCHANGED vars
  PROVE  MissesAreAnswers'
<1>1. CASE AnchorPoll
  BY <1>1, PollCounts
<1>2. CASE ~AnchorPoll
  <2>1. UNCHANGED <<misses, lastPolls>>
    BY <1>2 DEF Next, Loop, Sibling, ArmAndAnnounce, IdlePoll, BindPoll, CloseListener,
                ReleaseGate, StandDown, Exit, WatchTick, GraceOver, ReadyThrows, Signal, Fault,
                Abort, Wedge, BindDies, AnchorChanges, Activity, worldVars, histVars,
                daemonVars, vars
  <2>. QED  BY <2>1 DEF MissesAreAnswers
<1>. QED  BY <1>1, <1>2

\* A daemon that ends because its anchor is gone has that many answers in a row
\* to show for it: a transient error or a directory that was away for one poll
\* ends no daemon, whatever else happened in between.
THEOREM AbsenceProven == Spec => []AbsenceIsProven
<1>. DEFINE I == Switches /\ Modes /\ Counts /\ MissesAreAnswers /\ AbsenceIsProven
<1>1. Init => I
  BY TypeInit DEF Init, MissesAreAnswers, AbsenceIsProven, None
<1>2. I /\ [Next]_vars => I'
  <2>. SUFFICES ASSUME I, Next \/ UNCHANGED vars PROVE AbsenceIsProven' /\ MissesAreAnswers'
    BY SwitchesStep, ModesStep, CountsStep
  <2>1. MissesAreAnswers'
    BY MissesStep
  <2>2. Modes /\ Counts /\ Counts'
    BY CountsStep
  <2>3. CASE AnchorPoll /\ reason' = "anchor-gone"
    <3>1. armed /\ reason = None /\ misses' \in 0 .. MissesToExit
      BY <2>2, <2>3, PollIs DEF Modes, Counts
    <3>2. misses' = MissesToExit
      <4>1. misses' >= MissesToExit
        BY <2>3, <3>1, PollIs DEF None
      <4>. QED  BY <3>1, <4>1, TenureAssumption
    <3>4. lastPolls' \in Seq(AnchorStates) /\ Len(lastPolls') = MissesToExit
      <4>1. lastPolls' \in Seq(AnchorStates) /\ Len(lastPolls') =< MissesToExit
        BY <2>2 DEF Counts
      <4>2. MissesToExit =< Len(lastPolls')
        BY <2>1, <3>2 DEF MissesAreAnswers
      <4>. QED  BY <4>1, <4>2, TenureAssumption
    <3>5. \A i \in 1 .. MissesToExit : lastPolls'[i] = "gone"
      BY <2>1, <3>2, <3>4, TenureAssumption DEF MissesAreAnswers
    <3>3. lastPolls' = [i \in 1 .. MissesToExit |-> "gone"]
      BY <3>4, <3>5
    <3>. QED  BY <2>1, <3>3 DEF AbsenceIsProven
  <2>4. CASE AnchorPoll /\ reason' # "anchor-gone"
    BY <2>1, <2>4 DEF AbsenceIsProven
  <2>5. CASE ~AnchorPoll
    <3>1. lastPolls' = lastPolls /\ (reason' = "anchor-gone" => reason = "anchor-gone")
      BY <2>5 DEF Next, Loop, Sibling, ArmAndAnnounce, OverAtArming, IdlePoll, BindPoll,
                  CloseListener, ReleaseGate, StandDown, Exit, WatchTick, GraceOver,
                  ReadyThrows, Signal, Fault, Abort, Wedge, BindDies, AnchorChanges, Activity,
                  Finish, None, worldVars, histVars, daemonVars, vars
    <3>. QED  BY <2>1, <3>1 DEF AbsenceIsProven
  <2>. QED  BY <2>3, <2>4, <2>5
<1>. QED  BY <1>1, <1>2, PTL DEF Spec
=============================================================================
