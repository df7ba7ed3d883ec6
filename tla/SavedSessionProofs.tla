------------------------- MODULE SavedSessionProofs -------------------------
(***************************************************************************)
(* Proofs about SavedSession, for every set of terminals and every bound:  *)
(* the types, for all Scenarios; and, for the combinations of mishaps      *)
(* named in front of each theorem, that a parked row is always one the     *)
(* saved session offers, that no terminal stands twice, that nothing the   *)
(* user still has is missing from the disk, and that what runs is on disk  *)
(* or a save of it is due.                                                 *)
(***************************************************************************)
EXTENDS SavedSession, TLAPS

USE DEF RowStates, Active

-----------------------------------------------------------------------------
(* Types *)

SessionStates == {"no", "active", "asleep"}

LEMMA SessionTypes ==
  /\ \A g \in [Rows -> RowStates] : Snapshot(g) \in [Rows -> SessionStates]
  /\ \A s, m \in [Rows -> SessionStates] : MergedWith(s, m) \in [Rows -> SessionStates]
  /\ \A S \in SUBSET Rows : ActivesOf(S) \in [Rows -> SessionStates]
  /\ Nothing \in [Rows -> SessionStates]
  /\ Empty \in [Rows -> RowStates]
BY DEF Snapshot, MergedWith, ActivesOf, Nothing, Empty, SessionStates

LEMMA CaptureType ==
  ASSUME TypeOK
  PROVE  Capture(reg) \in [Rows -> SessionStates]
<1>1. saved \in [Rows -> SessionStates] /\ Snapshot(reg) \in [Rows -> SessionStates]
  BY SessionTypes DEF TypeOK, SessionStates
<1>. QED  BY <1>1, SessionTypes DEF Capture

LEMMA ParkedOntoType ==
  ASSUME NEW rows \in [Rows -> RowStates]
  PROVE  ParkedOnto(rows) \in [Rows -> RowStates]
BY DEF ParkedOnto

\* A write leaves a session of the right shape and names terminals only.
LEMMA WritesType ==
  ASSUME NEW session \in [Rows -> SessionStates], NEW rows,
         mine \subseteq Terminals, Writes(session, rows)
  PROVE  saved' \in [Rows -> SessionStates] /\ mine' \subseteq Terminals
<1>1. \A r \in Rows : r[1] \in Terminals
  BY DEF Rows
<1>2. Named(session) \subseteq Terminals
  BY <1>1 DEF Named
<1>. QED  BY <1>2 DEF Writes

LEMMA SettlesType ==
  ASSUME TypeOK, NEW r \in Rows, NEW rows \in [Rows -> RowStates], NEW again \in SUBSET Rows,
         Settles(r, rows, again)
  PROVE  /\ saved' \in [Rows -> SessionStates] /\ mine' \subseteq Terminals
         /\ settling' = settling \ {r}
         /\ reparked' \subseteq Rows
<1>1. MergedWith(Snapshot(rows), ActivesOf(again)) \in [Rows -> SessionStates]
  BY SessionTypes
<1>2. settling' = settling \ {r} /\ reparked' \subseteq Rows
  BY DEF Settles
<1>3. CASE r \in settling
  BY <1>1, <1>2, <1>3, WritesType DEF Settles, TypeOK
<1>4. CASE r \notin settling
  BY <1>2, <1>4 DEF Settles, Keeps, TypeOK, SessionStates
<1>. QED  BY <1>3, <1>4

LEMMA DownTypes ==
  ASSUME TypeOK, Down
  PROVE  /\ up' \in BOOLEAN /\ reg' \in [Rows -> RowStates] /\ calls' \subseteq Rows
         /\ settling' \subseteq calls' /\ reparked' \subseteq Rows
         /\ timer' \in BOOLEAN /\ lease' \in BOOLEAN
         /\ restart' \in {"idle", "draining", "recycling"}
         /\ kaval' \in BOOLEAN /\ ptys' \subseteq Rows /\ paired' \in BOOLEAN
         /\ may' \in Scenarios
<1>1. PICK reached \in SUBSET calls :
        ptys' = IF kaval THEN ptys \cup {r \in reached : reg[r] \in Active} ELSE ptys
  BY DEF Down
<1>2. ptys' \subseteq Rows
  BY <1>1 DEF TypeOK
<1>. QED  BY <1>2, SessionTypes DEF Down, TypeOK

LEMMA TypeInit == Init => TypeOK
BY SessionTypes DEF Init, TypeOK, SessionStates

LEMMA TypeStep == TypeOK /\ [Next]_vars => TypeOK'
<1>. SUFFICES ASSUME TypeOK, [Next]_vars PROVE TypeOK'
  OBVIOUS
<1>. USE SessionTypes
<1>s. saved \in [Rows -> SessionStates]
  BY DEF TypeOK, SessionStates
<1>1. CASE Fires
  <2>1. saved' \in [Rows -> SessionStates] /\ mine' \subseteq Terminals
    BY <1>1, <1>s, WritesType DEF Fires, TypeOK, Keeps
  <2>. QED  BY <1>1, <2>1 DEF Fires, TypeOK, SessionStates, host
<1>2. CASE Restore
  <2>. DEFINE again == {r \in Rows : saved[r] = "active" /\ reg[r] \notin Active}
              fresh == {Next1(r) : r \in again}
              sleepers == {r \in Rows : saved[r] = "asleep" /\ reg[r] = "none"}
  <2>1. reg' = Respawned(again, fresh, sleepers) /\ fresh \subseteq Rows \ calls
    BY <1>2 DEF Restore
  <2>2. reg' \in [Rows -> RowStates]
    BY <2>1 DEF Respawned, TypeOK
  <2>3. saved' \in [Rows -> SessionStates] /\ mine' \subseteq Terminals
    BY <1>2, <2>2, WritesType DEF Restore, TypeOK
  <2>4. calls' = calls \cup fresh /\ settling' = fresh /\ reparked' = {} /\ timer' \in BOOLEAN
    BY <1>2 DEF Restore
  <2>. QED  BY <1>2, <2>1, <2>2, <2>3, <2>4 DEF Restore, TypeOK, SessionStates, host
<1>3. CASE Forfeit
  BY <1>3 DEF Forfeit, TypeOK, host, SessionStates
<1>4. ASSUME NEW t \in Terminals, Create(t) PROVE TypeOK'
  <2>1. <<t, 0>> \in Rows
    BY SavedSessionAssumption DEF Rows
  <2>. QED  BY <1>4, <2>1 DEF Create, TypeOK, host
<1>5. ASSUME NEW r \in Rows, SpawnAnswers(r) PROVE TypeOK'
  <2>1. reg' \in [Rows -> RowStates] /\ ptys' \subseteq Rows
    BY <1>5 DEF SpawnAnswers, TypeOK
  <2>2. /\ saved' \in [Rows -> SessionStates] /\ mine' \subseteq Terminals
        /\ settling' = settling \ {r} /\ reparked' \subseteq Rows
    BY <1>5, <2>1, SettlesType DEF SpawnAnswers, TypeOK
  <2>3. timer' \in BOOLEAN
    BY <1>5 DEF SpawnAnswers, TypeOK
  <2>4. settling' \subseteq calls' /\ calls' \subseteq Rows
    BY <1>5, <2>2 DEF SpawnAnswers, TypeOK
  <2>. QED  BY <1>5, <2>1, <2>2, <2>3, <2>4 DEF SpawnAnswers, TypeOK, SessionStates
<1>6. ASSUME NEW r \in Rows, SpawnFails(r) PROVE TypeOK'
  <2>1. reg' \in [Rows -> RowStates]
    BY <1>6 DEF SpawnFails, Unwound, TypeOK
  <2>2. /\ saved' \in [Rows -> SessionStates] /\ mine' \subseteq Terminals
        /\ settling' = settling \ {r} /\ reparked' \subseteq Rows
    <3>1. CASE r \notin settling /\ reg[r] = "spawning"
      BY <1>6, <3>1, <1>s DEF SpawnFails, TypeOK, Ends
    <3>2. CASE ~(r \notin settling /\ reg[r] = "spawning")
      <4>1. Settles(r, reg', reparked \cup ({r} \cap settling))
        BY <1>6, <3>2 DEF SpawnFails
      <4>2. reparked \cup ({r} \cap settling) \in SUBSET Rows
        BY DEF TypeOK
      <4>. QED  BY <2>1, <4>1, <4>2, SettlesType
    <3>. QED  BY <3>1, <3>2
  <2>3. timer' \in BOOLEAN
    BY <1>6 DEF SpawnFails, TypeOK
  <2>4. settling' \subseteq calls' /\ calls' \subseteq Rows
    BY <1>6, <2>2 DEF SpawnFails, TypeOK
  <2>. QED  BY <1>6, <2>1, <2>2, <2>3, <2>4 DEF SpawnFails, TypeOK, SessionStates, host
<1>7. ASSUME NEW r \in Rows, Exits(r) PROVE TypeOK'
  BY <1>7 DEF Exits, TypeOK, Ends
<1>8. ASSUME NEW r \in Rows, Close(r) PROVE TypeOK'
  BY <1>8 DEF Close, TypeOK, Ends
<1>9. ASSUME NEW r \in Rows, Sleep(r) PROVE TypeOK'
  <2>1. reg' \in [Rows -> RowStates]
    BY <1>9 DEF Sleep, TypeOK
  <2>2. saved' \in [Rows -> SessionStates] /\ mine' \subseteq Terminals
    BY <1>9, <2>1, WritesType DEF Sleep, TypeOK
  <2>. QED  BY <1>9, <2>1, <2>2 DEF Sleep, TypeOK, SessionStates, host
<1>10. ASSUME NEW r \in Rows, ReleaseSlept(r) PROVE TypeOK'
  BY <1>10 DEF ReleaseSlept, TypeOK, padi
<1>11. ASSUME NEW r \in Rows, Wake(r) PROVE TypeOK'
  BY <1>11 DEF Wake, TypeOK, host
<1>12. ASSUME NEW r \in Rows, AdoptOrphan(r) PROVE TypeOK'
  BY <1>12 DEF AdoptOrphan, TypeOK, host
<1>13. CASE RestartBegins
  <2>1. saved' \in [Rows -> SessionStates] /\ mine' \subseteq Terminals
    BY <1>13, CaptureType, WritesType DEF RestartBegins, TypeOK
  <2>. QED  BY <1>13, <2>1 DEF RestartBegins, TypeOK, SessionStates
<1>14. CASE Recycles
  BY <1>14 DEF Recycles, TypeOK
<1>15. CASE RestartParks
  BY <1>15, ParkedOntoType DEF RestartParks, TypeOK
<1>16. CASE RestartFails
  BY <1>16 DEF RestartFails, TypeOK, host
<1>17. CASE CleanStop
  <2>1. saved' \in [Rows -> SessionStates] /\ mine' \subseteq Terminals
    BY <1>17, <1>s, CaptureType, WritesType DEF CleanStop, TypeOK, Keeps
  <2>2. Down
    BY <1>17 DEF CleanStop
  <2>. QED  BY <2>1, <2>2, DownTypes DEF TypeOK, SessionStates
<1>18. CASE Crash
  <2>1. Down /\ saved' = saved /\ mine' = mine
    BY <1>18 DEF Crash, Keeps
  <2>. QED  BY <2>1, DownTypes DEF TypeOK
<1>19. CASE Reboots
  BY <1>19 DEF Reboots, TypeOK, padi
<1>20. CASE BootParks
  BY <1>20, ParkedOntoType DEF BootParks, TypeOK
<1>21. CASE BootAdopts
  <2>. DEFINE rows == [r \in Rows |-> IF saved[r] = "asleep" THEN "asleep"
                                     ELSE IF r \in ptys THEN "live" ELSE "none"]
  <2>1. rows \in [Rows -> RowStates]
    OBVIOUS
  <2>2. saved' \in [Rows -> SessionStates] /\ mine' \subseteq Terminals
    BY <1>21, <2>1, WritesType DEF BootAdopts, TypeOK
  <2>. QED  BY <1>21, <2>1, <2>2 DEF BootAdopts, TypeOK, SessionStates
<1>22. CASE UNCHANGED vars
  BY <1>22 DEF vars, padi, host, TypeOK
<1>. QED
  BY <1>1, <1>2, <1>3, <1>4, <1>5, <1>6, <1>7, <1>8, <1>9, <1>10, <1>11, <1>12, <1>13,
     <1>14, <1>15, <1>16, <1>17, <1>18, <1>19, <1>20, <1>21, <1>22 DEF Next

\* Every variable keeps its type, and a restore awaits only calls that are out.
THEOREM TypeCorrect == Spec => []TypeOK
BY TypeInit, TypeStep, PTL DEF Spec

-----------------------------------------------------------------------------
(* Which mishaps there have been *)

\* The mishaps without which the state could not be as it is.
Because ==
  /\ restart # "idle" => "restart" \in may
  /\ ~up => "stop" \in may
  /\ up /\ ~kaval => "restart" \in may

LEMMA MayStays == [Next]_vars => may' = may
BY DEF Next, vars, host, padi, Fires, Restore, Forfeit, Create, SpawnAnswers, SpawnFails, Exits,
       Close, Sleep, ReleaseSlept, Wake, AdoptOrphan, RestartBegins, Recycles, RestartParks,
       RestartFails, CleanStop, Crash, Down, Reboots, BootParks, BootAdopts

LEMMA BecauseInit == Init => Because
BY DEF Init, Because

LEMMA BecauseStep == Because /\ [Next]_vars => Because'
<1>. SUFFICES ASSUME Because, [Next]_vars PROVE Because'
  OBVIOUS
<1>. USE DEF Because
<1>1. CASE Fires \/ Restore \/ Forfeit
  BY <1>1 DEF Fires, Restore, Forfeit, host
<1>2. ASSUME NEW t \in Terminals, Create(t) PROVE Because'
  BY <1>2 DEF Create, host
<1>3. ASSUME NEW r \in Rows, SpawnAnswers(r) PROVE Because'
  BY <1>3 DEF SpawnAnswers
<1>4. ASSUME NEW r \in Rows, SpawnFails(r) PROVE Because'
  BY <1>4 DEF SpawnFails, host
<1>5. ASSUME NEW r \in Rows, Exits(r) \/ Close(r) PROVE Because'
  BY <1>5 DEF Exits, Close
<1>6. ASSUME NEW r \in Rows, Sleep(r) \/ ReleaseSlept(r) PROVE Because'
  BY <1>6 DEF Sleep, ReleaseSlept, host, padi
<1>7. ASSUME NEW r \in Rows, Wake(r) \/ AdoptOrphan(r) PROVE Because'
  BY <1>7 DEF Wake, AdoptOrphan, host
<1>8. CASE RestartBegins \/ Recycles \/ RestartParks \/ RestartFails
  BY <1>8 DEF RestartBegins, Recycles, RestartParks, RestartFails, host
<1>9. CASE CleanStop \/ Crash
  BY <1>9 DEF CleanStop, Crash, Down
<1>10. CASE Reboots \/ BootParks \/ BootAdopts
  BY <1>10 DEF Reboots, BootParks, BootAdopts, padi
<1>11. CASE UNCHANGED vars
  BY <1>11 DEF vars, padi, host
<1>. QED
  BY <1>1, <1>2, <1>3, <1>4, <1>5, <1>6, <1>7, <1>8, <1>9, <1>10, <1>11 DEF Next

-----------------------------------------------------------------------------
(* A parked row is one the saved session offers *)

\* No act of a user falls into a restart, and none puts a terminal to sleep or
\* wakes it while a parked row waits or a restore is unsettled. Without each of
\* the three conditions TLC finds a parked row that nothing offers.
NothingOverlaps ==
  \A m \in Scenarios : "overlap" \in m =>
    /\ "restart" \notin m
    /\ "sleep" \in m => "stop" \notin m /\ "spawn fails" \notin m

\* What holds ParkedIsOffered up: a write made while rows are parked is the
\* settling of a restore, and the restore's own list has those rows; a
\* restart and a restore are never both under way, and a restore needs padi.
ParkedHolds ==
  /\ ParkedIsOffered
  /\ settling # {} => Parked(reg) \subseteq reparked
  /\ restart # "idle" \/ ~up => settling = {}
  /\ "overlap" \in may /\ "sleep" \in may => Parked(reg) = {}

LEMMA RowMoved ==
  ASSUME TypeOK, NEW r \in Rows, NEW s, reg' = [reg EXCEPT ![r] = s]
  PROVE  reg'[r] = s /\ \A q \in Rows : q = r \/ reg'[q] = reg[q]
BY DEF TypeOK

\* One row moves, and neither from being parked nor to it.
LEMMA ParkedMoved ==
  ASSUME TypeOK, NEW r \in Rows, reg[r] # "parked",
         NEW s, s # "parked", reg' = [reg EXCEPT ![r] = s]
  PROVE  /\ Parked(reg') = Parked(reg)
         /\ \A q \in Rows : reg[q] = "parked" => reg'[q] = "parked"
<1>2. \A q \in Rows : reg'[q] = "parked" <=> reg[q] = "parked"
  BY RowMoved
<1>. QED  BY <1>2 DEF Parked

LEMMA ParkedInit == Init => ParkedHolds
BY DEF Init, ParkedHolds, ParkedIsOffered, Parked, Empty

\* Without a newly parked row and without a write nothing can be lost.
LEMMA ParkedKept ==
  ASSUME ParkedHolds, saved' = saved, Parked(reg') \subseteq Parked(reg),
         reparked' = reparked, settling' \subseteq settling,
         restart' # "idle" \/ ~up' => settling' = {}, may' = may
  PROVE  ParkedHolds'
BY DEF ParkedHolds, ParkedIsOffered, Parked

\* With nothing parked there is nothing to hold.
LEMMA NoneParked ==
  ASSUME Parked(reg') = {}, restart' # "idle" \/ ~up' => settling' = {}
  PROVE  ParkedHolds'
BY DEF ParkedHolds, ParkedIsOffered, Parked

\* A settling that has every parked row in its list saves them all.
LEMMA SettleHolds ==
  ASSUME TypeOK, NEW r \in Rows, reg' \in [Rows -> RowStates], NEW again \in SUBSET Rows,
         r \in settling, Settles(r, reg', again), Parked(reg') \subseteq again,
         restart' # "idle" \/ ~up' => settling' = {},
         "overlap" \in may' /\ "sleep" \in may' => Parked(reg') = {}
  PROVE  ParkedHolds'
<1>1. saved' = MergedWith(Snapshot(reg'), ActivesOf(again))
  BY DEF Settles, Writes
<1>2. \A q \in Parked(reg') : saved'[q] = "active"
  BY <1>1 DEF Parked, MergedWith, Snapshot, ActivesOf
<1>3. settling' # {} => reparked' = again
  BY DEF Settles
<1>. QED  BY <1>2, <1>3 DEF ParkedHolds, ParkedIsOffered, Parked

LEMMA ParkedStep ==
  ASSUME NothingOverlaps
  PROVE  TypeOK /\ TypeOK' /\ Because /\ ParkedHolds /\ [Next]_vars => ParkedHolds'
<1>. SUFFICES ASSUME TypeOK, TypeOK', Because, ParkedHolds, [Next]_vars PROVE ParkedHolds'
  OBVIOUS
<1>. USE MayStays
<1>a. "overlap" \in may /\ "sleep" \in may =>
        up /\ kaval /\ restart = "idle" /\ "spawn fails" \notin may /\ Parked(reg) = {}
  BY DEF TypeOK, NothingOverlaps, Because, ParkedHolds
<1>0. "overlap" \in may => restart = "idle" /\ "restart" \notin may
  BY DEF TypeOK, NothingOverlaps, Because
<1>1. CASE Fires
  <2>1. CASE Parked(reg) = {}
    BY <1>1, <2>1, NoneParked DEF Fires, ParkedHolds
  <2>2. CASE Parked(reg) # {}
    BY <1>1, <2>2, ParkedKept DEF Fires, Keeps, ParkedHolds
  <2>. QED  BY <2>1, <2>2
<1>2. CASE Restore
  <2>. DEFINE again == {r \in Rows : saved[r] = "active" /\ reg[r] \notin Active}
              fresh == {Next1(r) : r \in again}
              sleepers == {r \in Rows : saved[r] = "asleep" /\ reg[r] = "none"}
  <2>1. reg' = Respawned(again, fresh, sleepers) /\ restart' = "idle" /\ up'
    BY <1>2, <1>0 DEF Restore, Undisturbed
  <2>2. Parked(reg) \subseteq again
    BY DEF Parked, ParkedHolds, ParkedIsOffered
  <2>3. Parked(reg') = {}
    BY <2>1, <2>2 DEF Parked, Respawned
  <2>. QED  BY <2>1, <2>3, NoneParked
<1>3. CASE Forfeit
  <2>1. Parked(reg') = {} /\ restart' = "idle" /\ up'
    BY <1>3, <1>0 DEF Forfeit, Parked, Undisturbed
  <2>. QED  BY <2>1, NoneParked
<1>4. ASSUME NEW t \in Terminals, Create(t) PROVE ParkedHolds'
  <2>0. <<t, 0>> \in Rows
    BY SavedSessionAssumption DEF Rows
  <2>1. Parked(reg') \subseteq Parked(reg)
    BY <1>4, <2>0, ParkedMoved DEF Create
  <2>. QED  BY <1>4, <2>1, ParkedKept DEF Create, ParkedHolds
<1>5. ASSUME NEW r \in Rows, SpawnAnswers(r) PROVE ParkedHolds'
  <2>1. Parked(reg') \subseteq Parked(reg)
    BY <1>5 DEF SpawnAnswers, Parked, TypeOK
  <2>2. Settles(r, reg', reparked) /\ restart' = restart /\ up' = up
    BY <1>5 DEF SpawnAnswers
  <2>3. CASE r \in settling
    <3>1. "overlap" \in may' /\ "sleep" \in may' => Parked(reg') = {}
      BY <2>1 DEF ParkedHolds
    <3>. QED  BY <2>1, <2>2, <2>3, <3>1, SettleHolds DEF TypeOK, ParkedHolds, Settles
  <2>4. CASE r \notin settling
    <3>1. settling' = settling /\ saved' = saved
      BY <2>2, <2>4 DEF Settles, Keeps
    <3>2. settling' # {} => reparked' = reparked
      BY <2>2 DEF Settles
    <3>3. "overlap" \in may' /\ "sleep" \in may' => Parked(reg') = {}
      BY <2>1 DEF ParkedHolds
    <3>. QED  BY <2>1, <2>2, <3>1, <3>2, <3>3 DEF ParkedHolds, ParkedIsOffered, Parked
  <2>. QED  BY <2>3, <2>4
<1>6. ASSUME NEW r \in Rows, SpawnFails(r) PROVE ParkedHolds'
  <2>0. ~("overlap" \in may /\ "sleep" \in may)
    BY <1>6, <1>a DEF SpawnFails
  <2>1. CASE r \in settling
    <3>1. Settles(r, reg', reparked \cup ({r} \cap settling)) /\ restart' = restart /\ up' = up
      BY <1>6, <2>1 DEF SpawnFails
    <3>2. Parked(reg') \subseteq reparked \cup ({r} \cap settling)
      <4>1. reg' = [reg EXCEPT ![r] = Unwound(r)]
        BY <1>6 DEF SpawnFails
      <4>2. \A q \in Rows \ {r} : reg'[q] = reg[q]
        BY <4>1 DEF TypeOK
      <4>3. Parked(reg) \subseteq reparked
        BY <2>1 DEF ParkedHolds
      <4>. QED  BY <2>1, <4>2, <4>3 DEF Parked
    <3>. QED  BY <2>0, <2>1, <3>1, <3>2, SettleHolds DEF TypeOK, ParkedHolds, Settles
  <2>2. CASE r \notin settling
    <3>1. Parked(reg') \subseteq Parked(reg)
      BY <1>6, <2>2 DEF SpawnFails, Unwound, Parked, TypeOK
    <3>2. saved' = saved /\ settling' = settling /\ restart' = restart /\ up' = up
      BY <1>6, <2>2 DEF SpawnFails, Settles, Keeps
    <3>3. settling' # {} => reparked' = reparked
      BY <1>6, <2>2 DEF SpawnFails, Settles
    <3>. QED  BY <2>0, <3>1, <3>2, <3>3 DEF ParkedHolds, ParkedIsOffered, Parked
  <2>. QED  BY <2>1, <2>2
<1>7. ASSUME NEW r \in Rows, Exits(r) PROVE ParkedHolds'
  <2>1. Parked(reg') \subseteq Parked(reg)
    BY <1>7 DEF Exits, Parked, TypeOK
  <2>. QED  BY <1>7, <2>1, ParkedKept DEF Exits, ParkedHolds
<1>8. ASSUME NEW r \in Rows, Close(r) PROVE ParkedHolds'
  <2>1. Parked(reg') \subseteq Parked(reg)
    BY <1>8 DEF Close, Parked, TypeOK
  <2>. QED  BY <1>8, <2>1, ParkedKept DEF Close, ParkedHolds
<1>9. ASSUME NEW r \in Rows, Sleep(r) PROVE ParkedHolds'
  <2>1. Parked(reg') = {}
    BY <1>9, <1>a DEF Sleep, NoneRestoring, Parked, TypeOK
  <2>. QED  BY <1>9, <2>1, NoneParked DEF Sleep, ParkedHolds
<1>10. ASSUME NEW r \in Rows, ReleaseSlept(r) PROVE ParkedHolds'
  BY <1>10 DEF ReleaseSlept, padi, ParkedHolds, ParkedIsOffered, Parked
<1>11. ASSUME NEW r \in Rows, Wake(r) PROVE ParkedHolds'
  <2>1. Parked(reg') \subseteq Parked(reg)
    BY <1>11 DEF Wake, Parked, TypeOK
  <2>. QED  BY <1>11, <2>1, ParkedKept DEF Wake, ParkedHolds
<1>12. ASSUME NEW r \in Rows, AdoptOrphan(r) PROVE ParkedHolds'
  <2>1. Parked(reg') \subseteq Parked(reg)
    BY <1>12 DEF AdoptOrphan, Parked, TypeOK
  <2>. QED  BY <1>12, <2>1, ParkedKept DEF AdoptOrphan, ParkedHolds
<1>13. CASE RestartBegins
  <2>1. Parked(reg') = {} /\ settling' = {}
    BY <1>13, <1>0 DEF RestartBegins, Parked, Empty
  <2>. QED  BY <2>1, NoneParked
<1>14. CASE Recycles
  BY <1>14 DEF Recycles, ParkedHolds, ParkedIsOffered, Parked
<1>15. CASE RestartParks
  <2>1. settling' = {} /\ saved' = saved /\ reg' = ParkedOnto(reg)
    BY <1>15 DEF RestartParks, ParkedHolds
  <2>2. \A q \in Parked(reg') : saved'[q] = "active"
    BY <2>1 DEF Parked, ParkedOnto, ParkedHolds, ParkedIsOffered
  <2>3. ~("overlap" \in may /\ "sleep" \in may)
    BY <1>15, <1>a DEF RestartParks
  <2>. QED  BY <2>1, <2>2, <2>3 DEF ParkedHolds, ParkedIsOffered, Parked
<1>16. CASE RestartFails
  BY <1>16 DEF RestartFails, ParkedHolds, ParkedIsOffered, Parked
<1>17. CASE CleanStop \/ Crash
  <2>1. Parked(reg') = {} /\ settling' = {}
    BY <1>17 DEF CleanStop, Crash, Down, Parked, Empty
  <2>. QED  BY <2>1, NoneParked
<1>18. CASE Reboots
  BY <1>18 DEF Reboots, padi, ParkedHolds, ParkedIsOffered, Parked
<1>19. CASE BootParks
  <2>1. saved' = saved /\ reg' = ParkedOnto(Empty)
    BY <1>19 DEF BootParks
  <2>2. \A q \in Parked(reg') : saved'[q] = "active"
    BY <2>1 DEF Parked, ParkedOnto, Empty
  <2>3. settling' = settling /\ settling = {}
    BY <1>19 DEF BootParks, ParkedHolds
  <2>4. ~("overlap" \in may /\ "sleep" \in may)
    BY <1>19, <1>a DEF BootParks
  <2>. QED  BY <2>1, <2>2, <2>3, <2>4 DEF ParkedHolds, ParkedIsOffered, Parked
<1>20. CASE BootAdopts
  <2>1. Parked(reg') = {}
    BY <1>20 DEF BootAdopts, Parked
  <2>. QED  BY <1>20, <2>1, NoneParked DEF BootAdopts, ParkedHolds
<1>21. CASE UNCHANGED vars
  BY <1>21 DEF vars, padi, ParkedHolds, ParkedIsOffered, Parked
<1>. QED
  BY <1>1, <1>2, <1>3, <1>4, <1>5, <1>6, <1>7, <1>8, <1>9, <1>10, <1>11, <1>12, <1>13,
     <1>14, <1>15, <1>16, <1>17, <1>18, <1>19, <1>20, <1>21 DEF Next

\* As long as no act of a user falls into a restart, nor a sleep or a wake into
\* a restore, the autosave is never silenced by a row that no restore could
\* consume.
THEOREM ParkedRowsAreOffered ==
  ASSUME NothingOverlaps
  PROVE  Spec => []ParkedIsOffered
<1>1. ParkedHolds => ParkedIsOffered
  BY DEF ParkedHolds
<1>. QED  BY <1>1, TypeInit, TypeStep, BecauseInit, BecauseStep, ParkedInit, ParkedStep, PTL DEF Spec

-----------------------------------------------------------------------------
(* No terminal stands twice *)

\* A user who puts terminals to sleep does not do so while a parked row waits,
\* in a behaviour where a row may come back asleep from a wake that failed.
\* Without either half TLC finds a terminal that stands twice.
RestoresSpareSleepers ==
  \A m \in Scenarios : "overlap" \in m /\ "sleep" \in m =>
    "restart" \notin m /\ "spawn fails" \notin m

\* Where a row leaves a mark by which it could come to stand again.
Marked(r) == reg[r] # "none" \/ saved[r] # "no" \/ r \in ptys \cup settling \cup reparked

\* Of the ids a terminal has had, one is marked.
OneRowEach == \A r, q \in Rows : r # q /\ r[1] = q[1] => ~(Marked(r) /\ Marked(q))

\* A PTY's spawn is answered, and padi shows its row, unless it is one the
\* inventory has yet to take in. The restore would not ask for that one again.
PtysAreKnown ==
  /\ \A r \in ptys : r \notin calls \cup reparked
  /\ up => \A r \in ptys :
       reg[r] \in {"live", "asleep"} \/ (reg[r] = "none" /\ saved[r] # "active")

\* What an unsettled restore has parked again waits as it is, and so does a row
\* whose spawn it awaits, unless the user puts that one to sleep.
ReparkedWait ==
  /\ settling = {} => reparked = {}
  /\ \A r \in reparked : r \notin calls /\ reg[r] \in {"none", "parked"}
  /\ \A r \in calls : reg[r] # "live"
  /\ \A r \in settling :
       reg[r] # "waking" /\ (reg[r] = "asleep" => "overlap" \in may /\ "sleep" \in may)

\* What goes with kaval, and what goes with padi.
Hosts ==
  /\ ~kaval => ptys = {} /\ ~paired
  /\ restart = "recycling" => ~kaval
  /\ ~up => /\ reg = Empty /\ restart = "idle" /\ timer = FALSE
            /\ calls = {} /\ settling = {} /\ reparked = {}

\* A sleeping row that the disk has as active would be respawned beside itself.
SleepersSaved == \A r \in Rows : reg[r] = "asleep" => saved[r] # "active"

NoneWaking == \A r \in Rows : reg[r] # "waking"
NoneSleeps == \A r \in Rows : reg[r] \notin {"asleep", "waking"} /\ saved[r] # "asleep"

\* A card is on offer, or a restore or a restart is under way.
Pending == Parked(reg) # {} \/ settling # {} \/ restart # "idle"

\* When no row is like that: where wakes do not fail; and where nobody wakes a
\* terminal during a restore, while one goes on.
Sleepers ==
  /\ "sleep" \notin may => NoneSleeps
  /\ "restart" \notin may /\ "spawn fails" \notin may => SleepersSaved
  /\ "overlap" \notin may /\ Pending => SleepersSaved /\ NoneWaking

TwinsHold == OneRowEach /\ PtysAreKnown /\ ReparkedWait /\ Hosts /\ Sleepers

LEMMA TwinsInit == Init => TwinsHold
BY DEF Init, TwinsHold, OneRowEach, Marked, PtysAreKnown, ReparkedWait, Hosts, Sleepers,
       SleepersSaved, NoneSleeps, NoneWaking, Pending, Empty, Nothing, Parked

LEMMA HostsStep == TypeOK /\ Hosts /\ [Next]_vars => Hosts'
<1>. SUFFICES ASSUME TypeOK, Hosts, [Next]_vars PROVE Hosts'
  OBVIOUS
<1>. USE DEF Hosts
<1>1. CASE Fires \/ Restore \/ Forfeit
  BY <1>1 DEF Fires, Restore, Forfeit, host
<1>2. ASSUME NEW t \in Terminals, Create(t) PROVE Hosts'
  BY <1>2 DEF Create, host
<1>3. ASSUME NEW r \in Rows, SpawnAnswers(r) PROVE Hosts'
  BY <1>3 DEF SpawnAnswers
<1>4. ASSUME NEW r \in Rows, SpawnFails(r) PROVE Hosts'
  BY <1>4 DEF SpawnFails, host
<1>5. ASSUME NEW r \in Rows, Exits(r) PROVE Hosts'
  <2>1. reg[r] = "live" => up
    BY DEF Empty
  <2>. QED  BY <1>5, <2>1 DEF Exits
<1>6. ASSUME NEW r \in Rows, Close(r) PROVE Hosts'
  BY <1>6 DEF Close
<1>7. ASSUME NEW r \in Rows, Sleep(r) \/ ReleaseSlept(r) PROVE Hosts'
  BY <1>7 DEF Sleep, ReleaseSlept, host, padi
<1>8. ASSUME NEW r \in Rows, Wake(r) \/ AdoptOrphan(r) PROVE Hosts'
  BY <1>8 DEF Wake, AdoptOrphan, host
<1>9. CASE RestartBegins \/ Recycles
  BY <1>9 DEF RestartBegins, Recycles
<1>10. CASE RestartParks \/ RestartFails
  <2>1. up /\ up' = up /\ restart' = "idle"
    BY <1>10 DEF RestartParks, RestartFails
  <2>2. kaval' = TRUE \/ (ptys' = ptys /\ paired' = paired /\ kaval' = kaval)
    BY <1>10 DEF RestartParks, RestartFails, host
  <2>. QED  BY <2>1, <2>2
<1>11. CASE CleanStop \/ Crash
  <2>1. Down
    BY <1>11 DEF CleanStop, Crash
  <2>2. ~kaval => ptys' = ptys
    BY <2>1 DEF Down
  <2>3. /\ up' = FALSE /\ reg' = Empty /\ restart' = "idle" /\ timer' = FALSE
        /\ calls' = {} /\ settling' = {} /\ reparked' = {}
        /\ kaval' = kaval /\ paired' = paired
    BY <2>1 DEF Down
  <2>. QED  BY <2>2, <2>3
<1>12. CASE Reboots \/ BootParks \/ BootAdopts
  BY <1>12 DEF Reboots, BootParks, BootAdopts, padi
<1>13. CASE UNCHANGED vars
  BY <1>13 DEF vars, padi, host
<1>. QED
  BY <1>1, <1>2, <1>3, <1>4, <1>5, <1>6, <1>7, <1>8, <1>9, <1>10, <1>11, <1>12, <1>13 DEF Next

-----------------------------------------------------------------------------
(* What the writers name *)

LEMMA SnapshotNames ==
  ASSUME NEW rows, NEW r \in Rows
  PROVE  /\ Snapshot(rows)[r] = "active" <=> rows[r] \in Active
         /\ Snapshot(rows)[r] = "asleep" <=> rows[r] = "asleep"
         /\ Snapshot(rows)[r] = "no" <=> rows[r] \notin Active \cup {"asleep"}
BY DEF Snapshot

LEMMA CaptureNames ==
  ASSUME NEW rows, NEW r \in Rows, Capture(rows)[r] # saved[r]
  PROVE  Capture(rows)[r] = Snapshot(rows)[r]
BY DEF Capture, MergedWith

LEMMA SettleNames ==
  ASSUME TypeOK, NEW r \in Rows, NEW rows, NEW again, Settles(r, rows, again), NEW q \in Rows
  PROVE  /\ reparked' \subseteq again
         /\ r \notin settling => saved' = saved
         /\ r \in settling /\ rows[q] \in Active \cup {"asleep"} => saved'[q] = Snapshot(rows)[q]
         /\ r \in settling /\ rows[q] \notin Active \cup {"asleep"} =>
              saved'[q] = IF q \in again THEN "active" ELSE "no"
<1>1. r \in settling => saved' = MergedWith(Snapshot(rows), ActivesOf(again))
  BY DEF Settles, Writes
<1>2. r \notin settling => saved' = saved
  BY DEF Settles, Keeps
<1>3. reparked' \subseteq again
  BY DEF Settles
<1>. QED  BY <1>1, <1>2, <1>3, SnapshotNames DEF MergedWith, ActivesOf

LEMMA ReparkedStep ==
  ASSUME RestoresSpareSleepers, TypeOK, Because, ReparkedWait, Hosts, PtysAreKnown, [Next]_vars
  PROVE  ReparkedWait'
<1>. USE MayStays DEF ReparkedWait
<1>1. CASE Fires \/ Forfeit
  BY <1>1 DEF Fires, Forfeit, TypeOK
<1>13. CASE Restore
  <2>. DEFINE again == {r \in Rows : saved[r] = "active" /\ reg[r] \notin Active}
              fresh == {Next1(r) : r \in again}
              sleepers == {r \in Rows : saved[r] = "asleep" /\ reg[r] = "none"}
  <2>1. /\ reg' = Respawned(again, fresh, sleepers) /\ fresh \subseteq Rows
        /\ calls' = calls \cup fresh /\ settling' = fresh /\ reparked' = {}
    BY <1>13 DEF Restore
  <2>. HIDE DEF again, fresh, sleepers
  <2>2. \A r \in fresh : reg'[r] = "spawning"
    BY <2>1 DEF Respawned
  <2>3. \A r \in Rows : reg[r] # "live" => reg'[r] # "live"
    BY <2>1 DEF Respawned
  <2>4. calls \subseteq Rows
    BY DEF TypeOK
  <2>. QED  BY <2>1, <2>2, <2>3, <2>4
<1>2. ASSUME NEW t \in Terminals, Create(t) PROVE ReparkedWait'
  <2>. DEFINE r == <<t, 0>>
  <2>1. r \in Rows /\ r[1] = t
    BY SavedSessionAssumption DEF Rows
  <2>2. r \notin reparked
    BY <1>2, <2>1 DEF Create
  <2>3. /\ reg' = [reg EXCEPT ![r] = "spawning"] /\ calls' = calls \cup {r}
        /\ settling' = settling /\ reparked' = reparked
    BY <1>2 DEF Create
  <2>. HIDE DEF r
  <2>. QED  BY <2>1, <2>2, <2>3 DEF TypeOK
<1>3. ASSUME NEW r \in Rows, SpawnAnswers(r) PROVE ReparkedWait'
  BY <1>3 DEF SpawnAnswers, Settles, TypeOK
<1>4. ASSUME NEW r \in Rows, SpawnFails(r) PROVE ReparkedWait'
  <2>1. CASE r \notin settling
    <3>1. /\ reg' = [reg EXCEPT ![r] = Unwound(r)] /\ calls' = calls \ {r}
          /\ settling' = settling
      BY <1>4, <2>1 DEF SpawnFails, Settles
    <3>2. r \notin reparked /\ (reparked' = reparked \/ (reparked' = {} /\ settling = {}))
      <4>1. {r} \cap settling = {} /\ settling \ {r} = settling
        BY <2>1
      <4>2. r \notin reparked
        BY <1>4 DEF SpawnFails
      <4>3. CASE reparked' = reparked
        BY <4>2, <4>3
      <4>4. CASE Settles(r, reg', reparked \cup ({r} \cap settling))
        BY <4>1, <4>2, <4>4 DEF Settles
      <4>. QED  BY <1>4, <2>1, <4>3, <4>4 DEF SpawnFails
    <3>3. settling = {} => reparked' = {}
      BY <3>2
    <3>4. \A q \in Rows : q # r => reg'[q] = reg[q]
      BY <3>1 DEF TypeOK
    <3>. QED  BY <2>1, <3>1, <3>2, <3>3, <3>4 DEF TypeOK
  <2>2. CASE r \in settling
    <3>1. reg' = [reg EXCEPT ![r] = Unwound(r)] /\ calls' = calls \ {r}
      BY <1>4 DEF SpawnFails
    <3>2. settling' = settling \ {r}
          /\ reparked' = IF settling' = {} THEN {} ELSE reparked \cup ({r} \cap settling)
      BY <1>4, <2>2 DEF SpawnFails, Settles
    <3>3. \A q \in reparked' : q \notin calls' /\ (q # r => reg'[q] \in {"none", "parked"})
      BY <3>1, <3>2 DEF TypeOK
    <3>4. ~("overlap" \in may /\ "sleep" \in may)
      BY <1>4 DEF SpawnFails, Because, RestoresSpareSleepers, TypeOK
    <3>5. reg[r] \notin {"waking", "asleep", "live"}
      BY <1>4, <2>2, <3>4 DEF SpawnFails
    <3>6. Unwound(r) = "parked"
      BY <2>2, <3>5 DEF Unwound, TypeOK
    <3>7. \A q \in reparked' : reg'[q] \in {"none", "parked"}
      BY <3>1, <3>3, <3>6 DEF TypeOK
    <3>8. \A q \in calls' : reg'[q] = reg[q]
      BY <3>1 DEF TypeOK
    <3>. QED  BY <3>1, <3>2, <3>3, <3>7, <3>8 DEF TypeOK
  <2>. QED  BY <2>1, <2>2
<1>5. ASSUME NEW r \in Rows, Exits(r) \/ Close(r) PROVE ReparkedWait'
  BY <1>5 DEF Exits, Close, TypeOK
<1>6. ASSUME NEW r \in Rows, Sleep(r) PROVE ReparkedWait'
  <2>1. /\ reg' = [reg EXCEPT ![r] = "asleep"] /\ reg[r] \in Active
        /\ settling' = settling /\ calls' = calls /\ reparked' = reparked
    BY <1>6 DEF Sleep
  <2>2. r \in settling => "overlap" \in may /\ "sleep" \in may
    BY <1>6 DEF Sleep, NoneRestoring
  <2>. QED  BY <2>1, <2>2 DEF TypeOK
<1>14. ASSUME NEW r \in Rows, ReleaseSlept(r) PROVE ReparkedWait'
  BY <1>14 DEF ReleaseSlept, padi
<1>7. ASSUME NEW r \in Rows, Wake(r) \/ AdoptOrphan(r) PROVE ReparkedWait'
  BY <1>7 DEF Wake, AdoptOrphan, PtysAreKnown, TypeOK
<1>8. CASE RestartBegins \/ Recycles \/ RestartFails
  BY <1>8 DEF RestartBegins, Recycles, RestartFails, Empty, TypeOK
<1>9. CASE RestartParks
  BY <1>9 DEF RestartParks, ParkedOnto, TypeOK
<1>10. CASE CleanStop \/ Crash
  BY <1>10 DEF CleanStop, Crash, Down
<1>11. CASE Reboots \/ BootParks \/ BootAdopts
  BY <1>11 DEF Reboots, BootParks, BootAdopts, padi, Hosts
<1>12. CASE UNCHANGED vars
  BY <1>12 DEF vars, padi, host
<1>. QED
  BY <1>1, <1>2, <1>3, <1>4, <1>5, <1>6, <1>7, <1>8, <1>9, <1>10, <1>11, <1>12,
     <1>13, <1>14 DEF Next

-----------------------------------------------------------------------------
(* Rows that sleep *)

LEMMA NoneSleepsStep ==
  ASSUME TypeOK, NoneSleeps, "sleep" \notin may, [Next]_vars
  PROVE  NoneSleeps'
<1>. USE DEF NoneSleeps
<1>1. CASE Fires
  BY <1>1, SnapshotNames DEF Fires, Writes, Keeps
<1>2. CASE Restore
  <2>1. reg' = Respawned({r \in Rows : saved[r] = "active" /\ reg[r] \notin Active},
                         {Next1(r) : r \in {r \in Rows : saved[r] = "active" /\ reg[r] \notin Active}},
                         {r \in Rows : saved[r] = "asleep" /\ reg[r] = "none"})
        /\ saved' = Snapshot(reg')
    BY <1>2 DEF Restore, Writes
  <2>2. \A q \in Rows : reg'[q] \notin {"asleep", "waking"}
    BY <2>1 DEF Respawned
  <2>. QED  BY <2>1, <2>2, SnapshotNames
<1>3. CASE Forfeit
  BY <1>3 DEF Forfeit, Nothing
<1>4. ASSUME NEW t \in Terminals, Create(t) PROVE NoneSleeps'
  BY <1>4 DEF Create, TypeOK
<1>5. ASSUME NEW r \in Rows, SpawnAnswers(r) PROVE NoneSleeps'
  <2>1. \A q \in Rows : reg'[q] \notin {"asleep", "waking"}
    BY <1>5 DEF SpawnAnswers, TypeOK
  <2>2. Settles(r, reg', reparked)
    BY <1>5 DEF SpawnAnswers
  <2>3. \A q \in Rows : saved'[q] # "asleep"
    BY <2>1, <2>2, SettleNames, SnapshotNames
  <2>. QED  BY <2>1, <2>3
<1>6. ASSUME NEW r \in Rows, SpawnFails(r) PROVE NoneSleeps'
  <2>1. \A q \in Rows : reg'[q] \notin {"asleep", "waking"}
    BY <1>6 DEF SpawnFails, Unwound, TypeOK
  <2>2. saved' = saved \/ Settles(r, reg', reparked \cup ({r} \cap settling))
    BY <1>6 DEF SpawnFails
  <2>3. \A q \in Rows : saved'[q] # "asleep"
    BY <2>1, <2>2, SettleNames, SnapshotNames
  <2>. QED  BY <2>1, <2>3
<1>7. ASSUME NEW r \in Rows, Exits(r) \/ Close(r) PROVE NoneSleeps'
  BY <1>7 DEF Exits, Close, TypeOK
<1>8. ASSUME NEW r \in Rows, Sleep(r) \/ ReleaseSlept(r) \/ Wake(r) PROVE NoneSleeps'
  BY <1>8 DEF Sleep, ReleaseSlept, Wake
<1>9. ASSUME NEW r \in Rows, AdoptOrphan(r) PROVE NoneSleeps'
  BY <1>9 DEF AdoptOrphan, TypeOK
<1>10. CASE RestartBegins
  <2>1. saved' = Capture(reg) /\ reg' = Empty
    BY <1>10 DEF RestartBegins, Writes
  <2>. QED  BY <2>1, CaptureNames, SnapshotNames DEF Empty
<1>11. CASE Recycles \/ RestartFails
  BY <1>11 DEF Recycles, RestartFails
<1>12. CASE RestartParks
  BY <1>12 DEF RestartParks, ParkedOnto
<1>13. CASE CleanStop \/ Crash
  <2>1. reg' = Empty /\ (saved' = saved \/ saved' = Capture(reg))
    BY <1>13 DEF CleanStop, Crash, Down, Keeps, Writes
  <2>. QED  BY <2>1, CaptureNames, SnapshotNames DEF Empty
<1>14. CASE Reboots
  BY <1>14 DEF Reboots, padi
<1>15. CASE BootParks
  BY <1>15 DEF BootParks, ParkedOnto, Empty
<1>16. CASE BootAdopts
  <2>. DEFINE rows == [r \in Rows |-> IF saved[r] = "asleep" THEN "asleep"
                                     ELSE IF r \in ptys THEN "live" ELSE "none"]
  <2>1. reg' = rows /\ saved' = Snapshot(rows)
    BY <1>16 DEF BootAdopts, Writes
  <2>. QED  BY <2>1, SnapshotNames
<1>17. CASE UNCHANGED vars
  BY <1>17 DEF vars, padi
<1>. QED
  BY <1>1, <1>2, <1>3, <1>4, <1>5, <1>6, <1>7, <1>8, <1>9, <1>10, <1>11, <1>12, <1>13,
     <1>14, <1>15, <1>16, <1>17 DEF Next

\* A settling leaves every sleeping row saved as one.
LEMMA SettleSleepers ==
  ASSUME TypeOK, SleepersSaved, NEW r \in Rows, NEW again, Settles(r, reg', again),
         \A q \in Rows : reg'[q] = "asleep" => reg[q] = "asleep" \/ r \in settling
  PROVE  SleepersSaved'
BY SettleNames, SnapshotNames DEF SleepersSaved

LEMMA SleepersSavedStep ==
  ASSUME TypeOK, Because, SleepersSaved, "restart" \notin may, "spawn fails" \notin may, [Next]_vars
  PROVE  SleepersSaved'
<1>. USE DEF SleepersSaved
<1>0. (up => kaval) /\ restart = "idle"
  BY DEF Because
<1>1. CASE Fires
  BY <1>1, SnapshotNames DEF Fires, Writes, Keeps
<1>2. CASE Restore
  <2>1. saved' = Snapshot(reg')
    BY <1>2 DEF Restore, Writes
  <2>. QED  BY <2>1, SnapshotNames
<1>3. CASE Forfeit
  BY <1>3 DEF Forfeit, Nothing
<1>4. ASSUME NEW t \in Terminals, Create(t) PROVE SleepersSaved'
  BY <1>4 DEF Create, TypeOK
<1>5. ASSUME NEW r \in Rows, SpawnAnswers(r) PROVE SleepersSaved'
  <2>1. \A q \in Rows : reg'[q] = "asleep" => reg[q] = "asleep"
    BY <1>5 DEF SpawnAnswers, TypeOK
  <2>. QED  BY <1>5, <2>1, SettleSleepers DEF SpawnAnswers
<1>6. ASSUME NEW r \in Rows, SpawnFails(r) PROVE SleepersSaved'
  BY <1>0, <1>6 DEF SpawnFails
<1>7. ASSUME NEW r \in Rows, Exits(r) \/ Close(r) PROVE SleepersSaved'
  BY <1>7 DEF Exits, Close, TypeOK
<1>8. ASSUME NEW r \in Rows, Sleep(r) PROVE SleepersSaved'
  <2>1. saved' = Snapshot(reg')
    BY <1>8 DEF Sleep, Writes
  <2>2. \A q \in Rows : saved'[q] = "active" => reg'[q] \in Active
    BY <2>1, SnapshotNames
  <2>. QED  BY <2>2 DEF SleepersSaved
<1>9. ASSUME NEW r \in Rows, ReleaseSlept(r) \/ Wake(r) \/ AdoptOrphan(r) PROVE SleepersSaved'
  BY <1>9 DEF ReleaseSlept, Wake, AdoptOrphan, padi, TypeOK
<1>10. CASE RestartBegins \/ Recycles \/ RestartParks \/ RestartFails
  BY <1>0, <1>10 DEF RestartBegins, Recycles, RestartParks, RestartFails
<1>11. CASE CleanStop \/ Crash
  BY <1>11 DEF CleanStop, Crash, Down, Empty
<1>12. CASE Reboots
  BY <1>12 DEF Reboots, padi
<1>13. CASE BootParks
  BY <1>13 DEF BootParks, ParkedOnto, Empty
<1>14. CASE BootAdopts
  BY <1>14, SnapshotNames DEF BootAdopts, Writes
<1>15. CASE UNCHANGED vars
  BY <1>15 DEF vars, padi
<1>. QED
  BY <1>1, <1>2, <1>3, <1>4, <1>5, <1>6, <1>7, <1>8, <1>9, <1>10, <1>11, <1>12, <1>13,
     <1>14, <1>15 DEF Next

\* While a restore or a restart is pending that no act overlaps, no row is woken.
LEMMA PendingStep ==
  ASSUME TypeOK, Hosts, ReparkedWait, "overlap" \notin may, Pending => SleepersSaved /\ NoneWaking,
         [Next]_vars, Pending'
  PROVE  SleepersSaved' /\ NoneWaking'
<1>. USE DEF SleepersSaved, NoneWaking
<1>1. CASE Fires
  BY <1>1, SnapshotNames DEF Fires, Writes, Keeps, Pending
<1>2. CASE Restore
  <2>. DEFINE again == {r \in Rows : saved[r] = "active" /\ reg[r] \notin Active}
              fresh == {Next1(r) : r \in again}
              sleepers == {r \in Rows : saved[r] = "asleep" /\ reg[r] = "none"}
  <2>1. reg' = Respawned(again, fresh, sleepers) /\ saved' = Snapshot(reg')
    BY <1>2 DEF Restore, Writes
  <2>2. NoneWaking
    BY <1>2 DEF Restore, Offered, Empty, Pending
  <2>3. NoneWaking'
    BY <2>1, <2>2 DEF Respawned
  <2>. QED  BY <2>1, <2>3, SnapshotNames
<1>3. CASE Forfeit
  <2>1. Pending
    BY <1>3 DEF Forfeit, Pending, Parked
  <2>. QED  BY <1>3, <2>1 DEF Forfeit, Nothing
<1>4. ASSUME NEW t \in Terminals, Create(t) PROVE SleepersSaved' /\ NoneWaking'
  <2>1. Parked(reg') \subseteq Parked(reg) /\ settling' = settling /\ restart' = restart
    BY <1>4 DEF Create, TypeOK, Parked
  <2>2. Pending
    BY <2>1 DEF Pending
  <2>. QED  BY <1>4, <2>2 DEF Create, TypeOK
<1>5. ASSUME NEW r \in Rows, SpawnAnswers(r) PROVE SleepersSaved' /\ NoneWaking'
  <2>1. Parked(reg') \subseteq Parked(reg) /\ settling' \subseteq settling /\ restart' = restart
    BY <1>5 DEF SpawnAnswers, TypeOK, Parked, Settles
  <2>2. Pending
    BY <2>1 DEF Pending
  <2>3. \A q \in Rows : /\ reg'[q] = "asleep" => reg[q] = "asleep"
                        /\ reg'[q] # "waking"
    BY <1>5, <2>2 DEF SpawnAnswers, TypeOK
  <2>. QED  BY <1>5, <2>2, <2>3, SettleSleepers DEF SpawnAnswers
<1>6. ASSUME NEW r \in Rows, SpawnFails(r) PROVE SleepersSaved' /\ NoneWaking'
  <2>1. /\ reg' = [reg EXCEPT ![r] = Unwound(r)] /\ restart' = restart
        /\ saved' = saved \/ Settles(r, reg', reparked \cup ({r} \cap settling))
    BY <1>6 DEF SpawnFails
  <2>2. settling' \subseteq settling
    BY <1>6 DEF SpawnFails, Settles
  <2>3. r \notin settling => Parked(reg') \subseteq Parked(reg)
    BY <2>1 DEF Unwound, Parked, TypeOK
  <2>4. Pending
    BY <2>1, <2>2, <2>3 DEF Pending
  <2>5. \A q \in Rows : /\ reg'[q] = "asleep" => reg[q] = "asleep"
                        /\ reg'[q] # "waking"
    BY <2>1, <2>4 DEF Unwound, TypeOK
  <2>. QED  BY <2>1, <2>4, <2>5, SettleSleepers
<1>7. ASSUME NEW r \in Rows, Exits(r) \/ Close(r) PROVE SleepersSaved' /\ NoneWaking'
  <2>1. Parked(reg') \subseteq Parked(reg) /\ settling' = settling /\ restart' = restart
    BY <1>7 DEF Exits, Close, TypeOK, Parked
  <2>2. Pending
    BY <2>1 DEF Pending
  <2>. QED  BY <1>7, <2>2 DEF Exits, Close, TypeOK
<1>8. ASSUME NEW r \in Rows, Sleep(r) \/ Wake(r) PROVE SleepersSaved' /\ NoneWaking'
  <2>1. Parked(reg) = {} /\ settling' = {} /\ restart' = "idle"
    BY <1>8 DEF Sleep, Wake, Undisturbed, NoneRestoring
  <2>2. Parked(reg') = {}
    BY <1>8, <2>1 DEF Sleep, Wake, TypeOK, Parked
  <2>. QED  BY <2>1, <2>2 DEF Pending
<1>9. ASSUME NEW r \in Rows, ReleaseSlept(r) PROVE SleepersSaved' /\ NoneWaking'
  BY <1>9 DEF ReleaseSlept, padi, Pending
<1>10. ASSUME NEW r \in Rows, AdoptOrphan(r) PROVE SleepersSaved' /\ NoneWaking'
  <2>1. Parked(reg') \subseteq Parked(reg) /\ settling' = settling /\ restart' = restart
    BY <1>10 DEF AdoptOrphan, TypeOK, Parked
  <2>2. Pending
    BY <2>1 DEF Pending
  <2>. QED  BY <1>10, <2>2 DEF AdoptOrphan, TypeOK
<1>11. CASE RestartBegins
  BY <1>11 DEF RestartBegins, Empty
<1>12. CASE Recycles \/ RestartFails
  BY <1>12 DEF Recycles, RestartFails, Pending
<1>13. CASE RestartParks
  BY <1>13 DEF RestartParks, ParkedOnto, Pending
<1>14. CASE CleanStop \/ Crash
  BY <1>14 DEF CleanStop, Crash, Down, Empty
<1>15. CASE Reboots
  BY <1>15 DEF Reboots, padi, Pending
<1>16. CASE BootParks
  BY <1>16 DEF BootParks, ParkedOnto, Empty
<1>17. CASE BootAdopts
  <2>1. Parked(reg') = {} /\ settling' = {} /\ restart' = "idle"
    BY <1>17 DEF BootAdopts, Parked, Hosts
  <2>. QED  BY <2>1 DEF Pending
<1>18. CASE UNCHANGED vars
  BY <1>18 DEF vars, padi, Pending
<1>. QED
  BY <1>1, <1>2, <1>3, <1>4, <1>5, <1>6, <1>7, <1>8, <1>9, <1>10, <1>11, <1>12, <1>13,
     <1>14, <1>15, <1>16, <1>17, <1>18 DEF Next

LEMMA SleepersStep ==
  ASSUME TypeOK, Because, Hosts, ReparkedWait, Sleepers, [Next]_vars
  PROVE  Sleepers'
<1>1. "sleep" \notin may => NoneSleeps'
  BY NoneSleepsStep DEF Sleepers
<1>2. "restart" \notin may /\ "spawn fails" \notin may => SleepersSaved'
  BY SleepersSavedStep DEF Sleepers
<1>3. "overlap" \notin may /\ Pending' => SleepersSaved' /\ NoneWaking'
  BY PendingStep DEF Sleepers
<1>. QED  BY <1>1, <1>2, <1>3, MayStays DEF Sleepers

\* No restore finds a sleeping row that the disk has as active.
LEMMA RestoreSpares ==
  ASSUME RestoresSpareSleepers, TypeOK, Sleepers, Offered
  PROVE  SleepersSaved
<1>1. CASE reg = Empty
  BY <1>1 DEF SleepersSaved, Empty
<1>2. CASE Parked(reg) # {}
  <2>1. Pending
    BY <1>2 DEF Pending
  <2>2. CASE "sleep" \notin may
    BY <2>2 DEF Sleepers, NoneSleeps, SleepersSaved
  <2>3. CASE "overlap" \notin may
    BY <2>1, <2>3 DEF Sleepers
  <2>4. CASE "sleep" \in may /\ "overlap" \in may
    BY <2>4 DEF Sleepers, RestoresSpareSleepers, TypeOK
  <2>. QED  BY <2>2, <2>3, <2>4
<1>. QED  BY <1>1, <1>2 DEF Offered

-----------------------------------------------------------------------------
(* The PTYs and the marks *)

\* A restore respawns no row that has a PTY, and gives none a PTY's id.
LEMMA RestoreLeavesPtys ==
  ASSUME RestoresSpareSleepers, TypeOK, TwinsHold, up, Offered,
         NEW q \in ptys
  PROVE  /\ ~(saved[q] = "active" /\ reg[q] \notin Active)
         /\ \A r \in Rows : saved[r] = "active" => Next1(r) # q
<1>1. q \in Rows /\ SleepersSaved
  BY RestoreSpares DEF TypeOK, TwinsHold
<1>2. ~(saved[q] = "active" /\ reg[q] \notin Active)
  BY <1>1 DEF TwinsHold, PtysAreKnown, SleepersSaved
<1>3. ASSUME NEW r \in Rows, saved[r] = "active", Next1(r) = q
      PROVE  FALSE
  <2>1. r # q /\ r[1] = q[1]
    BY <1>3, SavedSessionAssumption DEF Next1, Rows
  <2>2. Marked(r) /\ Marked(q)
    BY <1>3 DEF Marked
  <2>. QED  BY <1>1, <2>1, <2>2 DEF TwinsHold, OneRowEach
<1>. QED  BY <1>2, <1>3

LEMMA PtysStep ==
  ASSUME RestoresSpareSleepers, TypeOK, TwinsHold, [Next]_vars
  PROVE  PtysAreKnown'
<1>0. PtysAreKnown /\ ReparkedWait /\ Hosts
  BY DEF TwinsHold
<1>. USE DEF PtysAreKnown
<1>1. CASE Fires
  BY <1>0, <1>1, SnapshotNames DEF Fires, Writes, Keeps, host, TypeOK
<1>2. CASE Restore
  <2>. DEFINE again == {r \in Rows : saved[r] = "active" /\ reg[r] \notin Active}
              fresh == {Next1(r) : r \in again}
              sleepers == {r \in Rows : saved[r] = "asleep" /\ reg[r] = "none"}
  <2>1. /\ reg' = Respawned(again, fresh, sleepers) /\ saved' = Snapshot(reg')
        /\ calls' = calls \cup fresh /\ reparked' = {} /\ ptys' = ptys
    BY <1>2 DEF Restore, Writes, host
  <2>2. ASSUME NEW q \in ptys PROVE q \notin again \cup fresh
    BY <1>2, <2>2, RestoreLeavesPtys DEF Restore
  <2>3. ptys \subseteq Rows
    BY DEF TypeOK
  <2>. HIDE DEF again, fresh, sleepers
  <2>4. \A q \in ptys : reg'[q] = IF q \in sleepers THEN "asleep" ELSE reg[q]
    BY <2>1, <2>2, <2>3 DEF Respawned
  <2>5. \A q \in ptys : reg'[q] \in {"live", "asleep", "none"}
    BY <1>0, <1>2, <2>4 DEF Restore
  <2>6. \A q \in ptys : reg'[q] = "none" => saved'[q] = "no"
    BY <2>1, <2>3, SnapshotNames
  <2>. QED  BY <1>0, <2>1, <2>2, <2>5, <2>6
<1>3. CASE Forfeit
  BY <1>0, <1>3 DEF Forfeit, Nothing, host, TypeOK
<1>4. ASSUME NEW t \in Terminals, Create(t) PROVE PtysAreKnown'
  <2>. DEFINE r == <<t, 0>>
  <2>1. r \in Rows /\ r[1] = t
    BY SavedSessionAssumption DEF Rows
  <2>2. r \notin ptys
    BY <1>4, <2>1 DEF Create
  <2>3. /\ reg' = [reg EXCEPT ![r] = "spawning"] /\ calls' = calls \cup {r}
        /\ ptys' = ptys /\ reparked' = reparked /\ saved' = saved /\ up' = up
    BY <1>4 DEF Create, host
  <2>. HIDE DEF r
  <2>. QED  BY <1>0, <2>1, <2>2, <2>3 DEF TypeOK
<1>5. ASSUME NEW r \in Rows, SpawnAnswers(r) PROVE PtysAreKnown'
  <2>1. Settles(r, reg', reparked) /\ calls' = calls \ {r} /\ up /\ r \in calls
    BY <1>5 DEF SpawnAnswers
  <2>2. r \notin ptys \cup reparked
    BY <1>0, <2>1 DEF ReparkedWait
  <2>3. reparked' \subseteq reparked
    BY <2>1 DEF Settles
  <2>4. \/ ptys' = ptys /\ reg' = reg
        \/ ptys' = ptys \cup {r} /\ reg' = [reg EXCEPT ![r] = "live"]
    BY <1>5 DEF SpawnAnswers
  <2>5. \A q \in ptys' : q \notin calls' \cup reparked'
    BY <1>0, <2>1, <2>2, <2>3, <2>4
  <2>6. \A q \in ptys' : reg'[q] \in {"live", "asleep"} \/ (q \in ptys /\ q # r /\ reg'[q] = "none")
    BY <1>0, <2>1, <2>2, <2>4 DEF TypeOK
  <2>7. ASSUME NEW q \in ptys, q # r, reg'[q] = "none" PROVE saved'[q] # "active"
    <3>1. q \in Rows /\ q \notin reparked /\ saved[q] # "active"
      BY <1>0, <2>1, <2>4, <2>7 DEF TypeOK
    <3>. QED  BY <2>1, <2>7, <3>1, SettleNames
  <2>. QED  BY <2>5, <2>6, <2>7
<1>6. ASSUME NEW r \in Rows, SpawnFails(r) PROVE PtysAreKnown'
  <2>. DEFINE again == reparked \cup ({r} \cap settling)
  <2>1. /\ calls' = calls \ {r} /\ up /\ r \in calls /\ ptys' = ptys
        /\ reg' = [reg EXCEPT ![r] = Unwound(r)]
        /\ (saved' = saved /\ reparked' = reparked) \/ Settles(r, reg', again)
    BY <1>6 DEF SpawnFails, host
  <2>2. r \notin ptys
    BY <1>0, <2>1
  <2>3. reparked' \subseteq again
    BY <2>1 DEF Settles
  <2>4. ASSUME NEW q \in ptys
        PROVE  /\ q \in Rows /\ q # r /\ q \notin again \cup calls
               /\ reg'[q] = reg[q]
    BY <1>0, <2>1, <2>2 DEF TypeOK
  <2>5. ASSUME NEW q \in ptys, reg[q] = "none" PROVE saved'[q] # "active"
    <3>1. /\ q \in Rows /\ saved[q] # "active" /\ q \notin again
          /\ reg'[q] \notin Active \cup {"asleep"}
      BY <1>0, <2>1, <2>4, <2>5
    <3>2. CASE saved' = saved
      BY <3>1, <3>2
    <3>3. CASE Settles(r, reg', again)
      BY <3>1, <3>3, SettleNames
    <3>. QED  BY <2>1, <3>2, <3>3
  <2>. QED  BY <1>0, <2>1, <2>3, <2>4, <2>5
<1>7. ASSUME NEW r \in Rows, Exits(r) PROVE PtysAreKnown'
  BY <1>0, <1>7 DEF Exits, TypeOK
<1>8. ASSUME NEW r \in Rows, Close(r) PROVE PtysAreKnown'
  BY <1>0, <1>8 DEF Close, TypeOK
<1>9. ASSUME NEW r \in Rows, Sleep(r) PROVE PtysAreKnown'
  <2>1. /\ reg' = [reg EXCEPT ![r] = "asleep"] /\ saved' = Snapshot(reg') /\ up
        /\ ptys' = ptys /\ calls' = calls /\ reparked' = reparked
    BY <1>9 DEF Sleep, Writes, host
  <2>2. \A q \in Rows : reg'[q] = "none" => saved'[q] = "no"
    BY <2>1, SnapshotNames
  <2>. QED  BY <1>0, <2>1, <2>2 DEF TypeOK
<1>10. ASSUME NEW r \in Rows, ReleaseSlept(r) PROVE PtysAreKnown'
  BY <1>0, <1>10 DEF ReleaseSlept, padi
<1>11. ASSUME NEW r \in Rows, Wake(r) PROVE PtysAreKnown'
  BY <1>0, <1>11 DEF Wake, host, TypeOK
<1>12. ASSUME NEW r \in Rows, AdoptOrphan(r) PROVE PtysAreKnown'
  BY <1>0, <1>12 DEF AdoptOrphan, host, TypeOK
<1>13. CASE RestartBegins \/ Recycles
  BY <1>13 DEF RestartBegins, Recycles
<1>20. CASE RestartFails
  BY <1>0, <1>20 DEF RestartFails, host
<1>14. CASE RestartParks
  BY <1>0, <1>14 DEF RestartParks, Hosts
<1>15. CASE CleanStop \/ Crash
  BY <1>15 DEF CleanStop, Crash, Down
<1>16. CASE Reboots
  BY <1>16 DEF Reboots
<1>17. CASE BootParks
  <2>1. /\ reg' = ParkedOnto(Empty) /\ ptys' = ptys /\ saved' = saved
        /\ calls' = {} /\ reparked' = {}
    BY <1>0, <1>17 DEF BootParks, Hosts
  <2>2. \A q \in ptys : q \in Rows /\ saved[q] # "active"
    BY <1>0, <1>17 DEF BootParks, Hosts, Replaced, TypeOK
  <2>. QED  BY <2>1, <2>2 DEF ParkedOnto, Empty
<1>18. CASE BootAdopts
  BY <1>0, <1>18 DEF BootAdopts, Hosts, TypeOK
<1>19. CASE UNCHANGED vars
  BY <1>0, <1>19 DEF vars, padi, host
<1>. QED
  BY <1>1, <1>2, <1>3, <1>4, <1>5, <1>6, <1>7, <1>8, <1>9, <1>10, <1>11, <1>12, <1>13,
     <1>14, <1>15, <1>16, <1>17, <1>18, <1>19, <1>20 DEF Next

\* Where no new mark appears, a terminal keeps to its row.
LEMMA MarksKept ==
  ASSUME OneRowEach, \A q \in Rows : Marked(q)' => Marked(q)
  PROVE  OneRowEach'
BY DEF OneRowEach

LEMMA OneRowStep ==
  ASSUME RestoresSpareSleepers, TypeOK, TwinsHold, [Next]_vars
  PROVE  OneRowEach'
<1>0. OneRowEach /\ PtysAreKnown /\ ReparkedWait /\ Hosts
  BY DEF TwinsHold
<1>1. CASE Fires
  <2>1. /\ reg' = reg /\ ptys' = ptys /\ settling' = settling /\ reparked' = reparked
        /\ saved' = saved \/ saved' = Snapshot(reg)
    BY <1>1 DEF Fires, Writes, Keeps, host
  <2>2. \A q \in Rows : Marked(q)' => Marked(q)
    BY <2>1, SnapshotNames DEF Marked
  <2>. QED  BY <1>0, <2>2, MarksKept
<1>2. CASE Restore
  <2>. DEFINE again == {r \in Rows : saved[r] = "active" /\ reg[r] \notin Active}
              fresh == {Next1(r) : r \in again}
              sleepers == {r \in Rows : saved[r] = "asleep" /\ reg[r] = "none"}
  <2>1. /\ reg' = Respawned(again, fresh, sleepers) /\ saved' = Snapshot(reg')
        /\ settling' = fresh /\ reparked' = {} /\ ptys' = ptys
    BY <1>2 DEF Restore, Writes, host
  <2>2. SleepersSaved
    BY <1>2, RestoreSpares DEF Restore, TwinsHold
  <2>3. \A q \in again : q \in Rows /\ saved[q] = "active" /\ reg[q] \in {"none", "parked"}
    BY <2>2 DEF SleepersSaved, TypeOK
  <2>4. \A q \in sleepers : saved[q] = "asleep"
    OBVIOUS
  <2>5. \A q \in again : q \notin ptys
    BY <1>2, RestoreLeavesPtys DEF Restore
  <2>6. \A x \in again : Next1(x)[1] = x[1] /\ Marked(x)
    BY <2>3 DEF Next1, Marked
  <2>7. \A r \in fresh : \E x \in again : r = Next1(x)
    OBVIOUS
  <2>. HIDE DEF again, fresh, sleepers
  <2>8. \A q \in Rows : reg'[q] # "none" => q \in fresh \/ (Marked(q) /\ q \notin again)
    BY <2>1, <2>3, <2>4 DEF Respawned, Marked
  <2>9. \A q \in Rows : Marked(q)' => q \in fresh \/ (Marked(q) /\ q \notin again)
    BY <2>1, <2>5, <2>8, SnapshotNames DEF Marked
  <2>10. ASSUME NEW r \in Rows, NEW q \in Rows, r # q, r[1] = q[1], Marked(r)', Marked(q)'
         PROVE  FALSE
    <3>1. CASE r \notin fresh /\ q \notin fresh
      BY <1>0, <2>9, <2>10, <3>1 DEF OneRowEach
    <3>2. CASE r \in fresh /\ q \notin fresh
      BY <1>0, <2>3, <2>6, <2>7, <2>9, <2>10, <3>2 DEF OneRowEach
    <3>3. CASE r \notin fresh /\ q \in fresh
      BY <1>0, <2>3, <2>6, <2>7, <2>9, <2>10, <3>3 DEF OneRowEach
    <3>4. CASE r \in fresh /\ q \in fresh
      BY <1>0, <2>3, <2>6, <2>7, <2>10, <3>4 DEF OneRowEach
    <3>. QED  BY <3>1, <3>2, <3>3, <3>4
  <2>. QED  BY <2>10 DEF OneRowEach
<1>3. CASE Forfeit
  <2>1. \A q \in Rows : Marked(q)' => Marked(q)
    BY <1>3 DEF Forfeit, Nothing, host, Marked
  <2>. QED  BY <1>0, <2>1, MarksKept
<1>4. ASSUME NEW t \in Terminals, Create(t) PROVE OneRowEach'
  <2>. DEFINE r == <<t, 0>>
  <2>1. r \in Rows /\ r[1] = t
    BY SavedSessionAssumption DEF Rows
  <2>2. /\ reg' = [reg EXCEPT ![r] = "spawning"] /\ saved' = saved
        /\ ptys' = ptys /\ reparked' = reparked /\ settling' = settling
    BY <1>4 DEF Create, host
  <2>3. \A q \in Rows : q[1] = t => ~Marked(q)
    BY <1>4 DEF Create, Marked, TypeOK
  <2>. HIDE DEF r
  <2>4. \A q \in Rows : Marked(q)' => Marked(q) \/ q = r
    BY <2>2 DEF Marked, TypeOK
  <2>. QED  BY <1>0, <2>1, <2>3, <2>4 DEF OneRowEach
<1>5. ASSUME NEW r \in Rows, SpawnAnswers(r) PROVE OneRowEach'
  <2>1. Settles(r, reg', reparked)
    BY <1>5 DEF SpawnAnswers
  <2>2. \/ ptys' = ptys /\ reg' = reg
        \/ reg[r] # "none" /\ ptys' = ptys \cup {r} /\ reg' = [reg EXCEPT ![r] = "live"]
    BY <1>5 DEF SpawnAnswers
  <2>3. settling' \subseteq settling /\ reparked' \subseteq reparked
    BY <2>1 DEF Settles
  <2>4. \A q \in Rows : reg'[q] # "none" => reg[q] # "none"
    BY <2>2 DEF TypeOK
  <2>5. \A q \in Rows : saved'[q] # "no" => saved[q] # "no" \/ reg'[q] # "none" \/ q \in reparked
    BY <2>1, SettleNames
  <2>6. \A q \in Rows : Marked(q)' => Marked(q)
    BY <2>2, <2>3, <2>4, <2>5 DEF Marked
  <2>. QED  BY <1>0, <2>6, MarksKept
<1>6. ASSUME NEW r \in Rows, SpawnFails(r) PROVE OneRowEach'
  <2>. DEFINE again == reparked \cup ({r} \cap settling)
  <2>1. /\ ptys' = ptys /\ reg' = [reg EXCEPT ![r] = Unwound(r)]
        /\ (saved' = saved /\ reparked' = reparked /\ settling' = settling)
              \/ Settles(r, reg', again)
    BY <1>6 DEF SpawnFails, host
  <2>2. settling' \subseteq settling /\ reparked' \subseteq reparked \cup settling
    BY <2>1 DEF Settles
  <2>3. \A q \in Rows : reg'[q] # "none" => reg[q] # "none" \/ q \in settling
    BY <2>1 DEF Unwound, TypeOK
  <2>4. \A q \in Rows : saved'[q] # "no" =>
          saved[q] # "no" \/ reg'[q] # "none" \/ q \in reparked \cup settling
    <3>1. CASE Settles(r, reg', again)
      <4>1. \A q \in Rows : saved'[q] # "no" => saved[q] # "no" \/ reg'[q] # "none" \/ q \in again
        BY <3>1, SettleNames
      <4>. QED  BY <4>1
    <3>. QED  BY <2>1, <3>1
  <2>5. \A q \in Rows : Marked(q)' => Marked(q)
    BY <2>1, <2>2, <2>3, <2>4 DEF Marked
  <2>. QED  BY <1>0, <2>5, MarksKept
<1>7. ASSUME NEW r \in Rows, Exits(r) \/ Close(r) PROVE OneRowEach'
  <2>1. \A q \in Rows : Marked(q)' => Marked(q)
    BY <1>7 DEF Exits, Close, Marked, TypeOK
  <2>. QED  BY <1>0, <2>1, MarksKept
<1>8. ASSUME NEW r \in Rows, Sleep(r) PROVE OneRowEach'
  <2>1. /\ reg' = [reg EXCEPT ![r] = "asleep"] /\ reg[r] # "none" /\ saved' = Snapshot(reg')
        /\ ptys' = ptys /\ settling' = settling /\ reparked' = reparked
    BY <1>8 DEF Sleep, Writes, host
  <2>2. \A q \in Rows : reg'[q] # "none" => reg[q] # "none"
    BY <2>1 DEF TypeOK
  <2>3. \A q \in Rows : Marked(q)' => Marked(q)
    BY <2>1, <2>2, SnapshotNames DEF Marked
  <2>. QED  BY <1>0, <2>3, MarksKept
<1>9. ASSUME NEW r \in Rows, ReleaseSlept(r) \/ Wake(r) \/ AdoptOrphan(r) PROVE OneRowEach'
  <2>1. \A q \in Rows : Marked(q)' => Marked(q)
    BY <1>9 DEF ReleaseSlept, Wake, AdoptOrphan, padi, host, Marked, TypeOK
  <2>. QED  BY <1>0, <2>1, MarksKept
<1>10. CASE RestartBegins
  <2>1. /\ reg' = Empty /\ saved' = Capture(reg) /\ ptys' = {}
        /\ settling' = settling /\ reparked' = reparked
    BY <1>10 DEF RestartBegins, Writes
  <2>2. \A q \in Rows : Marked(q)' => Marked(q)
    BY <2>1, CaptureNames, SnapshotNames DEF Marked, Empty
  <2>. QED  BY <1>0, <2>2, MarksKept
<1>11. CASE Recycles \/ RestartFails
  <2>1. \A q \in Rows : Marked(q)' => Marked(q)
    BY <1>11 DEF Recycles, RestartFails, host, Marked
  <2>. QED  BY <1>0, <2>1, MarksKept
<1>12. CASE RestartParks
  <2>1. \A q \in Rows : Marked(q)' => Marked(q)
    BY <1>12 DEF RestartParks, ParkedOnto, Marked
  <2>. QED  BY <1>0, <2>1, MarksKept
<1>13. CASE CleanStop \/ Crash
  <2>1. Down /\ (saved' = saved \/ saved' = Capture(reg))
    BY <1>13 DEF CleanStop, Crash, Keeps, Writes
  <2>2. \A q \in Rows : saved'[q] # "no" => saved[q] # "no" \/ reg[q] # "none"
    BY <2>1, CaptureNames, SnapshotNames
  <2>3. \A q \in Rows : q \in ptys' => q \in ptys \/ reg[q] # "none"
    BY <2>1 DEF Down
  <2>4. reg' = Empty /\ settling' = {} /\ reparked' = {}
    BY <2>1 DEF Down
  <2>5. \A q \in Rows : Marked(q)' => Marked(q)
    BY <2>2, <2>3, <2>4 DEF Marked, Empty
  <2>. QED  BY <1>0, <2>5, MarksKept
<1>14. CASE Reboots
  <2>1. \A q \in Rows : Marked(q)' => Marked(q)
    BY <1>14 DEF Reboots, padi, Marked
  <2>. QED  BY <1>0, <2>1, MarksKept
<1>15. CASE BootParks
  <2>1. \A q \in Rows : Marked(q)' => Marked(q)
    BY <1>15 DEF BootParks, ParkedOnto, Empty, Marked
  <2>. QED  BY <1>0, <2>1, MarksKept
<1>16. CASE BootAdopts
  <2>. DEFINE rows == [r \in Rows |-> IF saved[r] = "asleep" THEN "asleep"
                                     ELSE IF r \in ptys THEN "live" ELSE "none"]
  <2>1. /\ reg' = rows /\ saved' = Snapshot(rows) /\ ptys' = ptys
        /\ settling' = settling /\ reparked' = reparked
    BY <1>16 DEF BootAdopts, Writes
  <2>2. \A q \in Rows : rows[q] # "none" => q \in ptys \/ saved[q] # "no"
    OBVIOUS
  <2>3. \A q \in Rows : Marked(q)' => Marked(q)
    BY <2>1, <2>2, SnapshotNames DEF Marked
  <2>. QED  BY <1>0, <2>3, MarksKept
<1>17. CASE UNCHANGED vars
  <2>1. \A q \in Rows : Marked(q)' => Marked(q)
    BY <1>17 DEF vars, padi, host, Marked
  <2>. QED  BY <1>0, <2>1, MarksKept
<1>. QED
  BY <1>1, <1>2, <1>3, <1>4, <1>5, <1>6, <1>7, <1>8, <1>9, <1>10, <1>11, <1>12, <1>13,
     <1>14, <1>15, <1>16, <1>17 DEF Next

LEMMA TwinsStep ==
  ASSUME RestoresSpareSleepers
  PROVE  TypeOK /\ Because /\ TwinsHold /\ [Next]_vars => TwinsHold'
BY HostsStep, ReparkedStep, SleepersStep, PtysStep, OneRowStep DEF TwinsHold

\* As long as nobody sleeps or wakes a terminal during a restore where wakes
\* may fail, a terminal never stands twice, in the registry or on disk:
\* whatever stops, restarts, reboots, fails to spawn or is restored in between.
THEOREM TerminalsAreSingle ==
  ASSUME RestoresSpareSleepers
  PROVE  Spec => []NoTwins
<1>1. TwinsHold => NoTwins
  BY DEF TwinsHold, OneRowEach, Marked, NoTwins
<1>. QED  BY <1>1, TypeInit, TypeStep, BecauseInit, BecauseStep, TwinsInit, TwinsStep, PTL DEF Spec

-----------------------------------------------------------------------------
(* What a user had stays on disk *)

\* The combinations of mishaps that no record is known to be lost in. Without
\* any one of these conditions TLC finds a loss.
Benign ==
  /\ NothingOverlaps
  /\ \A m \in Scenarios :
       /\ "restart" \in m => /\ "sleep" \notin m
                             /\ "restart fails" \notin m \/ "create without kaval" \notin m
       /\ "stop" \in m => /\ "spawn fails" \notin m /\ "crash midway" \notin m
                          /\ "sleep" \notin m \/ "reboot" \notin m

\* What the rows say of the calls and the PTYs, and a restart of the rows.
Course ==
  /\ \A r \in Rows : /\ reg[r] = "live" => r \in ptys
                     /\ reg[r] \in {"spawning", "waking"} => r \in calls
  /\ restart # "idle" => lease /\ reg = Empty
  /\ up /\ ~kaval /\ restart = "idle" => "restart fails" \in may
  /\ "sleep" \in may => kaval

\* The terminals that have a row.
Standing(rows) == {r[1] : r \in {q \in Rows : rows[q] # "none"}}

\* Before the settling of a restore writes, and before the autosave or a
\* capture does, every terminal that must not be lost has a row. After a
\* restart that failed nothing has, and then nothing may write.
SettlingStands == settling # {} => mine \subseteq Standing(reg)
IdleStands ==
  up /\ restart = "idle" /\ Parked(reg) = {} /\ (kaval \/ timer \/ reg # Empty) =>
    mine \subseteq Standing(reg)

\* Where padi may stop, a card stands for all that is saved as active, so that
\* the next boot offers it again.
CardIsWhole ==
  "stop" \in may /\ up /\ kaval /\ Parked(reg) # {} =>
    ~paired /\ settling = {} /\ \A r \in Rows : saved[r] = "active" => reg[r] = "parked"

\* What a boot that adopts finds: each terminal asleep or with its PTY. Or it
\* will not adopt, unless all that is saved sleeps.
DownKeeps ==
  ~up /\ kaval =>
    \/ \A t \in mine : \E r \in Rows :
         r[1] = t /\ (saved[r] = "asleep" \/ (saved[r] = "active" /\ r \in ptys))
    \/ ~paired /\ \A r \in Rows : saved[r] = "active" => r \notin ptys

DurableHolds ==
  DurableStays /\ SettlingStands /\ IdleStands /\ CardIsWhole /\ DownKeeps /\ Course

LEMMA DurableInit == Init => DurableHolds
BY DEF Init, DurableHolds, DurableStays, SettlingStands, IdleStands, CardIsWhole, DownKeeps,
       Course, Parked, Empty

LEMMA BenignSpares == Benign => NothingOverlaps /\ RestoresSpareSleepers
BY DEF Benign, NothingOverlaps, RestoresSpareSleepers

\* What a state's own mishaps exclude.
LEMMA BenignSays ==
  ASSUME Benign, TypeOK, Because
  PROVE  /\ "restart" \in may => "overlap" \notin may /\ "sleep" \notin may
         /\ "restart" \in may /\ "restart fails" \in may => "create without kaval" \notin may
         /\ "stop" \in may => /\ "spawn fails" \notin may /\ "crash midway" \notin may
                              /\ "sleep" \notin may \/ ("reboot" \notin may /\ "overlap" \notin may)
         /\ restart # "idle" => "overlap" \notin may /\ "sleep" \notin may
         /\ Undisturbed => restart = "idle"
BY DEF Benign, NothingOverlaps, TypeOK, Because, Undisturbed

LEMMA CourseStep ==
  ASSUME Benign, TypeOK, TypeOK', Because, ParkedHolds, TwinsHold, Course, [Next]_vars
  PROVE  Course'
<1>0. Hosts
  BY DEF TwinsHold
<1>. USE BenignSays, MayStays DEF Course
<1>1. CASE Fires \/ Forfeit
  BY <1>1 DEF Fires, Forfeit, host, Parked, Empty
<1>2. CASE Restore
  <2>. DEFINE again == {r \in Rows : saved[r] = "active" /\ reg[r] \notin Active}
              fresh == {Next1(r) : r \in again}
              sleepers == {r \in Rows : saved[r] = "asleep" /\ reg[r] = "none"}
  <2>1. /\ reg' = Respawned(again, fresh, sleepers) /\ calls' = calls \cup fresh
        /\ ptys' = ptys /\ kaval' = kaval /\ restart' = "idle" /\ up' = up /\ restart = "idle"
    BY <1>2 DEF Restore, host
  <2>. HIDE DEF again, fresh, sleepers
  <2>2. \A r \in Rows : reg'[r] = reg[r] \/ reg'[r] \in {"none", "asleep"}
                          \/ (r \in fresh /\ reg'[r] = "spawning")
    BY <2>1 DEF Respawned
  <2>. QED  BY <2>1, <2>2
<1>3. ASSUME NEW t \in Terminals, Create(t) PROVE Course'
  <2>. DEFINE r == <<t, 0>>
  <2>1. /\ reg' = [reg EXCEPT ![r] = "spawning"] /\ calls' = calls \cup {r}
        /\ ptys' = ptys /\ kaval' = kaval /\ restart' = "idle" /\ restart = "idle" /\ up' = up
    BY <1>3 DEF Create, host
  <2>. HIDE DEF r
  <2>. QED  BY <2>1 DEF TypeOK
<1>4. ASSUME NEW r \in Rows, SpawnAnswers(r) PROVE Course'
  <2>1. /\ calls' = calls \ {r} /\ lease' = lease /\ kaval' = kaval
        /\ up' = up /\ restart' = restart
        /\ IF reg[r] \in {"spawning", "waking"}
           THEN ptys' = ptys \cup {r} /\ reg' = [reg EXCEPT ![r] = "live"]
           ELSE ptys' = ptys /\ reg' = reg
    BY <1>4 DEF SpawnAnswers
  <2>2. reg = Empty => reg' = reg
    BY <2>1 DEF Empty
  <2>. QED  BY <2>1, <2>2 DEF TypeOK
<1>5. ASSUME NEW r \in Rows, SpawnFails(r) PROVE Course'
  <2>1. /\ calls' = calls \ {r} /\ lease' = lease /\ kaval' = kaval /\ ptys' = ptys
        /\ up' = up /\ restart' = restart /\ reg' = [reg EXCEPT ![r] = Unwound(r)]
    BY <1>5 DEF SpawnFails, host
  <2>2. restart # "idle" => reg' = reg
    BY <2>1 DEF Unwound, Empty, ParkedHolds, TypeOK
  <2>3. Unwound(r) \notin {"spawning", "waking"} /\ (Unwound(r) = "live" => reg[r] = "live")
    BY DEF Unwound
  <2>. QED  BY <2>1, <2>2, <2>3 DEF TypeOK
<1>6. ASSUME NEW r \in Rows, Exits(r) PROVE Course'
  BY <1>6 DEF Exits, TypeOK, Empty
<1>7. ASSUME NEW r \in Rows, Close(r) PROVE Course'
  BY <1>7 DEF Close, TypeOK, Empty
<1>8. ASSUME NEW r \in Rows, Sleep(r) PROVE Course'
  BY <1>8 DEF Sleep, TypeOK, host
<1>9. ASSUME NEW r \in Rows, ReleaseSlept(r) PROVE Course'
  BY <1>9 DEF ReleaseSlept, padi
<1>10. ASSUME NEW r \in Rows, Wake(r) PROVE Course'
  <2>1. /\ reg' = [reg EXCEPT ![r] = "waking"] /\ calls' = calls \cup {r} /\ reg[r] = "asleep"
        /\ UNCHANGED <<up, kaval, ptys, lease, restart>>
    BY <1>10 DEF Wake, host
  <2>2. restart = "idle"
    BY <2>1 DEF Empty
  <2>3. reg'[r] = "waking" /\ \A q \in Rows : q = r \/ reg'[q] = reg[q]
    BY <2>1, RowMoved
  <2>. QED  BY <2>1, <2>2, <2>3
<1>11. ASSUME NEW r \in Rows, AdoptOrphan(r) PROVE Course'
  <2>1. /\ reg' = [reg EXCEPT ![r] = "live"] /\ r \in ptys /\ restart = "idle"
        /\ UNCHANGED <<up, kaval, calls, ptys, lease, restart>>
    BY <1>11 DEF AdoptOrphan, host
  <2>2. reg'[r] = "live" /\ \A q \in Rows : q = r \/ reg'[q] = reg[q]
    BY <2>1, RowMoved
  <2>. QED  BY <2>1, <2>2
<1>12. CASE RestartBegins
  BY <1>12 DEF RestartBegins, Empty
<1>13. CASE Recycles
  BY <1>13 DEF Recycles, Empty
<1>14. CASE RestartParks
  BY <1>14 DEF RestartParks, ParkedOnto, Empty
<1>15. CASE RestartFails
  BY <1>15 DEF RestartFails, Empty, host
<1>16. CASE CleanStop \/ Crash
  BY <1>16 DEF CleanStop, Crash, Down, Empty
<1>17. CASE Reboots
  BY <1>0, <1>17 DEF Reboots, Hosts, Empty, padi, Because
<1>18. CASE BootParks
  BY <1>0, <1>18 DEF BootParks, ParkedOnto, Empty, Hosts
<1>19. CASE BootAdopts
  BY <1>0, <1>19 DEF BootAdopts, Hosts
<1>20. CASE UNCHANGED vars
  BY <1>20 DEF vars, padi, host
<1>. QED
  BY <1>1, <1>2, <1>3, <1>4, <1>5, <1>6, <1>7, <1>8, <1>9, <1>10, <1>11, <1>12, <1>13,
     <1>14, <1>15, <1>16, <1>17, <1>18, <1>19, <1>20 DEF Next

LEMMA StandingIs ==
  ASSUME NEW rows, NEW t
  PROVE  t \in Standing(rows) <=> \E q \in Rows : q[1] = t /\ rows[q] # "none"
BY DEF Standing

LEMMA NamedIs ==
  ASSUME NEW session, NEW t
  PROVE  t \in Named(session) <=> \E q \in Rows : q[1] = t /\ session[q] # "no"
BY DEF Named

\* With nothing parked, a snapshot names every terminal that has a row.
LEMMA SnapshotKeeps ==
  ASSUME NEW rows \in [Rows -> RowStates], Parked(rows) = {}
  PROVE  Standing(rows) \subseteq Named(Snapshot(rows))
<1>1. \A q \in Rows : rows[q] # "none" => Snapshot(rows)[q] # "no"
  BY SnapshotNames DEF Parked
<1>. QED  BY <1>1, StandingIs, NamedIs

\* A write that names every terminal not to be lost.
LEMMA WriteKeeps ==
  ASSUME NEW session, NEW rows, Writes(session, rows), mine \subseteq Named(session)
  PROVE  DurableStays' /\ mine' \subseteq mine \cup Standing(rows)
<1>1. saved' = session /\ mine' = mine \cup (Named(session) \cap Standing(rows))
  BY DEF Writes, Standing
<1>. QED  BY <1>1 DEF DurableStays, Named

\* A settling that has in its list whatever is parked.
LEMMA SettleKeeps ==
  ASSUME TypeOK, reg' \in [Rows -> RowStates], NEW r \in Rows, r \in settling,
         NEW again, Settles(r, reg', again), Parked(reg') \subseteq again,
         mine \subseteq Standing(reg')
  PROVE  DurableStays' /\ mine' \subseteq Standing(reg')
<1>1. Writes(MergedWith(Snapshot(reg'), ActivesOf(again)), reg')
  BY DEF Settles
<1>2. saved' = MergedWith(Snapshot(reg'), ActivesOf(again))
  BY <1>1 DEF Writes
<1>3. \A q \in Rows : reg'[q] # "none" => saved'[q] # "no"
  BY SettleNames, SnapshotNames DEF Parked
<1>4. Standing(reg') \subseteq Named(saved')
  BY <1>3, StandingIs, NamedIs
<1>. QED  BY <1>1, <1>2, <1>4, WriteKeeps

\* A capture never names less than is saved or stands.
LEMMA CaptureKeeps ==
  ASSUME TypeOK, up, restart = "idle", DurableStays, IdleStands
  PROVE  mine \subseteq Named(Capture(reg))
<1>1. CASE Snapshot(reg) = Nothing
  BY <1>1 DEF Capture, DurableStays
<1>2. CASE Snapshot(reg) # Nothing /\ Parked(reg) # {}
  <2>1. \A q \in Rows : saved[q] # "no" => Capture(reg)[q] # "no"
    BY <1>2 DEF Capture, MergedWith
  <2>. QED  BY <2>1, NamedIs DEF DurableStays
<1>3. CASE Snapshot(reg) # Nothing /\ Parked(reg) = {}
  <2>1. reg # Empty
    BY <1>3 DEF Snapshot, Nothing, Empty
  <2>2. mine \subseteq Standing(reg)
    BY <1>3, <2>1 DEF IdleStands
  <2>. QED  BY <1>3, <2>2, SnapshotKeeps DEF Capture, TypeOK
<1>. QED  BY <1>1, <1>2, <1>3

\* A restore gives every terminal on disk a row again.
LEMMA RestoreStands ==
  ASSUME TypeOK, ParkedHolds, DurableStays, Restore
  PROVE  mine \subseteq Standing(reg') /\ Parked(reg') = {}
<1>. DEFINE again == {r \in Rows : saved[r] = "active" /\ reg[r] \notin Active}
            fresh == {Next1(r) : r \in again}
            sleepers == {r \in Rows : saved[r] = "asleep" /\ reg[r] = "none"}
<1>1. reg' = Respawned(again, fresh, sleepers) /\ fresh \subseteq Rows
  BY DEF Restore
<1>2. Parked(reg) \subseteq again
  BY DEF Parked, ParkedHolds, ParkedIsOffered
<1>3. Parked(reg') = {}
  BY <1>1, <1>2 DEF Parked, Respawned
<1>4. ASSUME NEW r \in Rows, saved[r] # "no"
      PROVE  \E q \in Rows : q[1] = r[1] /\ reg'[q] # "none"
  <2>1. CASE r \in again
    <3>1. Next1(r) \in fresh /\ Next1(r)[1] = r[1]
      BY <2>1 DEF Next1
    <3>. HIDE DEF again, fresh, sleepers
    <3>. QED  BY <1>1, <3>1 DEF Respawned
  <2>2. CASE r \notin again
    <3>1. reg[r] # "none" \/ r \in sleepers
      BY <1>4, <2>2 DEF TypeOK
    <3>. HIDE DEF again, fresh, sleepers
    <3>2. reg'[r] # "none"
      BY <1>1, <2>2, <3>1 DEF Respawned
    <3>. QED  BY <3>2
  <2>. QED  BY <2>1, <2>2
<1>5. mine \subseteq Standing(reg')
  BY <1>4, NamedIs, StandingIs DEF DurableStays
<1>. QED  BY <1>3, <1>5

\* A boot that parks leaves nothing that is on disk without a row, if all of it
\* is active.
LEMMA ParkingStands ==
  ASSUME DurableStays, \A r \in Rows : saved[r] # "asleep",
         saved \in [Rows -> SessionStates],
         NEW rows, Parked(ParkedOnto(rows)) = {}
  PROVE  mine \subseteq Standing(ParkedOnto(rows))
<1>1. \A r \in Rows : saved[r] # "no" => ParkedOnto(rows)[r] # "none"
  BY DEF ParkedOnto, SessionStates
<1>. QED  BY <1>1, NamedIs, StandingIs DEF DurableStays

\* A boot that adopts leaves none either.
LEMMA AdoptingStands ==
  ASSUME TypeOK, ~up, kaval, ~Replaced, DurableStays, DownKeeps,
         NEW rows, rows = [r \in Rows |-> IF saved[r] = "asleep" THEN "asleep"
                                          ELSE IF r \in ptys THEN "live" ELSE "none"]
  PROVE  mine \subseteq Standing(rows)
<1>1. ASSUME NEW t \in mine
      PROVE  \E r \in Rows : r[1] = t /\ (saved[r] = "asleep" \/ r \in ptys)
  <2>1. CASE \A u \in mine : \E r \in Rows :
                r[1] = u /\ (saved[r] = "asleep" \/ (saved[r] = "active" /\ r \in ptys))
    BY <2>1
  <2>2. CASE ~paired /\ \A r \in Rows : saved[r] = "active" => r \notin ptys
    <3>1. \A r \in Rows : saved[r] # "active"
      BY <2>2 DEF Replaced
    <3>2. PICK r \in Rows : r[1] = t /\ saved[r] # "no"
      BY NamedIs DEF DurableStays
    <3>. QED  BY <3>1, <3>2 DEF TypeOK
  <2>. QED  BY <2>1, <2>2 DEF DownKeeps
<1>. QED  BY <1>1, StandingIs

\* Where nobody writes, and no row goes that stands for a terminal not to be lost.
LEMMA StandsKept ==
  ASSUME DurableStays, SettlingStands, IdleStands,
         saved' = saved, mine' \subseteq mine, settling' \subseteq settling,
         \A q \in Rows : reg[q] # "none" /\ q[1] \in mine' => reg'[q] # "none",
         up' /\ restart' = "idle" /\ Parked(reg') = {} /\ (kaval' \/ timer' \/ reg' # Empty) =>
           up /\ restart = "idle" /\ Parked(reg) = {} /\ (kaval \/ timer \/ reg # Empty)
  PROVE  DurableStays' /\ SettlingStands' /\ IdleStands'
<1>1. mine \subseteq Standing(reg) => mine' \subseteq Standing(reg')
  BY StandingIs
<1>2. DurableStays'
  BY DEF DurableStays, Named
<1>3. SettlingStands'
  BY <1>1 DEF SettlingStands
<1>4. IdleStands'
  BY <1>1 DEF IdleStands
<1>. QED  BY <1>2, <1>3, <1>4

LEMMA StandsStep ==
  ASSUME Benign, TypeOK, TypeOK', Because, ParkedHolds, TwinsHold, DurableHolds, [Next]_vars
  PROVE  DurableStays' /\ SettlingStands' /\ IdleStands'
<1>0. /\ DurableStays /\ SettlingStands /\ IdleStands /\ CardIsWhole /\ DownKeeps /\ Course
      /\ Hosts /\ ReparkedWait /\ Sleepers /\ ParkedIsOffered
      /\ saved \in [Rows -> SessionStates]
  BY DEF DurableHolds, TwinsHold, ParkedHolds, TypeOK, SessionStates
<1>1. CASE Fires
  <2>1. /\ reg' = reg /\ up' = up /\ restart' = restart /\ kaval' = kaval /\ timer' = FALSE
        /\ settling' = settling /\ up /\ timer
    BY <1>1 DEF Fires, host
  <2>2. CASE lease \/ Parked(reg) # {}
    <3>1. saved' = saved /\ mine' = mine
      BY <1>1, <2>2 DEF Fires, Keeps
    <3>. QED  BY <1>0, <2>1, <3>1, StandsKept
  <2>3. CASE ~(lease \/ Parked(reg) # {})
    <3>1. mine \subseteq Standing(reg)
      BY <1>0, <2>1, <2>3 DEF IdleStands, Course
    <3>2. Writes(Snapshot(reg), reg) /\ Standing(reg) \subseteq Named(Snapshot(reg))
      BY <1>1, <2>3, SnapshotKeeps DEF Fires, TypeOK
    <3>3. DurableStays' /\ mine' \subseteq Standing(reg)
      BY <3>1, <3>2, WriteKeeps
    <3>. QED  BY <2>1, <3>3 DEF SettlingStands, IdleStands
  <2>. QED  BY <2>2, <2>3
<1>2. CASE Restore
  <2>1. mine \subseteq Standing(reg') /\ Parked(reg') = {}
    BY <1>0, <1>2, RestoreStands
  <2>2. Writes(Snapshot(reg'), reg') /\ Standing(reg') \subseteq Named(Snapshot(reg'))
    BY <1>2, <2>1, SnapshotKeeps DEF Restore, TypeOK
  <2>3. DurableStays' /\ mine' \subseteq Standing(reg')
    BY <2>1, <2>2, WriteKeeps
  <2>. QED  BY <2>3 DEF SettlingStands, IdleStands
<1>3. CASE Forfeit
  BY <1>3 DEF Forfeit, DurableStays, SettlingStands, IdleStands
<1>4. ASSUME NEW t \in Terminals, Create(t)
      PROVE  DurableStays' /\ SettlingStands' /\ IdleStands'
  <2>1. up /\ restart = "idle" /\ kaval
    BY <1>0, <1>4, BenignSays DEF Create, Course, Because
  <2>2. /\ reg' = [reg EXCEPT ![<<t, 0>>] = "spawning"] /\ settling' = settling
        /\ saved' = saved /\ mine' = mine
    BY <1>4 DEF Create
  <2>3. <<t, 0>> \in Rows /\ <<t, 0>>[1] = t
    BY SavedSessionAssumption DEF Rows
  <2>5. reg[<<t, 0>>] = "none"
    BY <1>4, <2>3 DEF Create
  <2>4. /\ \A q \in Rows : reg[q] # "none" => reg'[q] # "none"
        /\ Parked(reg') = Parked(reg)
    BY <2>2, <2>3, <2>5 DEF TypeOK, Parked
  <2>. QED  BY <1>0, <2>1, <2>2, <2>4, StandsKept
<1>5. ASSUME NEW r \in Rows, SpawnAnswers(r)
      PROVE  DurableStays' /\ SettlingStands' /\ IdleStands'
  <2>1. /\ Settles(r, reg', reparked) /\ up /\ kaval /\ up' = up /\ restart' = restart
        /\ kaval' = kaval /\ settling' \subseteq settling
    BY <1>5 DEF SpawnAnswers, Settles
  <2>2. /\ \A q \in Rows : reg[q] # "none" => reg'[q] # "none"
        /\ Parked(reg') = Parked(reg)
    BY <1>5 DEF SpawnAnswers, TypeOK, Parked
  <2>3. CASE r \notin settling
    <3>1. saved' = saved /\ mine' = mine
      BY <2>1, <2>3 DEF Settles, Keeps
    <3>. QED  BY <1>0, <2>1, <2>2, <3>1, StandsKept
  <2>4. CASE r \in settling
    <3>1. mine \subseteq Standing(reg')
      BY <1>0, <2>2, <2>4, StandingIs DEF SettlingStands
    <3>2. Parked(reg') \subseteq reparked
      BY <2>2, <2>4 DEF ParkedHolds
    <3>3. DurableStays' /\ mine' \subseteq Standing(reg')
      BY <2>1, <2>4, <3>1, <3>2, SettleKeeps DEF TypeOK
    <3>. QED  BY <3>3 DEF SettlingStands, IdleStands
  <2>. QED  BY <2>3, <2>4
<1>6. ASSUME NEW r \in Rows, SpawnFails(r)
      PROVE  DurableStays' /\ SettlingStands' /\ IdleStands'
  <2>1. /\ reg' = [reg EXCEPT ![r] = Unwound(r)] /\ up' = up /\ restart' = restart
        /\ kaval' = kaval
    BY <1>6 DEF SpawnFails, host
  <2>2. CASE r \notin settling
    <3>1. /\ saved' = saved /\ mine' \subseteq mine /\ settling' = settling
          /\ reg[r] = "spawning" => mine' = mine \ {r[1]}
          /\ timer' = IF reg'[r] # reg[r] THEN TRUE ELSE timer
      BY <1>6, <2>2 DEF SpawnFails, Settles, Keeps, Ends
    <3>2. Parked(reg') = Parked(reg)
      BY <2>1, <2>2 DEF Unwound, TypeOK, Parked
    <3>3. \A q \in Rows : reg[q] # "none" /\ q[1] \in mine' => reg'[q] # "none"
      BY <2>1, <2>2, <3>1 DEF Unwound, TypeOK
    <3>4. timer' \/ reg' # Empty => timer \/ reg # Empty
      <4>1. CASE reg[r] = "none"
        <5>1. reg' = reg
          BY <2>1, <2>2, <4>1 DEF Unwound, TypeOK
        <5>. QED  BY <3>1, <5>1
      <4>2. CASE reg[r] # "none"
        BY <4>2 DEF Empty
      <4>. QED  BY <4>1, <4>2
    <3>. QED  BY <1>0, <2>1, <3>1, <3>2, <3>3, <3>4, StandsKept
  <2>3. CASE r \in settling
    <3>. DEFINE again == reparked \cup ({r} \cap settling)
    <3>1. Settles(r, reg', again)
      BY <1>6, <2>3 DEF SpawnFails
    <3>2. \A q \in Rows : reg[q] # "none" => reg'[q] # "none"
      BY <2>1, <2>3 DEF Unwound, TypeOK
    <3>3. mine \subseteq Standing(reg')
      BY <1>0, <2>3, <3>2, StandingIs DEF SettlingStands
    <3>4. Parked(reg') \subseteq again
      BY <2>1, <2>3 DEF Parked, ParkedHolds, TypeOK
    <3>. HIDE DEF again
    <3>5. DurableStays' /\ mine' \subseteq Standing(reg')
      BY <2>3, <3>1, <3>3, <3>4, SettleKeeps DEF TypeOK
    <3>. QED  BY <3>5 DEF SettlingStands, IdleStands
  <2>. QED  BY <2>2, <2>3
<1>7. ASSUME NEW r \in Rows, Exits(r)
      PROVE  DurableStays' /\ SettlingStands' /\ IdleStands'
  <2>1. /\ saved' = saved /\ mine' \subseteq mine /\ settling' = settling /\ up' = up
        /\ restart' = restart /\ kaval' = kaval
    BY <1>7 DEF Exits, Ends
  <2>2. CASE reg[r] = "live"
    <3>1. reg' = [reg EXCEPT ![r] = "none"] /\ mine' = mine \ {r[1]} /\ reg # Empty
      BY <1>7, <2>2 DEF Exits, Ends, Empty
    <3>2. Parked(reg') = Parked(reg)
      BY <2>2, <3>1 DEF TypeOK, Parked
    <3>3. \A q \in Rows : reg[q] # "none" /\ q[1] \in mine' => reg'[q] # "none"
      BY <3>1 DEF TypeOK
    <3>. QED  BY <1>0, <2>1, <3>1, <3>2, <3>3, StandsKept
  <2>3. CASE reg[r] # "live"
    <3>1. reg' = reg /\ timer' = timer
      BY <1>7, <2>3 DEF Exits
    <3>. QED  BY <1>0, <2>1, <3>1, StandsKept
  <2>. QED  BY <2>2, <2>3
<1>8. ASSUME NEW r \in Rows, Close(r)
      PROVE  DurableStays' /\ SettlingStands' /\ IdleStands'
  <2>1. /\ saved' = saved /\ mine' = mine \ {r[1]} /\ settling' = settling /\ up' = up
        /\ restart' = restart /\ kaval' = kaval /\ reg' = [reg EXCEPT ![r] = "none"]
        /\ reg[r] \in Active \cup {"asleep"}
    BY <1>8 DEF Close, Ends
  <2>2. Parked(reg') = Parked(reg) /\ reg # Empty
    BY <2>1 DEF TypeOK, Parked, Empty
  <2>3. \A q \in Rows : reg[q] # "none" /\ q[1] \in mine' => reg'[q] # "none"
    BY <2>1 DEF TypeOK
  <2>. QED  BY <1>0, <2>1, <2>2, <2>3, StandsKept
<1>9. ASSUME NEW r \in Rows, Sleep(r)
      PROVE  DurableStays' /\ SettlingStands' /\ IdleStands'
  <2>1. /\ up /\ restart = "idle" /\ reg[r] \in Active /\ reg' = [reg EXCEPT ![r] = "asleep"]
        /\ Writes(Snapshot(reg'), reg')
    BY <1>9, BenignSays DEF Sleep
  <2>2. Parked(reg) = {}
    BY <1>9 DEF Sleep, NoneRestoring, ParkedHolds
  <2>3. mine \subseteq Standing(reg)
    BY <1>0, <2>1, <2>2 DEF IdleStands, Empty
  <2>4. Parked(reg') = {} /\ \A q \in Rows : reg[q] # "none" => reg'[q] # "none"
    BY <2>1, <2>2 DEF Parked, TypeOK
  <2>5. mine \subseteq Standing(reg')
    BY <2>3, <2>4, StandingIs
  <2>6. Standing(reg') \subseteq Named(Snapshot(reg'))
    BY <2>4, SnapshotKeeps DEF TypeOK
  <2>7. DurableStays' /\ mine' \subseteq Standing(reg')
    BY <2>1, <2>5, <2>6, WriteKeeps
  <2>. QED  BY <2>7 DEF SettlingStands, IdleStands
<1>10. ASSUME NEW r \in Rows, ReleaseSlept(r)
       PROVE  DurableStays' /\ SettlingStands' /\ IdleStands'
  BY <1>0, <1>10, StandsKept DEF ReleaseSlept, padi
<1>11. ASSUME NEW r \in Rows, Wake(r)
       PROVE  DurableStays' /\ SettlingStands' /\ IdleStands'
  <2>1. /\ saved' = saved /\ mine' = mine /\ settling' = settling /\ up' = up
        /\ restart' = restart /\ kaval' = kaval /\ reg' = [reg EXCEPT ![r] = "waking"]
        /\ reg[r] = "asleep"
    BY <1>11 DEF Wake, host
  <2>2. Parked(reg') = Parked(reg) /\ reg # Empty
    BY <2>1 DEF TypeOK, Parked, Empty
  <2>3. \A q \in Rows : reg[q] # "none" => reg'[q] # "none"
    BY <2>1 DEF TypeOK
  <2>. QED  BY <1>0, <2>1, <2>2, <2>3, StandsKept
<1>12. ASSUME NEW r \in Rows, AdoptOrphan(r)
       PROVE  DurableStays' /\ SettlingStands' /\ IdleStands'
  <2>1. /\ saved' = saved /\ mine' = mine /\ settling' = settling /\ up' = up
        /\ restart' = restart /\ kaval' = kaval /\ reg' = [reg EXCEPT ![r] = "live"]
        /\ reg[r] = "none" /\ kaval
    BY <1>12 DEF AdoptOrphan, host
  <2>2. Parked(reg') = Parked(reg)
    BY <2>1 DEF TypeOK, Parked
  <2>3. \A q \in Rows : reg[q] # "none" => reg'[q] # "none"
    BY <2>1 DEF TypeOK
  <2>. QED  BY <1>0, <2>1, <2>2, <2>3, StandsKept
<1>13. CASE RestartBegins
  <2>1. /\ up /\ restart = "idle" /\ Writes(Capture(reg), reg) /\ restart' = "draining"
        /\ settling' = settling
    BY <1>13 DEF RestartBegins
  <2>2. settling = {}
    BY <1>13, BenignSays DEF RestartBegins
  <2>3. DurableStays'
    BY <1>0, <2>1, CaptureKeeps, WriteKeeps
  <2>. QED  BY <2>1, <2>2, <2>3 DEF SettlingStands, IdleStands
<1>14. CASE Recycles
  BY <1>0, <1>14 DEF Recycles, DurableStays, SettlingStands, IdleStands, Named, ParkedHolds
<1>15. CASE RestartParks
  <2>1. /\ saved' = saved /\ mine' = mine /\ reg' = ParkedOnto(reg)
        /\ settling' = {} /\ restart # "idle"
    BY <1>15 DEF RestartParks, ParkedHolds
  <2>2. \A r \in Rows : saved[r] # "asleep"
    BY <1>0, <2>1, BenignSays DEF Sleepers, NoneSleeps
  <2>3. Parked(reg') = {} => mine' \subseteq Standing(reg')
    BY <1>0, <2>1, <2>2, ParkingStands
  <2>. QED  BY <1>0, <2>1, <2>3 DEF DurableStays, SettlingStands, IdleStands, Named
<1>16. CASE RestartFails
  <2>1. /\ saved' = saved /\ mine' = mine /\ reg' = Empty /\ kaval' = kaval /\ ~kaval
        /\ timer' = FALSE /\ settling' = {}
    BY <1>0, <1>16 DEF RestartFails, host, Hosts, Course, ParkedHolds
  <2>. QED  BY <1>0, <2>1 DEF DurableStays, SettlingStands, IdleStands, Named
<1>17. CASE CleanStop \/ Crash
  <2>1. up' = FALSE /\ settling' = {} /\ up
    BY <1>17 DEF CleanStop, Crash, Down
  <2>2. CASE saved' = saved /\ mine' = mine
    BY <1>0, <2>1, <2>2 DEF DurableStays, SettlingStands, IdleStands, Named
  <2>3. CASE ~lease /\ Writes(Capture(reg), reg)
    <3>1. restart = "idle"
      BY <1>0, <2>3 DEF Course
    <3>2. DurableStays'
      BY <1>0, <2>1, <2>3, <3>1, CaptureKeeps, WriteKeeps
    <3>. QED  BY <2>1, <3>2 DEF SettlingStands, IdleStands
  <2>. QED  BY <1>17, <2>2, <2>3 DEF CleanStop, Crash, Keeps
<1>18. CASE Reboots
  <2>1. up' = FALSE /\ settling' = {} /\ saved' = saved /\ mine' = mine
    BY <1>0, <1>18 DEF Reboots, padi, Hosts, TypeOK
  <2>. QED  BY <1>0, <2>1 DEF DurableStays, SettlingStands, IdleStands, Named
<1>19. CASE BootParks
  <2>1. /\ saved' = saved /\ mine' = mine /\ reg' = ParkedOnto(Empty) /\ settling' = {}
    BY <1>0, <1>19 DEF BootParks, Hosts
  <2>2. ASSUME Parked(reg') = {} PROVE \A r \in Rows : saved[r] # "asleep"
    <3>1. \A r \in Rows : saved[r] # "active"
      BY <2>1, <2>2 DEF Parked, ParkedOnto, Empty
    <3>2. "sleep" \notin may
      BY <1>0, <1>19, <3>1 DEF BootParks, Replaced, Course
    <3>. QED  BY <1>0, <3>2 DEF Sleepers, NoneSleeps
  <2>3. Parked(reg') = {} => mine' \subseteq Standing(reg')
    BY <1>0, <2>1, <2>2, ParkingStands
  <2>. QED  BY <1>0, <2>1, <2>3 DEF DurableStays, SettlingStands, IdleStands, Named
<1>20. CASE BootAdopts
  <2>. DEFINE rows == [r \in Rows |-> IF saved[r] = "asleep" THEN "asleep"
                                     ELSE IF r \in ptys THEN "live" ELSE "none"]
  <2>1. ~up /\ kaval /\ ~Replaced /\ reg' = rows /\ Writes(Snapshot(rows), rows)
    BY <1>20 DEF BootAdopts
  <2>2. mine \subseteq Standing(rows)
    BY <1>0, <2>1, AdoptingStands
  <2>3. rows \in [Rows -> RowStates] /\ Parked(rows) = {}
    BY DEF Parked
  <2>. HIDE DEF rows
  <2>4. DurableStays' /\ mine' \subseteq Standing(rows)
    BY <2>1, <2>2, <2>3, SnapshotKeeps, WriteKeeps
  <2>. QED  BY <2>1, <2>4 DEF SettlingStands, IdleStands
<1>21. CASE UNCHANGED vars
  BY <1>0, <1>21, StandsKept DEF vars, padi, host
<1>. QED
  BY <1>1, <1>2, <1>3, <1>4, <1>5, <1>6, <1>7, <1>8, <1>9, <1>10, <1>11, <1>12, <1>13,
     <1>14, <1>15, <1>16, <1>17, <1>18, <1>19, <1>20, <1>21 DEF Next

LEMMA CardStep ==
  ASSUME Benign, TypeOK, TypeOK', Because, ParkedHolds, TwinsHold, DurableHolds, [Next]_vars
  PROVE  CardIsWhole'
<1>. SUFFICES ASSUME "stop" \in may, up', kaval', Parked(reg') # {}
              PROVE  ~paired' /\ settling' = {} /\ \A q \in Rows : saved'[q] = "active" => reg'[q] = "parked"
  BY MayStays DEF CardIsWhole
<1>0. CardIsWhole /\ Course /\ Hosts
  BY DEF DurableHolds, TwinsHold
\* While the card is there and nobody writes, parked rows stay.
<1>a. ASSUME up, kaval, Parked(reg) # {}, paired' = paired, settling' \subseteq settling,
             saved' = saved, \A q \in Rows : reg[q] = "parked" => reg'[q] = "parked"
      PROVE  ~paired' /\ settling' = {} /\ \A q \in Rows : saved'[q] = "active" => reg'[q] = "parked"
  BY <1>0, <1>a DEF CardIsWhole
<1>b. up /\ kaval /\ Parked(reg) # {} =>
        ~paired /\ settling = {} /\ \A q \in Rows : saved[q] = "active" => reg[q] = "parked"
  BY <1>0 DEF CardIsWhole
<1>. HIDE DEF CardIsWhole
<1>. DEFINE Whole == ~paired' /\ settling' = {}
                       /\ \A q \in Rows : saved'[q] = "active" => reg'[q] = "parked"
<1>1. CASE Fires
  BY <1>1, <1>a DEF Fires, Keeps, host
<1>2. CASE Restore
  BY <1>2, RestoreStands DEF DurableHolds
<1>3. CASE Forfeit
  BY <1>3 DEF Forfeit, Parked
<1>4. ASSUME NEW t \in Terminals, Create(t) PROVE Whole
  <2>1. <<t, 0>> \in Rows /\ <<t, 0>>[1] = t
    BY SavedSessionAssumption DEF Rows
  <2>2. reg[<<t, 0>>] = "none" /\ saved[<<t, 0>>] = "no"
    BY <1>4, <2>1 DEF Create
  <2>3. /\ reg' = [reg EXCEPT ![<<t, 0>>] = "spawning"] /\ settling' = settling /\ saved' = saved
        /\ paired' = paired /\ kaval' = kaval /\ up' = up
    BY <1>4 DEF Create, host
  <2>4. Parked(reg') = Parked(reg) /\ \A q \in Rows : reg[q] = "parked" => reg'[q] = "parked"
    BY <2>1, <2>2, <2>3, ParkedMoved
  <2>. QED  BY <1>a, <2>3, <2>4
<1>5. ASSUME NEW r \in Rows, SpawnAnswers(r) PROVE Whole
  <2>1. /\ Settles(r, reg', reparked) /\ up /\ kaval /\ paired' = paired
    BY <1>5 DEF SpawnAnswers
  <2>2. Parked(reg') = Parked(reg) /\ \A q \in Rows : reg[q] = "parked" => reg'[q] = "parked"
    BY <1>5 DEF SpawnAnswers, TypeOK, Parked
  <2>3. settling = {}
    BY <1>b, <2>1, <2>2
  <2>4. saved' = saved /\ settling' = {}
    BY <2>1, <2>3 DEF Settles, Keeps
  <2>. QED  BY <1>a, <2>1, <2>2, <2>4
<1>6. ASSUME NEW r \in Rows, SpawnFails(r) PROVE Whole
  BY <1>6, BenignSays DEF SpawnFails, host
<1>7. ASSUME NEW r \in Rows, Exits(r) \/ Close(r) PROVE Whole
  <2>1. /\ up' = up /\ kaval' = kaval /\ paired' = paired /\ settling' = settling /\ saved' = saved
    BY <1>7 DEF Exits, Close
  <2>2. Parked(reg') = Parked(reg) /\ \A q \in Rows : reg[q] = "parked" => reg'[q] = "parked"
    BY <1>7 DEF Exits, Close, TypeOK, Parked
  <2>. QED  BY <1>a, <2>1, <2>2
<1>8. ASSUME NEW r \in Rows, Sleep(r) PROVE Whole
  <2>1. Parked(reg) = {}
    BY <1>8 DEF Sleep, NoneRestoring, ParkedHolds
  <2>2. Parked(reg') = {}
    BY <1>8, <2>1 DEF Sleep, Parked, TypeOK
  <2>. QED  BY <2>2
<1>9. ASSUME NEW r \in Rows, ReleaseSlept(r) PROVE Whole
  BY <1>9, <1>a DEF ReleaseSlept, padi
<1>10. ASSUME NEW r \in Rows, Wake(r) \/ AdoptOrphan(r) PROVE Whole
  <2>1. /\ up' = up /\ kaval' = kaval /\ paired' = paired /\ settling' = settling /\ saved' = saved
    BY <1>10 DEF Wake, AdoptOrphan, host
  <2>2. Parked(reg') = Parked(reg) /\ \A q \in Rows : reg[q] = "parked" => reg'[q] = "parked"
    BY <1>10, ParkedMoved DEF Wake, AdoptOrphan
  <2>. QED  BY <1>a, <2>1, <2>2
<1>11. CASE RestartBegins
  BY <1>11 DEF RestartBegins, Parked, Empty
<1>12. CASE Recycles
  BY <1>12 DEF Recycles
<1>13. CASE RestartParks
  <2>1. /\ reg' = ParkedOnto(reg) /\ reg = Empty /\ saved' = saved /\ ~paired' /\ settling' = {}
    BY <1>0, <1>13 DEF RestartParks, Hosts, Course, ParkedHolds
  <2>. QED  BY <2>1 DEF ParkedOnto, Empty
<1>14. CASE RestartFails
  BY <1>0, <1>14 DEF RestartFails, host, Hosts
<1>15. CASE CleanStop \/ Crash \/ Reboots
  BY <1>15 DEF CleanStop, Crash, Down, Reboots
<1>16. CASE BootParks
  <2>1. /\ reg' = ParkedOnto(Empty) /\ saved' = saved /\ ~paired' /\ settling' = {}
    BY <1>0, <1>16 DEF BootParks, Hosts, Replaced
  <2>. QED  BY <2>1 DEF ParkedOnto, Empty
<1>17. CASE BootAdopts
  BY <1>17 DEF BootAdopts, Parked
<1>18. CASE UNCHANGED vars
  BY <1>18, <1>a DEF vars, padi, host
<1>. QED
  BY <1>1, <1>2, <1>3, <1>4, <1>5, <1>6, <1>7, <1>8, <1>9, <1>10, <1>11, <1>12, <1>13,
     <1>14, <1>15, <1>16, <1>17, <1>18 DEF Next

\* What padi leaves behind when it stops at rest, with kaval up.
LEMMA StopKeeps ==
  ASSUME Benign, TypeOK, Because, TwinsHold, DurableHolds, DurableStays', kaval,
         CleanStop \/ Crash
  PROVE  DownKeeps'
<1>0. /\ DurableStays /\ IdleStands /\ CardIsWhole /\ Course /\ Sleepers /\ OneRowEach /\ PtysAreKnown
  BY DEF DurableHolds, TwinsHold
<1>1. up /\ "stop" \in may /\ calls = {} /\ restart = "idle"
  BY BenignSays DEF CleanStop, Crash, AtRest
<1>2. ptys' = ptys /\ paired' = paired
  BY <1>1 DEF CleanStop, Crash, Down
<1>3. CASE Parked(reg) # {}
  <2>1. saved' = saved
    BY <1>3 DEF CleanStop, Crash, Keeps
  <2>2. ~paired /\ \A r \in Rows : saved[r] = "active" => reg[r] = "parked"
    BY <1>0, <1>1, <1>3 DEF CardIsWhole
  <2>3. \A r \in Rows : saved'[r] = "active" => r \notin ptys'
    BY <1>0, <1>1, <1>2, <2>1, <2>2 DEF PtysAreKnown
  <2>. QED  BY <1>2, <2>2, <2>3 DEF DownKeeps
<1>4. CASE Parked(reg) = {}
  <2>1. mine \subseteq Standing(reg)
    BY <1>0, <1>1, <1>4 DEF IdleStands
  <2>2. \/ saved' = saved /\ mine' = mine
        \/ saved' = Snapshot(reg) /\ mine' \subseteq mine \cup Standing(reg)
    <3>1. CASE saved' = saved /\ mine' = mine
      BY <3>1
    <3>2. CASE Writes(Capture(reg), reg)
      <4>1. CASE Snapshot(reg) = Nothing
        <5>1. \A q \in Rows : reg[q] = "none"
          BY <1>4, <4>1 DEF Snapshot, Nothing, Parked, TypeOK
        <5>2. Standing(reg) = {}
          BY <5>1 DEF Standing
        <5>. QED  BY <3>2, <4>1, <5>2 DEF Writes, Capture, Standing
      <4>2. CASE Snapshot(reg) # Nothing
        BY <1>4, <3>2, <4>2 DEF Writes, Capture, Standing
      <4>. QED  BY <4>1, <4>2
    <3>. QED  BY <3>1, <3>2 DEF CleanStop, Crash, Keeps
  <2>3. \A q \in Rows : reg[q] # "none" => reg[q] \in {"live", "asleep"}
    BY <1>0, <1>1, <1>4 DEF Course, Parked, TypeOK
  <2>4. (\E q \in Rows : reg[q] = "asleep") => SleepersSaved
    BY <1>0, <1>1, BenignSays DEF Sleepers, NoneSleeps
  <2>5. ASSUME NEW t \in mine'
        PROVE  \E r \in Rows :
                 r[1] = t /\ (saved'[r] = "asleep" \/ (saved'[r] = "active" /\ r \in ptys'))
    <3>1. PICK q \in Rows : q[1] = t /\ reg[q] # "none"
      BY <2>1, <2>2, StandingIs
    <3>2. reg[q] = "live" => q \in ptys'
      BY <1>0, <1>2 DEF Course
    <3>3. CASE saved' = Snapshot(reg)
      BY <2>3, <3>1, <3>2, <3>3, SnapshotNames
    <3>4. CASE saved' = saved /\ mine' = mine
      <4>1. PICK r \in Rows : r[1] = t /\ saved[r] # "no"
        BY <1>0, <3>4, NamedIs DEF DurableStays
      <4>2. r = q
        BY <1>0, <3>1, <4>1 DEF OneRowEach, Marked
      <4>3. reg[q] = "asleep" => saved[q] # "active"
        BY <2>4 DEF SleepersSaved
      <4>4. saved[q] \in {"active", "asleep"}
        BY <4>1, <4>2 DEF TypeOK
      <4>. QED  BY <2>3, <3>1, <3>2, <3>4, <4>3, <4>4
    <3>. QED  BY <2>2, <3>3, <3>4
  <2>. QED  BY <2>5 DEF DownKeeps
<1>. QED  BY <1>3, <1>4

LEMMA DownStep ==
  ASSUME Benign, TypeOK, Because, ParkedHolds, TwinsHold, DurableHolds, DurableStays', [Next]_vars
  PROVE  DownKeeps'
<1>0. DownKeeps /\ Hosts /\ Course
  BY DEF DurableHolds, TwinsHold
<1>1. CASE CleanStop \/ Crash
  <2>1. CASE kaval
    BY <1>1, <2>1, StopKeeps
  <2>2. CASE ~kaval
    BY <1>1, <2>2 DEF CleanStop, Crash, Down, DownKeeps
  <2>. QED  BY <2>1, <2>2
<1>2. CASE Reboots
  BY <1>2 DEF Reboots, DownKeeps
<1>3. ASSUME NEW r \in Rows, Exits(r) PROVE DownKeeps'
  <2>. SUFFICES ASSUME ~up, kaval PROVE DownKeeps'
    BY <1>3 DEF Exits, DownKeeps
  <2>1. /\ ptys' = ptys \ {r} /\ saved' = saved /\ paired' = paired
        /\ mine' = IF saved[r] = "asleep" THEN mine ELSE mine \ {r[1]}
    BY <1>0, <1>3 DEF Exits, Ends, Hosts, Empty
  <2>2. CASE \A t \in mine : \E q \in Rows :
                q[1] = t /\ (saved[q] = "asleep" \/ (saved[q] = "active" /\ q \in ptys))
    <3>1. ASSUME NEW t \in mine'
          PROVE  \E q \in Rows :
                   q[1] = t /\ (saved'[q] = "asleep" \/ (saved'[q] = "active" /\ q \in ptys'))
      <4>1. t \in mine
        BY <2>1
      <4>2. PICK q \in Rows : q[1] = t /\ (saved[q] = "asleep" \/ (saved[q] = "active" /\ q \in ptys))
        BY <2>2, <4>1
      <4>. QED  BY <2>1, <4>2
    <3>. QED  BY <3>1 DEF DownKeeps
  <2>3. CASE ~paired /\ \A q \in Rows : saved[q] = "active" => q \notin ptys
    BY <2>1, <2>3 DEF DownKeeps
  <2>. QED  BY <1>0, <2>2, <2>3 DEF DownKeeps
<1>4. CASE Fires \/ Restore \/ Forfeit
  BY <1>4 DEF Fires, Restore, Forfeit, DownKeeps
<1>5. ASSUME NEW t \in Terminals, Create(t) PROVE DownKeeps'
  BY <1>5 DEF Create, DownKeeps
<1>6. ASSUME NEW r \in Rows, SpawnAnswers(r) PROVE DownKeeps'
  BY <1>6 DEF SpawnAnswers, DownKeeps
<1>7. ASSUME NEW r \in Rows, SpawnFails(r) PROVE DownKeeps'
  BY <1>7 DEF SpawnFails, DownKeeps
<1>8. ASSUME NEW r \in Rows, Close(r) \/ Sleep(r) PROVE DownKeeps'
  <2>1. up /\ up' = up
    BY <1>8 DEF Close, Sleep
  <2>. QED  BY <2>1 DEF DownKeeps
<1>9. ASSUME NEW r \in Rows, ReleaseSlept(r) \/ Wake(r) \/ AdoptOrphan(r) PROVE DownKeeps'
  <2>1. up /\ up' = up
    BY <1>9 DEF ReleaseSlept, Wake, AdoptOrphan
  <2>. QED  BY <2>1 DEF DownKeeps
<1>10. CASE RestartBegins \/ Recycles \/ RestartParks \/ RestartFails
  <2>1. up /\ up' = up
    BY <1>0, <1>10 DEF RestartBegins, Recycles, RestartParks, RestartFails, Hosts
  <2>. QED  BY <2>1 DEF DownKeeps
<1>11. CASE BootParks \/ BootAdopts
  BY <1>11 DEF BootParks, BootAdopts, DownKeeps
<1>12. CASE UNCHANGED vars
  BY <1>0, <1>12 DEF vars, padi, host, DownKeeps
<1>. QED
  BY <1>1, <1>2, <1>3, <1>4, <1>5, <1>6, <1>7, <1>8, <1>9, <1>10, <1>11, <1>12 DEF Next

LEMMA DurableStep ==
  ASSUME Benign
  PROVE  TypeOK /\ TypeOK' /\ Because /\ ParkedHolds /\ TwinsHold /\ DurableHolds /\ [Next]_vars =>
           DurableHolds'
<1>. SUFFICES ASSUME TypeOK, TypeOK', Because, ParkedHolds, TwinsHold, DurableHolds, [Next]_vars
              PROVE  DurableHolds'
  OBVIOUS
<1>1. Course'
  BY CourseStep DEF DurableHolds
<1>2. DurableStays' /\ SettlingStands' /\ IdleStands'
  BY StandsStep
<1>3. CardIsWhole'
  BY CardStep
<1>4. DownKeeps'
  BY <1>2, DownStep
<1>. QED  BY <1>1, <1>2, <1>3, <1>4 DEF DurableHolds

\* A terminal that reached the disk stays there until its shell exits or the
\* user closes or forfeits it: through autosaves, captures, restarts, reboots,
\* crashes, restores, sleeps and failed spawns, in every combination of them
\* that is not one of the known losses.
THEOREM NothingIsLost ==
  ASSUME Benign
  PROVE  Spec => []DurableStays
<1>1. DurableHolds => DurableStays
  BY DEF DurableHolds
<1>2. NothingOverlaps /\ RestoresSpareSleepers
  BY BenignSpares
<1>3. TypeOK /\ TypeOK' /\ Because /\ ParkedHolds /\ [Next]_vars => ParkedHolds'
  BY <1>2, ParkedStep
<1>4. TypeOK /\ Because /\ TwinsHold /\ [Next]_vars => TwinsHold'
  BY <1>2, TwinsStep
<1>. QED
  BY <1>1, <1>3, <1>4, TypeInit, TypeStep, BecauseInit, BecauseStep, ParkedInit, TwinsInit,
     DurableInit, DurableStep, PTL DEF Spec

-----------------------------------------------------------------------------
(* What runs is on disk, or a save of it is due *)

\* No act of a user falls into a restart. With both TLC finds a terminal that
\* is created there and never saved: the lease swallows the save it asked for.
RestartsAlone == \A m \in Scenarios : ~("restart" \in m /\ "overlap" \in m)

\* An active row the disk does not name as one waits for the timer, or behind
\* a restore that is offered.
LiveIsDue ==
  \A r \in Rows : reg[r] \in Active /\ saved[r] # "active" => timer \/ Parked(reg) # {}

\* What holds it up: the lease is the restart's, and no row stands in the
\* registry while a restart runs or padi is down.
DueHolds ==
  /\ LiveIsDue
  /\ lease => restart # "idle"
  /\ restart # "idle" => up /\ reg = Empty /\ settling = {}
  /\ ~up => reg = Empty

LEMMA DueInit == Init => DueHolds
BY DEF Init, DueHolds, LiveIsDue, Empty

\* A session written from the registry names every active row of it.
LEMMA WrittenIsDue ==
  ASSUME NEW more, saved' = Snapshot(reg') \/ saved' = MergedWith(Snapshot(reg'), more)
  PROVE  LiveIsDue'
BY DEF LiveIsDue, MergedWith, Snapshot

LEMMA EmptyIsDue ==
  ASSUME reg' = Empty
  PROVE  LiveIsDue'
BY DEF LiveIsDue, Empty

LEMMA ParkedOntoEmpty ==
  ASSUME reg' = ParkedOnto(Empty)
  PROVE  LiveIsDue'
BY DEF LiveIsDue, ParkedOnto, Empty

LEMMA DueStep ==
  ASSUME RestartsAlone
  PROVE  TypeOK /\ Because /\ DueHolds /\ [Next]_vars => DueHolds'
<1>. SUFFICES ASSUME TypeOK, Because, DueHolds, [Next]_vars PROVE DueHolds'
  OBVIOUS
<1>a. "overlap" \in may => restart = "idle" /\ "restart" \notin may
  BY DEF TypeOK, RestartsAlone, Because
<1>b. restart # "idle" => \A r \in Rows : reg[r] = "none"
  BY DEF DueHolds, Empty
<1>1. CASE Fires
  <2>1. CASE lease
    <3>1. reg' = Empty
      BY <1>1, <2>1 DEF Fires, DueHolds
    <3>. QED  BY <1>1, <3>1, EmptyIsDue DEF Fires, DueHolds
  <2>2. CASE Parked(reg) # {}
    BY <1>1, <2>2 DEF Fires, Keeps, DueHolds, LiveIsDue
  <2>3. CASE ~lease /\ Parked(reg) = {}
    <3>1. saved' = Snapshot(reg') /\ reg' = reg
      BY <1>1, <2>3 DEF Fires, Writes
    <3>. QED  BY <1>1, <3>1, WrittenIsDue DEF Fires, DueHolds
  <2>. QED  BY <2>1, <2>2, <2>3
<1>2. CASE Restore
  <2>1. saved' = Snapshot(reg') /\ restart = "idle"
    BY <1>2, <1>a DEF Restore, Writes, Undisturbed
  <2>. QED  BY <1>2, <2>1, WrittenIsDue DEF Restore, DueHolds
<1>3. CASE Forfeit
  <2>1. CASE Parked(reg) # {}
    BY <1>3, <1>a, <2>1 DEF Forfeit, DueHolds, LiveIsDue, Undisturbed
  <2>2. CASE Parked(reg) = {}
    <3>1. \A r \in Rows : reg'[r] = "none"
      BY <1>3, <2>2 DEF Forfeit, Offered, Empty
    <3>. QED  BY <1>3, <1>a, <3>1 DEF Forfeit, DueHolds, LiveIsDue, Undisturbed
  <2>. QED  BY <2>1, <2>2
<1>4. ASSUME NEW t \in Terminals, Create(t) PROVE DueHolds'
  BY <1>4, <1>a DEF Create, DueHolds, LiveIsDue, Undisturbed
<1>5. ASSUME NEW r \in Rows, SpawnAnswers(r) PROVE DueHolds'
  <2>1. Settles(r, reg', reparked)
    BY <1>5 DEF SpawnAnswers
  <2>2. restart # "idle" => reg' = reg /\ settling' = {}
    BY <1>5, <1>b, <2>1 DEF SpawnAnswers, Settles, DueHolds
  <2>3. CASE r \in settling
    <3>1. saved' = MergedWith(Snapshot(reg'), ActivesOf(reparked))
      BY <2>1, <2>3 DEF Settles, Writes
    <3>. QED  BY <1>5, <2>2, <3>1, WrittenIsDue DEF SpawnAnswers, DueHolds
  <2>4. CASE r \notin settling
    <3>1. saved' = saved /\ timer' = timer
      BY <1>5, <2>1, <2>4 DEF SpawnAnswers, Settles, Keeps
    <3>2. \A q \in Rows : /\ reg'[q] \in Active <=> reg[q] \in Active
                          /\ reg'[q] = "parked" <=> reg[q] = "parked"
      BY <1>5 DEF SpawnAnswers, TypeOK
    <3>3. LiveIsDue'
      BY <3>1, <3>2 DEF DueHolds, LiveIsDue, Parked
    <3>. QED  BY <1>5, <2>2, <3>3 DEF SpawnAnswers, DueHolds
  <2>. QED  BY <2>3, <2>4
<1>6. ASSUME NEW r \in Rows, SpawnFails(r) PROVE DueHolds'
  <2>1. reg' = [reg EXCEPT ![r] = Unwound(r)]
    BY <1>6 DEF SpawnFails
  <2>2. restart # "idle" => reg'[r] = reg[r] /\ settling = {}
    BY <1>b, <2>1, RowMoved DEF Unwound, DueHolds
  <2>a. reg'[r] = reg[r] => reg' = reg
    BY <2>1, RowMoved DEF TypeOK
  <2>b. settling' \subseteq settling
    BY <1>6 DEF SpawnFails, Settles
  <2>3. restart # "idle" => reg' = reg /\ settling' = {}
    BY <2>2, <2>a, <2>b
  <2>4. CASE r \in settling
    <3>1. saved' = MergedWith(Snapshot(reg'), ActivesOf(reparked \cup ({r} \cap settling)))
      BY <1>6, <2>4 DEF SpawnFails, Settles, Writes
    <3>. QED  BY <1>6, <2>3, <3>1, WrittenIsDue DEF SpawnFails, DueHolds
  <2>5. CASE r \notin settling
    <3>1. saved' = saved
      BY <1>6, <2>5 DEF SpawnFails, Settles, Keeps
    <3>2. reg' # reg => timer'
      BY <1>6, <2>a, <2>5 DEF SpawnFails
    <3>3. reg' = reg => timer' = timer
      BY <1>6, <2>5 DEF SpawnFails
    <3>4. LiveIsDue'
      BY <3>1, <3>2, <3>3 DEF DueHolds, LiveIsDue
    <3>. QED  BY <1>6, <2>3, <3>4 DEF SpawnFails, DueHolds
  <2>. QED  BY <2>4, <2>5
<1>7. ASSUME NEW r \in Rows, Exits(r) PROVE DueHolds'
  <2>1. CASE reg[r] = "live"
    BY <1>7, <1>b, <2>1 DEF Exits, DueHolds, LiveIsDue, Empty
  <2>2. CASE reg[r] # "live"
    BY <1>7, <2>2 DEF Exits, DueHolds, LiveIsDue
  <2>. QED  BY <2>1, <2>2
<1>8. ASSUME NEW r \in Rows, Close(r) PROVE DueHolds'
  BY <1>8, <1>b DEF Close, DueHolds, LiveIsDue
<1>9. ASSUME NEW r \in Rows, Sleep(r) PROVE DueHolds'
  BY <1>9, <1>a DEF Sleep, DueHolds, LiveIsDue, Undisturbed
<1>10. ASSUME NEW r \in Rows, ReleaseSlept(r) PROVE DueHolds'
  BY <1>10 DEF ReleaseSlept, padi, DueHolds, LiveIsDue
<1>11. ASSUME NEW r \in Rows, Wake(r) PROVE DueHolds'
  BY <1>11, <1>a DEF Wake, DueHolds, LiveIsDue, Undisturbed
<1>12. ASSUME NEW r \in Rows, AdoptOrphan(r) PROVE DueHolds'
  BY <1>12 DEF AdoptOrphan, DueHolds, LiveIsDue
<1>13. CASE RestartBegins
  <2>1. settling' = {}
    BY <1>13, <1>a DEF RestartBegins
  <2>. QED  BY <1>13, <2>1, EmptyIsDue DEF RestartBegins, DueHolds
<1>14. CASE Recycles
  BY <1>14 DEF Recycles, DueHolds, LiveIsDue
<1>15. CASE RestartParks
  <2>1. reg' = ParkedOnto(Empty) /\ up' = up
    BY <1>15 DEF RestartParks, DueHolds
  <2>2. up
    BY <1>15 DEF RestartParks, DueHolds
  <2>. QED  BY <1>15, <2>1, <2>2, ParkedOntoEmpty DEF RestartParks, DueHolds
<1>16. CASE RestartFails
  <2>1. reg' = Empty
    BY <1>16 DEF RestartFails, DueHolds
  <2>. QED  BY <1>16, <2>1, EmptyIsDue DEF RestartFails, DueHolds
<1>17. CASE CleanStop \/ Crash
  <2>1. Down
    BY <1>17 DEF CleanStop, Crash
  <2>. QED  BY <2>1, EmptyIsDue DEF Down, DueHolds
<1>18. CASE Reboots
  BY <1>18 DEF Reboots, padi, DueHolds, LiveIsDue
<1>19. CASE BootParks
  BY <1>19, ParkedOntoEmpty DEF BootParks, DueHolds
<1>20. CASE BootAdopts
  <2>1. saved' = Snapshot(reg')
    BY <1>20 DEF BootAdopts, Writes
  <2>. QED  BY <1>20, <2>1, WrittenIsDue DEF BootAdopts, DueHolds
<1>21. CASE UNCHANGED vars
  BY <1>21 DEF vars, padi, DueHolds, LiveIsDue
<1>. QED
  BY <1>1, <1>2, <1>3, <1>4, <1>5, <1>6, <1>7, <1>8, <1>9, <1>10, <1>11, <1>12, <1>13,
     <1>14, <1>15, <1>16, <1>17, <1>18, <1>19, <1>20, <1>21 DEF Next

\* While nothing is parked, a terminal that runs is on disk or the timer of
\* the autosave that will put it there is armed (autosaveGate.ts): no step
\* cancels a save it has not made itself. LiveIsSaved adds that it fires.
THEOREM SaveIsDue ==
  ASSUME RestartsAlone
  PROVE  Spec => []LiveIsDue
<1>1. DueHolds => LiveIsDue
  BY DEF DueHolds
<1>. QED
  BY <1>1, DueInit, DueStep, TypeInit, TypeStep, BecauseInit, BecauseStep, PTL DEF Spec
=============================================================================
