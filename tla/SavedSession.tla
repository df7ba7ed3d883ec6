---------------------------- MODULE SavedSession ----------------------------
(***************************************************************************)
(* The session padi keeps on disk: the rows of its terminal registry, the  *)
(* PTYs kaval holds, and the four writers of the saved session - the       *)
(* autosave gate, the restart's capture, the restore and the boot.         *)
(*                                                                         *)
(* Code: packages/padi/src/session/{autosaveGate,session,sessionRestore,   *)
(* pairedDaemon,reconcile}.ts, ptyHost/restartLocal.ts,                    *)
(* terminalEndpoint/{local,reattach,inventoryReconcile}.ts.                *)
(*                                                                         *)
(* An action is one synchronous stretch of padi's event loop. A pulse of   *)
(* terminals:dirty reaches the gate after the stretch that sent it, so an  *)
(* action that dirties leaves the timer armed even when it also writes.    *)
(* Simplifications:                                                        *)
(*   - splits, the focus marker and the import of a session are left out;  *)
(*   - a kill reaches kaval in the step that sends it, except a sleep's;   *)
(*   - one restore is unsettled at a time, and one spawn call per id;      *)
(*   - an id no trace is left of may be used again by a new terminal.      *)
(***************************************************************************)
EXTENDS Naturals, FiniteSets

CONSTANTS
  Terminals,  \* what a user thinks of as one terminal
  MaxGen,     \* bound: respawns of a terminal; each takes a fresh id
  Scenarios   \* what may go wrong in one behaviour: a set of sets of Mishaps

Mishaps == {"restart", "restart fails", "create without kaval", "spawn fails", "stop",
            "crash midway", "reboot", "sleep", "overlap"}

ASSUME SavedSessionAssumption ==
  /\ MaxGen \in Nat
  /\ Scenarios \subseteq SUBSET Mishaps
  /\ Scenarios # {}

Rows == Terminals \X (0..MaxGen)   \* a row's id: the terminal and its incarnation

Active == {"spawning", "waking", "live"}
RowStates == Active \cup {"none", "asleep", "parked"}

VARIABLES
  up,        \* padi runs
  reg,       \* [Rows -> RowStates], padi's registry
  calls,     \* rows whose spawn call has not been answered
  settling,  \* those of them settleRestoreRespawns awaits
  reparked,  \* the records that restore has re-parked so far
  timer,     \* saveTimer is armed
  lease,     \* the restart's freeze lease is held
  restart,   \* where restartLocalDaemon stands
  saved,     \* [Rows -> {"no", "active", "asleep"}], the session on disk
  kaval,     \* a kaval serves
  ptys,      \* the rows it holds a PTY for
  paired,    \* the recorded pairing names that kaval
  mine,      \* history: terminals once on disk that no exit, close or forfeit ended
  may        \* history: the mishaps of this behaviour

padi == <<reg, calls, settling, reparked, timer, lease, restart>>
host == <<kaval, ptys, paired>>
vars == <<up, padi, saved, host, mine, may>>

TypeOK ==
  /\ up \in BOOLEAN
  /\ reg \in [Rows -> RowStates]
  /\ calls \subseteq Rows
  /\ settling \subseteq calls
  /\ reparked \subseteq Rows
  /\ timer \in BOOLEAN
  /\ lease \in BOOLEAN
  /\ restart \in {"idle", "draining", "recycling"}
  /\ saved \in [Rows -> {"no", "active", "asleep"}]
  /\ kaval \in BOOLEAN
  /\ ptys \subseteq Rows
  /\ paired \in BOOLEAN
  /\ mine \subseteq Terminals
  /\ may \in Scenarios

-----------------------------------------------------------------------------
(* What the code computes from a registry and from a session. *)

Empty == [r \in Rows |-> "none"]
Nothing == [r \in Rows |-> "no"]
Next1(r) == <<r[1], r[2] + 1>>   \* the fresh id of a respawn

\* snapshotSession: parked rows are not part of it.
Snapshot(rows) ==
  [r \in Rows |-> IF rows[r] \in Active THEN "active"
                  ELSE IF rows[r] = "asleep" THEN "asleep" ELSE "no"]

Parked(rows) == {r \in Rows : rows[r] = "parked"}

\* The records of `more` that `session` does not name, added to it.
MergedWith(session, more) ==
  [r \in Rows |-> IF session[r] = "no" THEN more[r] ELSE session[r]]

ActivesOf(S) == [r \in Rows |-> IF r \in S THEN "active" ELSE "no"]

Named(session) == {r[1] : r \in {q \in Rows : session[q] # "no"}}

\* parkSavedSession: active records only, and never over a row that is there.
ParkedOnto(rows) ==
  [r \in Rows |-> IF saved[r] = "active" /\ rows[r] = "none" THEN "parked" ELSE rows[r]]

\* Mutant: a capture that finds nothing clears what is saved.
CaptureClears(rows) ==
  IF Parked(rows) # {} /\ Snapshot(rows) # Nothing
  THEN MergedWith(Snapshot(rows), saved) ELSE Snapshot(rows)

\* setSavedSessionFromSnapshot: an empty registry keeps what is saved, a
\* pending restore merges, anything else replaces.
Capture(rows) ==
  IF Snapshot(rows) = Nothing THEN saved
  ELSE IF Parked(rows) # {} THEN MergedWith(Snapshot(rows), saved)
  ELSE Snapshot(rows)

\* isReplacedDaemon.
Replaced ==
  LET actives == {r \in Rows : saved[r] = "active"}
  IN  actives # {} /\ actives \cap ptys = {} /\ ~paired

\* A record of a terminal that is not there is not had anew.
Writes(session, rows) ==
  /\ saved' = session
  /\ mine' = mine \cup (Named(session) \cap {r[1] : r \in {q \in Rows : rows[q] # "none"}})

Keeps == UNCHANGED <<saved, mine>>
Ends(t) == mine' = mine \ {t}

-----------------------------------------------------------------------------
(* The autosave gate. *)

\* initAutosaveGate's fire, with decideSave.
Fires ==
  /\ up /\ timer
  /\ timer' = FALSE
  /\ IF lease \/ Parked(reg) # {} THEN Keeps ELSE Writes(Snapshot(reg), reg)
  /\ UNCHANGED <<up, reg, calls, settling, reparked, lease, restart, host, may>>

-----------------------------------------------------------------------------
(* A terminal's life. *)

\* A user's act in the middle of a restart counts as an overlap.
Undisturbed == restart = "idle" \/ "overlap" \in may

\* So does putting a terminal to sleep, or waking it, while a restore is
\* pending or unsettled.
NoneRestoring == (Parked(reg) = {} /\ settling = {}) \/ "overlap" \in may

\* registerActiveAndSpawn: the row is there before the PTY is asked for.
Create(t) ==
  LET r == <<t, 0>>
  IN  /\ up /\ Undisturbed
      /\ kaval \/ "create without kaval" \in may
      /\ \A q \in Rows : q[1] = t =>
           reg[q] = "none" /\ saved[q] = "no" /\ q \notin calls \cup ptys \cup reparked
      /\ reg' = [reg EXCEPT ![r] = "spawning"]
      /\ calls' = calls \cup {r}
      /\ timer' = TRUE
      /\ UNCHANGED <<up, settling, reparked, lease, restart, saved, host, mine, may>>

\* Mutant: the settled call is awaited again.
SettlesTwice(r, rows, again) ==
  /\ settling' = settling
  /\ reparked' = again
  /\ IF r \in settling THEN Writes(MergedWith(Snapshot(rows), ActivesOf(again)), rows)
     ELSE Keeps

\* Mutant: only what is live is persisted, without the re-parked records.
SettlesLiveOnly(r, rows, again) ==
  /\ settling' = settling \ {r}
  /\ reparked' = IF settling' = {} THEN {} ELSE again
  /\ IF r \in settling THEN Writes(Snapshot(rows), rows) ELSE Keeps

\* persistSettledRestoreSnapshot, which asks the gate nothing.
Settles(r, rows, again) ==
  /\ settling' = settling \ {r}
  /\ reparked' = IF settling' = {} THEN {} ELSE again
  /\ IF r \in settling THEN Writes(MergedWith(Snapshot(rows), ActivesOf(again)), rows)
     ELSE Keeps

\* spawnViaClient answers: a row that is no longer the one it was spawned
\* for has its PTY killed, and a restore does not re-park it.
SpawnAnswers(r) ==
  /\ up /\ r \in calls /\ kaval
  /\ calls' = calls \ {r}
  /\ IF reg[r] \in {"spawning", "waking"}
     THEN /\ reg' = [reg EXCEPT ![r] = "live"]
          /\ ptys' = ptys \cup {r}
     ELSE UNCHANGED <<reg, ptys>>
  /\ Settles(r, reg', reparked)
  /\ timer' \in IF r \in settling THEN BOOLEAN ELSE {timer}
  /\ UNCHANGED <<up, lease, restart, kaval, paired, may>>

\* The row as spawnAndWire's unwind leaves it: a wake goes back to sleep, a
\* fresh row goes, and a restore's comes back parked under its new id.
Unwound(r) ==
  IF reg[r] = "waking" THEN "asleep"
  ELSE IF r \in settling /\ reg[r] \in {"spawning", "none"} THEN "parked"
  ELSE IF reg[r] = "spawning" THEN "none"
  ELSE reg[r]

SpawnFails(r) ==
  /\ up /\ r \in calls
  /\ ~kaval \/ "spawn fails" \in may
  /\ calls' = calls \ {r}
  /\ reg' = [reg EXCEPT ![r] = Unwound(r)]
  /\ IF r \notin settling /\ reg[r] = "spawning"
     THEN /\ UNCHANGED <<settling, reparked, saved>>
          /\ Ends(r[1])   \* it never came to be
     ELSE Settles(r, reg', reparked \cup ({r} \cap settling))
  /\ timer' \in IF r \in settling THEN BOOLEAN
                ELSE IF reg'[r] # reg[r] THEN {TRUE} ELSE {timer}
  /\ UNCHANGED <<up, lease, restart, host, may>>

\* handleExit, or a PTY nobody tracks going away.
Exits(r) ==
  /\ r \in ptys
  /\ ptys' = ptys \ {r}
  /\ IF reg[r] = "live"
     THEN reg' = [reg EXCEPT ![r] = "none"] /\ timer' = TRUE
     ELSE UNCHANGED <<reg, timer>>
  /\ IF saved[r] = "asleep" /\ reg[r] # "live" THEN mine' = mine ELSE Ends(r[1])
  /\ UNCHANGED <<up, calls, settling, reparked, lease, restart, saved, kaval, paired, may>>

\* killTerminal and discardSleeping. A parked row cannot be closed.
Close(r) ==
  /\ up /\ reg[r] \in Active \cup {"asleep"}
  /\ reg' = [reg EXCEPT ![r] = "none"]
  /\ ptys' = ptys \ {r}
  /\ timer' = TRUE
  /\ Ends(r[1])
  /\ UNCHANGED <<up, calls, settling, reparked, lease, restart, saved, kaval, paired, may>>

\* sleepTerminal up to its await: flip, save past the gate, then kill.
Sleep(r) ==
  /\ up /\ Undisturbed /\ "sleep" \in may /\ reg[r] \in Active
  /\ NoneRestoring
  /\ reg' = [reg EXCEPT ![r] = "asleep"]
  /\ Writes(Snapshot(reg'), reg')
  /\ timer' = TRUE
  /\ UNCHANGED <<up, calls, settling, reparked, lease, restart, host, may>>

\* releaseSleptPty, and the boot's reaping of a sleeper's PTY.
ReleaseSlept(r) ==
  /\ up /\ kaval /\ reg[r] = "asleep" /\ r \in ptys
  /\ ptys' = ptys \ {r}
  /\ UNCHANGED <<up, padi, saved, kaval, paired, mine, may>>

Wake(r) ==
  /\ up /\ Undisturbed /\ NoneRestoring
  /\ reg[r] = "asleep" /\ r \notin calls \cup ptys
  /\ reg' = [reg EXCEPT ![r] = "waking"]
  /\ calls' = calls \cup {r}
  /\ timer' = TRUE
  /\ UNCHANGED <<up, settling, reparked, lease, restart, saved, host, mine, may>>

\* Mutant: only a PTY the saved session names is taken in.
AdoptOrphanIfSaved(r) ==
  /\ up /\ kaval /\ restart = "idle"
  /\ r \in ptys /\ reg[r] = "none" /\ saved[r] # "no"
  /\ reg' = [reg EXCEPT ![r] = "live"]
  /\ timer' = TRUE
  /\ UNCHANGED <<up, calls, settling, reparked, lease, restart, saved, host, mine, may>>

\* inventoryReconcile: a PTY kaval lists and padi does not track.
AdoptOrphan(r) ==
  /\ up /\ kaval /\ restart = "idle"
  /\ r \in ptys /\ reg[r] = "none"
  /\ reg' = [reg EXCEPT ![r] = "live"]
  /\ timer' = TRUE
  /\ UNCHANGED <<up, calls, settling, reparked, lease, restart, saved, host, mine, may>>

-----------------------------------------------------------------------------
(* The restore card. *)

\* The client offers the card while something is parked or nothing is there.
Offered == saved # Nothing /\ (Parked(reg) # {} \/ reg = Empty)

\* Mutant: the parked row is left where it is.
RespawnedBeside(again, fresh, sleepers) ==
  [r \in Rows |-> IF r \in fresh THEN "spawning"
                  ELSE IF r \in sleepers THEN "asleep" ELSE reg[r]]

\* What the restore does to the rows: the parked one is consumed.
Respawned(again, fresh, sleepers) ==
  [r \in Rows |-> IF r \in fresh THEN "spawning"
                  ELSE IF r \in again /\ reg[r] = "parked" THEN "none"
                  ELSE IF r \in sleepers THEN "asleep" ELSE reg[r]]

\* restoreSession up to its await: consume the parked rows, respawn each
\* under a fresh id, seed the sleepers, and save what is now there.
Restore ==
  LET again  == {r \in Rows : saved[r] = "active" /\ reg[r] \notin Active}
      fresh  == {Next1(r) : r \in again}
      sleepers == {r \in Rows : saved[r] = "asleep" /\ reg[r] = "none"}
  IN  /\ up /\ Undisturbed /\ Offered /\ settling = {}
      /\ fresh \subseteq Rows \ calls
      /\ reg' = Respawned(again, fresh, sleepers)
      /\ calls' = calls \cup fresh
      /\ settling' = fresh
      /\ reparked' = {}
      /\ Writes(Snapshot(reg'), reg')
      /\ timer' = (fresh # {})
      /\ UNCHANGED <<up, lease, restart, host, may>>

\* Mutant: clearing the session cancels the save its discards asked for.
ForfeitCancels ==
  /\ up /\ Undisturbed /\ Offered
  /\ reg' = [r \in Rows |-> IF reg[r] = "parked" THEN "none" ELSE reg[r]]
  /\ saved' = Nothing
  /\ mine' = {}
  /\ timer' = FALSE
  /\ UNCHANGED <<up, calls, settling, reparked, lease, restart, host, may>>

\* forfeitSession.
Forfeit ==
  /\ up /\ Undisturbed /\ Offered
  /\ reg' = [r \in Rows |-> IF reg[r] = "parked" THEN "none" ELSE reg[r]]
  /\ saved' = Nothing
  /\ mine' = {}
  /\ timer' = (Parked(reg) # {})
  /\ UNCHANGED <<up, calls, settling, reparked, lease, restart, host, may>>

-----------------------------------------------------------------------------
(* restartLocalDaemon. *)

\* Its capture, and killAllTerminals, which dirties nothing.
RestartBegins ==
  /\ up /\ restart = "idle" /\ "restart" \in may
  /\ settling = {} \/ "overlap" \in may
  /\ Writes(Capture(reg), reg)
  /\ lease' = TRUE
  /\ timer' = FALSE
  /\ reg' = Empty
  /\ restart' = "draining"
  /\ ptys' = {}
  /\ UNCHANGED <<up, calls, settling, reparked, kaval, paired, may>>

\* The old kaval is reaped and its PTYs with it.
Recycles ==
  /\ restart = "draining"
  /\ restart' = "recycling"
  /\ kaval' = FALSE
  /\ ptys' = {}
  /\ paired' = FALSE
  /\ UNCHANGED <<up, reg, calls, settling, reparked, timer, lease, saved, mine, may>>

\* A fresh kaval connected: park, then the lease and the timer go.
RestartParks ==
  /\ restart = "recycling"
  /\ kaval' = TRUE
  /\ reg' = ParkedOnto(reg)
  /\ restart' = "idle"
  /\ lease' = FALSE
  /\ timer' = FALSE
  /\ UNCHANGED <<up, calls, settling, reparked, saved, ptys, paired, mine, may>>

\* None did: nothing is parked.
RestartFails ==
  /\ restart = "recycling" /\ "restart fails" \in may
  /\ restart' = "idle"
  /\ lease' = FALSE
  /\ timer' = FALSE
  /\ UNCHANGED <<up, reg, calls, settling, reparked, saved, host, mine, may>>

-----------------------------------------------------------------------------
(* padi stops, the host reboots, padi boots. *)

\* What dies with the process. A call in flight may have reached kaval.
Down ==
  /\ \E reached \in SUBSET calls :
       ptys' = IF kaval THEN ptys \cup {r \in reached : reg[r] \in Active} ELSE ptys
  /\ up' = FALSE
  /\ reg' = Empty
  /\ calls' = {} /\ settling' = {} /\ reparked' = {}
  /\ timer' = FALSE /\ lease' = FALSE
  /\ restart' = "idle"
  /\ UNCHANGED <<kaval, paired, may>>

\* Nothing padi has begun is unfinished.
AtRest == calls = {} /\ restart = "idle"

\* An orderly stop: captureFinalSession.
CleanStop ==
  /\ up /\ "stop" \in may
  /\ AtRest \/ "crash midway" \in may
  /\ IF lease \/ Parked(reg) # {} THEN Keeps ELSE Writes(Capture(reg), reg)
  /\ Down

Crash ==
  /\ up /\ "stop" \in may
  /\ AtRest \/ "crash midway" \in may
  /\ Keeps
  /\ Down

\* kaval goes while padi is down; another may be started out of band.
Reboots ==
  /\ ~up /\ "reboot" \in may
  /\ ptys' = {}
  /\ paired' = FALSE
  /\ kaval' \in BOOLEAN
  /\ UNCHANGED <<up, padi, saved, mine, may>>

\* onNotAdopted, or a kaval that is not the one padi left.
BootParks ==
  /\ ~up /\ (~kaval \/ Replaced)
  /\ up' = TRUE
  /\ kaval' = TRUE
  /\ reg' = ParkedOnto(Empty)
  /\ UNCHANGED <<calls, settling, reparked, timer, lease, restart, saved, ptys, paired, mine, may>>

\* adoptSurvivingSession: every PTY is taken in, but a sleeper's is reaped.
BootAdopts ==
  LET rows == [r \in Rows |-> IF saved[r] = "asleep" THEN "asleep"
                              ELSE IF r \in ptys THEN "live" ELSE "none"]
  IN  /\ ~up /\ kaval /\ ~Replaced
      /\ up' = TRUE
      /\ reg' = rows
      /\ Writes(Snapshot(rows), rows)
      /\ paired' = TRUE
      /\ timer' \in BOOLEAN
      /\ UNCHANGED <<calls, settling, reparked, lease, restart, kaval, ptys, may>>

-----------------------------------------------------------------------------
Init ==
  /\ up = TRUE
  /\ reg = Empty
  /\ calls = {} /\ settling = {} /\ reparked = {}
  /\ timer = FALSE /\ lease = FALSE
  /\ restart = "idle"
  /\ saved = Nothing
  /\ kaval = TRUE
  /\ ptys = {}
  /\ paired = FALSE
  /\ mine = {}
  /\ may \in Scenarios

Next ==
  \/ Fires \/ Restore \/ Forfeit
  \/ \E t \in Terminals : Create(t)
  \/ \E r \in Rows :
       \/ SpawnAnswers(r) \/ SpawnFails(r) \/ Exits(r) \/ Close(r)
       \/ Sleep(r) \/ ReleaseSlept(r) \/ Wake(r) \/ AdoptOrphan(r)
  \/ RestartBegins \/ Recycles \/ RestartParks \/ RestartFails
  \/ CleanStop \/ Crash \/ Reboots \/ BootParks \/ BootAdopts

Spec == Init /\ [][Next]_vars

\* Timers fire, kaval lists what it holds and kills what it is told to kill.
FairSpec ==
  /\ Spec
  /\ WF_vars(Fires)
  /\ \A r \in Rows : WF_vars(AdoptOrphan(r)) /\ WF_vars(ReleaseSlept(r))

-----------------------------------------------------------------------------
(* Properties *)

\* A terminal that reached the disk stays there until its shell exits or the
\* user closes or forfeits it, whatever padi and kaval do in between
\* (restartLocal.ts:51-53, reattach.ts:78-95, sessionRestore.ts CONF-6).
DurableStays == mine \subseteq Named(saved)

\* A terminal never stands twice in the registry or on disk: the parked row
\* is the restore's idempotency token (sessionRestore.ts:72-78).
NoTwins ==
  \A r, q \in Rows : r # q /\ r[1] = q[1] =>
    /\ reg[r] = "none" \/ reg[q] = "none"
    /\ saved[r] = "no" \/ saved[q] = "no"

\* Every parked row is one the saved session names. A row it does not name
\* can never be consumed and would silence the autosave for good
\* (autosaveGate.ts:232-236).
ParkedIsOffered == \A r \in Parked(reg) : saved[r] = "active"

\* A terminal that stays live while nothing is parked reaches the disk and
\* stays: no cancelled timer, freeze or suppressed save leaves it out for good.
LiveIsSaved ==
  \A r \in Rows :
    <>[](up /\ restart = "idle" /\ reg[r] = "live" /\ Parked(reg) = {})
      => <>[](saved[r] = "active")

\* A PTY that kaval keeps holding is one padi shows: none is left running
\* behind a restore card or a sleeping row (inventoryReconcile, reattach.ts F3).
NoHiddenShell ==
  \A r \in Rows :
    <>[](up /\ restart = "idle" /\ kaval /\ r \in ptys) => <>[](reg[r] = "live")
=============================================================================
