-------------------------- MODULE ConvergenceProofs --------------------------
(***************************************************************************)
(* Proofs about Convergence, for any supervisors, policies, builds and     *)
(* drain budgets, any daemon found at the start, and any number of them.   *)
(***************************************************************************)
EXTENDS Convergence, SequenceTheorems, TLAPS

-----------------------------------------------------------------------------
(* Types.                                                                  *)

Known == 0 .. Len(born)
Pcs == {"done", "probe", "corroborate", "fold", "attest", "admit", "awaitExit",
        "bind", "dial", "characterize", "signal", "reap", "spawn", "connect"}
Observations == [kind : {"absent", "identity", "failed", "uncorrelated", "unspeakable"},
                 daemon : Known, bound : BOOLEAN]
Binds == [kind : {"plain", "recycle", "give-up", "post-drain"},
          axis : {"none", "build", "contract"}, running : Known]
Outcomes == [kind : {"none", "refused", "drained-replacing", "adopted", "mismatch-reported",
                     "adopted-stale", "not-adopted", "recycled", "spawned-fresh", "threw"},
             running : Known]

World ==
  /\ born \in Seq(Identity) /\ Len(born) =< MaxDaemons
  /\ resident \in {None, Len(born)}
  /\ dying \subseteq 1 .. Len(born)

Locals ==
  /\ pc \in [Sup -> Pcs] /\ obs \in [Sup -> Observations] /\ bind \in [Sup -> Binds]
  /\ target \in [Sup -> Known] /\ held \in [Sup -> Known]
  /\ rideStale \in [Sup -> Known] /\ replaced \in [Sup -> Known]
  /\ attempts \in [Sup -> [Lineages -> 0 .. MaxAttempts]]
  /\ outcome \in [Sup -> Outcomes] /\ unheard \in [Sup -> Known]

\* Where a daemon is about to be asked or signalled, there is one.
Asked(x) ==
  /\ obs[x].kind \in {"identity", "unspeakable"} => obs[x].daemon \in 1 .. Len(born)
  /\ pc[x] \in {"admit", "awaitExit"} => obs[x].kind = "identity"
  /\ pc[x] = "attest" => obs[x].kind = "unspeakable"
  /\ pc[x] \in {"dial", "signal"} => target[x] \in 1 .. Len(born)

Typed == World /\ Locals /\ \A x \in Sup : Asked(x)

\* No daemon is ever forgotten or changed.
Grows == born' = born \/ \E i \in Identity : born' = Append(born, i)

LEMMA Growth ==
  ASSUME born \in Seq(Identity), Grows
  PROVE  /\ Len(born) \in Nat /\ Len(born') \in Nat /\ Len(born) =< Len(born')
         /\ \A d \in 1 .. Len(born) : born'[d] = born[d] /\ born[d] \in Identity
         /\ Known \subseteq Known'
BY DEF Grows, Known

LEMMA StartGrows ==
  ASSUME NEW i \in Identity, World, Start(i), dying' = dying
  PROVE  Grows /\ World'
<1>. USE DEF None
<1>1. MaxDaemons \in Nat /\ Len(born) \in Nat
  BY ConvergenceAssumption DEF World
<1>2. CASE resident = None /\ Len(born) < MaxDaemons
  <2>1. born' = Append(born, i) /\ resident' = Len(born')
    BY <1>2 DEF Start
  <2>2. born' \in Seq(Identity) /\ Len(born') = Len(born) + 1
    BY <2>1 DEF World
  <2>. QED  BY <1>1, <1>2, <2>1, <2>2 DEF World, Grows
<1>3. CASE ~(resident = None /\ Len(born) < MaxDaemons)
  BY <1>3 DEF Start, World, Grows
<1>. QED  BY <1>2, <1>3

LEMMA LineageType ==
  ASSUME World, NEW d \in 1 .. Len(born)
  PROVE  /\ Lineage(d) \in Lineages /\ born[d] \in Identity
         /\ KeyOf(d) \in 0 .. MaxDaemons /\ d \in 1 .. MaxDaemons
<1>1. born[d] \in Identity /\ Len(born) =< MaxDaemons /\ Len(born) \in Nat /\ MaxDaemons \in Nat
  BY ConvergenceAssumption DEF World
<1>. QED  BY <1>1 DEF Lineage, Lineages, KeyOf, Identity

LEMMA TypeInit == Init => Typed
<1>. SUFFICES ASSUME Init PROVE Typed
  OBVIOUS
<1>1. World
  <2>1. born \in Seq(Identity) /\ Len(born) \in {0, 1}
    <3>1. Survivors \subseteq Identity
      BY ConvergenceAssumption
    <3>2. ASSUME NEW i \in Survivors, born = <<i>> PROVE born \in Seq(Identity) /\ Len(born) = 1
      BY <3>1, <3>2
    <3>3. ASSUME born = <<>> PROVE born \in Seq(Identity) /\ Len(born) = 0
      BY <3>3
    <3>. QED  BY <3>2, <3>3 DEF Init
  <2>2. MaxDaemons \in Nat \ {0}
    BY ConvergenceAssumption
  <2>. QED  BY <2>1, <2>2 DEF Init, World
<1>. QED
  BY <1>1, ConvergenceAssumption
     DEF Init, Typed, World, Locals, Asked, Pcs, Observations, Binds, Outcomes, Known, Absent, NoBind,
         NoOutcome, None

LEMMA WorldStep ==
  ASSUME Typed, Next \/ UNCHANGED vars
  PROVE  World' /\ Grows
<1>. USE DEF None
<1>1. ASSUME NEW s \in Sup, Drain(s) PROVE World' /\ Grows
  <2>1. obs[s].daemon \in 1 .. Len(born)
    BY <1>1 DEF Drain, Typed, Asked
  <2>. QED  BY <1>1, <2>1 DEF Drain, Typed, World, Grows
<1>2. ASSUME NEW s \in Sup, Signal(s) PROVE World' /\ Grows
  <2>1. target[s] \in 1 .. Len(born)
    BY <1>2 DEF Signal, Typed, Asked
  <2>. QED  BY <1>2, <2>1 DEF Signal, Typed, World, Grows
<1>3. ASSUME NEW s \in Sup, Spawn(s) PROVE World' /\ Grows
  <2>1. Baked[s] \in Identity
    BY ConvergenceAssumption
  <2>. QED  BY <1>3, <2>1, StartGrows DEF Spawn, Typed
<1>4. CASE DaemonExits
  BY <1>4 DEF DaemonExits, Typed, World, Grows
<1>5. CASE UNCHANGED world
  BY <1>5 DEF world, Typed, World, Grows
<1>6. UNCHANGED world \/ DaemonExits \/ \E s \in Sup : Drain(s) \/ Signal(s) \/ Spawn(s)
  BY ZenonT(30) DEF Next, Step, Fold, Enact, Bind, Converge, Probe, Undecodable, Corroborate, ProbeFails, FoldLost,
         FoldAbsent, FoldUnspeakable, FoldAdopt, FoldReport, FoldRefuse, FoldRecycle, FoldDrain,
         DrainNotAdmitted, DrainTaken, DrainNotTaken, ReadHolder, Adopt, DialSkewed, DialFails,
         Characterize, Attest, Reaped, ConnectSpawned, Throw, ConnectionCloses, vars
<1>. QED  BY <1>1, <1>2, <1>3, <1>4, <1>5, <1>6

\* What the actions write is of its type.
LEMMA Written ==
  ASSUME World
  PROVE  /\ None \in Known /\ resident \in Known
         /\ NoOutcome \in Outcomes /\ NoBind \in Binds
         /\ \A b \in BOOLEAN : Absent(b) \in Observations
         /\ \A d \in Known, b \in BOOLEAN : Found(d, b) \in Observations
         /\ \A k \in {"failed", "uncorrelated"} : Lost(k) \in Observations
         /\ \A d \in Known : [Lost("unspeakable") EXCEPT !.daemon = d] \in Observations
         /\ \A o \in Observations : o.daemon \in Known
         /\ \A b \in Binds : b.running \in Known
         /\ [NoBind EXCEPT !.kind = "recycle"] \in Binds
<1>1. None \in Known /\ resident \in Known
  BY DEF World, None, Known
<1>2. /\ NoOutcome \in Outcomes /\ NoBind \in Binds
      /\ [NoBind EXCEPT !.kind = "recycle"] \in Binds
  BY <1>1 DEF NoOutcome, NoBind, Outcomes, Binds
<1>3. \A b \in BOOLEAN : Absent(b) \in Observations
  BY <1>1 DEF Absent, Observations
<1>4. \A d \in Known, b \in BOOLEAN : Found(d, b) \in Observations
  BY DEF Found, Observations
<1>5. /\ \A k \in {"failed", "uncorrelated"} : Lost(k) \in Observations
      /\ \A d \in Known : [Lost("unspeakable") EXCEPT !.daemon = d] \in Observations
  BY <1>1 DEF Lost, Observations
<1>6. /\ \A o \in Observations : o.daemon \in Known
      /\ \A b \in Binds : b.running \in Known
  BY DEF Observations, Binds
<1>. QED  BY <1>1, <1>2, <1>3, <1>4, <1>5, <1>6

\* A verdict and a request for a bind are of their type.
LEMMA Said ==
  ASSUME NEW s \in Sup, NEW kind, NEW axis, NEW d \in Known
  PROVE  /\ pc \in [Sup -> Pcs] /\ outcome \in [Sup -> Outcomes] /\ Finish(s, kind, d)
              /\ kind \in {"refused", "drained-replacing", "adopted", "mismatch-reported",
                           "adopted-stale", "not-adopted", "recycled", "spawned-fresh", "threw"}
              => pc' \in [Sup -> Pcs] /\ outcome' \in [Sup -> Outcomes]
         /\ pc \in [Sup -> Pcs] /\ bind \in [Sup -> Binds] /\ RequestBind(s, kind, axis, d)
              /\ kind \in {"plain", "recycle", "give-up", "post-drain"}
              /\ axis \in {"none", "build", "contract"}
              => pc' \in [Sup -> Pcs] /\ bind' \in [Sup -> Binds]
<1>1. kind \in {"refused", "drained-replacing", "adopted", "mismatch-reported", "adopted-stale",
               "not-adopted", "recycled", "spawned-fresh", "threw"}
        => [kind |-> kind, running |-> d] \in Outcomes
  BY DEF Outcomes
<1>2. kind \in {"plain", "recycle", "give-up", "post-drain"} /\ axis \in {"none", "build", "contract"}
        => [kind |-> kind, axis |-> axis, running |-> d] \in Binds
  BY DEF Binds
<1>3. "done" \in Pcs /\ "bind" \in Pcs
  BY DEF Pcs
<1>. QED  BY <1>1, <1>2, <1>3 DEF Finish, RequestBind, Goto

LEMMA LocalsStep ==
  ASSUME Typed, Next \/ UNCHANGED vars
  PROVE  Locals'
<1>1. ASSUME NEW s \in Sup, Spawn(s) PROVE Locals'
  <2>1. Known \subseteq Known'
    BY <1>1, WorldStep, Growth DEF Typed, World
  <2>2. Observations \subseteq Observations' /\ Binds \subseteq Binds' /\ Outcomes \subseteq Outcomes'
    BY <2>1 DEF Observations, Binds, Outcomes
  <2>3. "connect" \in Pcs
    BY DEF Pcs
  <2>4. pc' \in [Sup -> Pcs] /\ UNCHANGED <<local, unheard>>
    BY <1>1, <2>3 DEF Spawn, Goto, Typed, Locals, hist
  <2>. QED  BY <2>1, <2>2, <2>4 DEF local, Typed, Locals
<1>2. CASE born' = born
  <2>. USE DEF Typed, Locals, hist
  <2>0. Known' = Known /\ Observations' = Observations /\ Binds' = Binds /\ Outcomes' = Outcomes
    BY <1>2 DEF Known, Observations, Binds, Outcomes
  <2>00. \A l \in {"done", "probe", "corroborate", "fold", "attest", "admit", "awaitExit", "bind",
                   "dial", "characterize", "signal", "reap", "spawn", "connect"} : l \in Pcs
    BY DEF Pcs
  <2>1. ASSUME NEW s \in Sup, Converge(s) PROVE Locals'
    BY <2>0, <2>00, Written, Said, <2>1 DEF Goto, Converge, world
  <2>2. ASSUME NEW s \in Sup, Probe(s) PROVE Locals'
    BY <2>0, <2>00, Written, Said, <2>2, ZenonT(30) DEF Goto, Observe, Release, Probe
  <2>3. ASSUME NEW s \in Sup, Corroborate(s) PROVE Locals'
    BY <2>0, <2>00, Written, Said, <2>3 DEF Goto, Observe, Release, Corroborate
  <2>4. ASSUME NEW s \in Sup, ProbeFails(s) PROVE Locals'
    BY <2>0, <2>00, Written, Said, <2>4 DEF Goto, Observe, Release, ProbeFails
  <2>5. ASSUME NEW s \in Sup, FoldLost(s) PROVE Locals'
    BY <2>0, <2>00, Written, Said, <2>5 DEF Goto, Observe, Release, FoldLost
  <2>6. ASSUME NEW s \in Sup, FoldAbsent(s) PROVE Locals'
    BY <2>0, <2>00, Written, Said, <2>6 DEF Goto, Observe, Release, FoldAbsent
  <2>7. ASSUME NEW s \in Sup, FoldUnspeakable(s) PROVE Locals'
    BY <2>0, <2>00, Written, Said, <2>7 DEF Goto, Observe, Release, FoldUnspeakable, local
  <2>8. ASSUME NEW s \in Sup, FoldAdopt(s) PROVE Locals'
    BY <2>0, <2>00, Written, Said, <2>8 DEF Goto, Observe, Release, FoldAdopt
  <2>9. ASSUME NEW s \in Sup, FoldReport(s) PROVE Locals'
    BY <2>0, <2>00, Written, Said, <2>9 DEF Goto, Observe, Release, FoldReport
  <2>10. ASSUME NEW s \in Sup, FoldRefuse(s) PROVE Locals'
    BY <2>0, <2>00, Written, Said, <2>10 DEF Goto, Observe, Release, FoldRefuse
  <2>11. ASSUME NEW s \in Sup, FoldRecycle(s) PROVE Locals'
    BY <2>0, <2>00, Written, Said, <2>11 DEF Goto, Observe, Release, FoldRecycle
  <2>12. ASSUME NEW s \in Sup, FoldDrain(s) PROVE Locals'
    BY <2>0, <2>00, Written, Said, <2>12 DEF Goto, Observe, Release, FoldDrain
  <2>13. ASSUME NEW s \in Sup, Drain(s) PROVE Locals'
    <3>1. attempts' \in [Sup -> [Lineages -> 0 .. MaxAttempts]]
      <4>. DEFINE l == Lineage(obs[s].daemon)
      <4>1. l \in Lineages
        BY <2>13, LineageType DEF Drain, Asked
      <4>2. attempts[s][l] \in 0 .. MaxAttempts /\ attempts[s][l] < MaxAttempts /\ MaxAttempts \in Nat
        BY <2>13, <4>1, ConvergenceAssumption DEF Drain, Verdict
      <4>3. attempts' = [attempts EXCEPT ![s][l] = @ + 1]
        BY <2>13 DEF Drain
      <4>. QED  BY <4>1, <4>2, <4>3
    <3>. QED  BY <2>0, <2>00, <2>13, <3>1 DEF Drain, Goto
  <2>14. ASSUME NEW s \in Sup, DrainNotAdmitted(s) \/ DrainNotTaken(s) PROVE Locals'
    <3>1. obs[s].daemon \in Known /\ Axis(s, obs[s].daemon) \in {"none", "build", "contract"}
      BY Written DEF Axis
    <3>2. PICK why : GiveUp(s, why) /\ UNCHANGED <<target, replaced, attempts, obs, unheard>>
      BY <2>14 DEF DrainNotAdmitted, DrainNotTaken
    <3>. QED  BY <2>0, <3>1, <3>2, Written, Said DEF GiveUp, Release
  <2>15. ASSUME NEW s \in Sup, DrainTaken(s) PROVE Locals'
    BY <2>0, <2>00, Written, Said, <2>15 DEF Goto, Observe, Release, DrainTaken, Axis
  <2>16. ASSUME NEW s \in Sup, ReadHolder(s) PROVE Locals'
    BY <2>0, <2>00, Written, Said, <2>16 DEF Goto, Observe, Release, ReadHolder
  <2>17. ASSUME NEW s \in Sup, Adopt(s) PROVE Locals'
    BY <2>0, <2>00, Written, Said, <2>17 DEF Goto, Observe, Release, Adopt
  <2>18. ASSUME NEW s \in Sup, DialSkewed(s) \/ DialFails(s) PROVE Locals'
    BY <2>0, <2>00, Written, Said, <2>18 DEF Goto, Observe, Release, DialSkewed, DialFails, BindRefused
  <2>19. ASSUME NEW s \in Sup, Characterize(s) PROVE Locals'
    BY <2>0, <2>00, Written, Said, <2>19 DEF Goto, Observe, Release, Characterize, Answers
  <2>20. ASSUME NEW s \in Sup, Attest(s) PROVE Locals'
    BY <2>0, <2>00, Written, Said, <2>20, ZenonT(30) DEF Goto, Observe, Release, Attest
  <2>21. ASSUME NEW s \in Sup, Signal(s) \/ Reaped(s) \/ Spawn(s) PROVE Locals'
    BY <2>0, <2>00, Written, Said, <2>21 DEF Goto, Observe, Release, Signal, Reaped, Spawn, local
  <2>22. ASSUME NEW s \in Sup, ConnectSpawned(s) PROVE Locals'
    BY <2>0, <2>00, Written, Said, <2>22 DEF Goto, Observe, Release, ConnectSpawned
  <2>23. ASSUME NEW s \in Sup, Throw(s) PROVE Locals'
    BY <2>0, <2>00, Written, Said, <2>23 DEF Goto, Observe, Release, Throw
  <2>24. ASSUME NEW s \in Sup, ConnectionCloses(s) PROVE Locals'
    BY <2>0, <2>00, Written, Said, <2>24 DEF Goto, Observe, Release, ConnectionCloses
  <2>25. CASE DaemonExits \/ UNCHANGED vars
    BY <2>0, <2>00, Written, Said, <2>25 DEF DaemonExits, local, vars
  <2>26. ASSUME NEW s \in Sup, Undecodable(s) PROVE Locals'
    BY <2>0, <2>00, Written, <2>26 DEF Goto, Undecodable, local
  <2>. QED
    BY <2>1, <2>2, <2>3, <2>4, <2>5, <2>6, <2>7, <2>8, <2>9, <2>10, <2>11, <2>12, <2>13, <2>14,
       <2>15, <2>16, <2>17, <2>18, <2>19, <2>20, <2>21, <2>22, <2>23, <2>24, <2>25, <2>26
       DEF Next, Step, Fold, Enact, Bind
<1>3. born' = born \/ \E s \in Sup : Spawn(s)
  BY ZenonT(30) DEF Next, Step, Fold, Enact, Bind, Converge, Probe, Undecodable, Corroborate, ProbeFails, FoldLost,
         FoldAbsent, FoldUnspeakable, FoldAdopt, FoldReport, FoldRefuse, FoldRecycle, FoldDrain,
         Drain, DrainNotAdmitted, DrainTaken, DrainNotTaken, ReadHolder, Adopt, DialSkewed,
         DialFails, Characterize, Attest, Signal, Reaped, ConnectSpawned, Throw, DaemonExits,
         ConnectionCloses, vars, world
<1>. QED  BY <1>1, <1>2, <1>3

\* What a supervisor keeps between its steps.
Mine(x) == <<pc[x], obs[x], bind[x], target[x], held[x], rideStale[x], replaced[x],
             attempts[x], outcome[x], unheard[x]>>

\* A step of one supervisor moves nothing of another's.
LEMMA OthersKeep ==
  ASSUME Locals, NEW s \in Sup, NEW x \in Sup, x # s,
         Converge(s) \/ Step(s) \/ ConnectionCloses(s)
  PROVE  UNCHANGED Mine(x)
<1>. USE DEF Mine, Goto, Observe, Release, Finish, RequestBind, Locals, hist
<1>1. CASE Converge(s) \/ ConnectionCloses(s)
  BY <1>1 DEF Converge, ConnectionCloses
<1>2. CASE Probe(s) \/ Undecodable(s) \/ Corroborate(s) \/ ProbeFails(s)
  BY <1>2 DEF Probe, Undecodable, Corroborate, ProbeFails, local
<1>3. CASE FoldLost(s) \/ FoldAbsent(s) \/ FoldUnspeakable(s) \/ FoldAdopt(s)
  BY <1>3 DEF FoldLost, FoldAbsent, FoldUnspeakable, FoldAdopt, local
<1>4. CASE FoldReport(s) \/ FoldRefuse(s) \/ FoldRecycle(s) \/ FoldDrain(s)
  BY <1>4 DEF FoldReport, FoldRefuse, FoldRecycle, FoldDrain
<1>5. CASE Drain(s) \/ DrainTaken(s)
  BY <1>5 DEF Drain, DrainTaken
<1>6. CASE DrainNotAdmitted(s) \/ DrainNotTaken(s)
  <2>1. PICK why : GiveUp(s, why) /\ UNCHANGED <<target, replaced, attempts, obs, unheard>>
    BY <1>6 DEF DrainNotAdmitted, DrainNotTaken
  <2>. QED  BY <2>1 DEF GiveUp
<1>7. CASE ReadHolder(s) \/ Adopt(s) \/ DialSkewed(s) \/ DialFails(s) \/ Characterize(s)
  BY <1>7 DEF ReadHolder, Adopt, DialSkewed, DialFails, BindRefused, Characterize
<1>8. CASE Attest(s) \/ Signal(s) \/ Reaped(s) \/ Spawn(s) \/ ConnectSpawned(s) \/ Throw(s)
  BY <1>8 DEF Attest, Signal, Reaped, Spawn, ConnectSpawned, Throw, local
<1>. QED
  BY <1>1, <1>2, <1>3, <1>4, <1>5, <1>6, <1>7, <1>8 DEF Step, Fold, Enact, Bind

\* What holds of a supervisor and survives the growth of the world is moved by
\* its own steps only.
LEMMA AskedKept ==
  ASSUME Typed, NEW x \in Sup, UNCHANGED Mine(x), Next \/ UNCHANGED vars
  PROVE  Asked(x)'
<1>1. 1 .. Len(born) \subseteq 1 .. Len(born')
  BY WorldStep, Growth DEF Typed, World
<1>. QED  BY <1>1 DEF Typed, Asked, Mine

LEMMA AskedStep ==
  ASSUME Typed, NEW s \in Sup, Converge(s) \/ Step(s) \/ ConnectionCloses(s)
  PROVE  Asked(s)'
<1>. USE DEF Goto, Observe, Release, Finish, RequestBind
<1>0. /\ Locals /\ Asked(s) /\ Next
      /\ Len(born) \in Nat /\ resident \in {None, Len(born)}
  BY DEF Typed, World, Next
<1>1. CASE Converge(s) \/ ConnectionCloses(s)
  BY <1>0, <1>1 DEF Converge, ConnectionCloses, world, Asked, Locals
<1>2. CASE Probe(s)
  BY <1>0, <1>2 DEF Probe, Absent, Found, world, Asked, Locals, None
<1>3. CASE Corroborate(s)
  <2>1. obs'[s].kind \in {"failed", "unspeakable"}
        /\ (obs'[s].kind = "unspeakable" => obs'[s].daemon = resident /\ resident # None)
    BY <1>0, <1>3 DEF Corroborate, Lost, Locals
  <2>2. pc'[s] = "fold" /\ born' = born
    BY <1>0, <1>3 DEF Corroborate, world, Locals
  <2>. QED  BY <1>0, <2>1, <2>2 DEF Asked, None
<1>4. CASE ProbeFails(s)
  BY <1>0, <1>4 DEF ProbeFails, Lost, world, Asked, Locals
<1>5. CASE FoldLost(s) \/ FoldAbsent(s) \/ FoldUnspeakable(s) \/ FoldAdopt(s)
  BY <1>0, <1>5 DEF FoldLost, FoldAbsent, FoldUnspeakable, FoldAdopt, Decided, local, world, Asked, Locals
<1>6. CASE FoldReport(s) \/ FoldRefuse(s) \/ FoldRecycle(s) \/ FoldDrain(s)
  BY <1>0, <1>6 DEF FoldReport, FoldRefuse, FoldRecycle, FoldDrain, Decided, world, Asked, Locals
<1>7. CASE Drain(s) \/ DrainTaken(s)
  BY <1>0, <1>7 DEF Drain, DrainTaken, world, Asked, Locals
<1>8. CASE DrainNotAdmitted(s) \/ DrainNotTaken(s)
  <2>1. PICK why : GiveUp(s, why) /\ UNCHANGED <<born, target, obs>>
    BY <1>8 DEF DrainNotAdmitted, DrainNotTaken, world
  <2>. QED  BY <1>0, <2>1 DEF GiveUp, Asked, Locals
<1>9. CASE ReadHolder(s) \/ Adopt(s) \/ DialSkewed(s) \/ DialFails(s)
  BY <1>0, <1>9 DEF ReadHolder, Adopt, DialSkewed, DialFails, BindRefused, world, Asked, Locals, None
<1>10. CASE Characterize(s)
  <2>1. obs'[s].kind \in {"absent", "failed", "uncorrelated"}
        \/ (obs'[s].kind = "identity" /\ obs'[s].daemon = resident /\ resident # None)
    BY <1>0, <1>10 DEF Characterize, Answers, Absent, Lost, Found, Locals
  <2>2. pc'[s] = "fold" /\ born' = born
    BY <1>0, <1>10 DEF Characterize, world, Locals
  <2>. QED  BY <1>0, <2>1, <2>2 DEF Asked, None
<1>11. CASE Attest(s)
  BY <1>0, <1>11 DEF Attest, world, Asked, Locals
<1>12. CASE Signal(s) \/ Reaped(s) \/ ConnectSpawned(s) \/ Throw(s)
  BY <1>0, <1>12 DEF Signal, Reaped, ConnectSpawned, Throw, local, world, Asked, Locals
<1>13. CASE Spawn(s)
  <2>1. 1 .. Len(born) \subseteq 1 .. Len(born')
    BY <1>0, WorldStep, Growth DEF Typed, World
  <2>. QED  BY <1>0, <1>13, <2>1 DEF Spawn, local, Asked, Locals
<1>14. CASE Undecodable(s)
  BY <1>0, <1>14 DEF Undecodable, local, world, Asked, Locals
<1>. QED
  BY <1>1, <1>2, <1>3, <1>4, <1>5, <1>6, <1>7, <1>8, <1>9, <1>10, <1>11, <1>12, <1>13, <1>14
     DEF Step, Fold, Enact, Bind

LEMMA TypedStep ==
  ASSUME Typed, Next \/ UNCHANGED vars
  PROVE  Typed'
<1>1. ASSUME NEW x \in Sup PROVE Asked(x)'
  <2>1. ASSUME NEW s \in Sup, Converge(s) \/ Step(s) \/ ConnectionCloses(s) PROVE Asked(x)'
    <3>1. CASE x = s
      BY <2>1, <3>1, AskedStep
    <3>2. CASE x # s
      BY <2>1, <3>2, OthersKeep, AskedKept DEF Typed
    <3>. QED  BY <3>1, <3>2
  <2>2. CASE DaemonExits \/ UNCHANGED vars
    <3>1. UNCHANGED Mine(x)
      BY <2>2 DEF DaemonExits, vars, local, hist, Mine
    <3>. QED  BY <3>1, AskedKept
  <2>. QED  BY <2>1, <2>2 DEF Next
<1>. QED  BY <1>1, WorldStep, LocalsStep DEF Typed

\* Every reachable state is well-typed; in particular no lineage is drained more
\* often than the budget says, and what a supervisor remembers of a daemon is
\* about one that was there.
THEOREM TypeCorrect == Spec => []TypeOK
<1>1. Init => Typed
  BY TypeInit
<1>2. Typed /\ [Next]_vars => Typed'
  BY TypedStep
<1>3. Typed => TypeOK
  BY DEF Typed, World, Locals, TypeOK, Pcs, Observations, Binds, Known
<1>. QED  BY <1>1, <1>2, <1>3, PTL DEF Spec

-----------------------------------------------------------------------------
(* One instance of a build.                                                *)

\* The budget's memory and the drains agree.
Remembered ==
  /\ drained \subseteq Sup \X (1 .. Len(born))
  /\ \A x \in Sup, d \in 1 .. Len(born) : <<x, d>> \in drained => attempts[x][Lineage(d)] > 0
  /\ \A x \in Sup, l \in Lineages : attempts[x][l] > 0 =>
       \E d \in 1 .. Len(born) : <<x, d>> \in drained /\ Lineage(d) = l

\* OneInstancePerBuild, of the daemons there are.
Fought(x, d, e) ==
  /\ <<x, d>> \in drained /\ <<x, e>> \in drained
  /\ born[d].build = born[e].build /\ born[d].keyed
  => d = e

OneFight == \A x \in Sup : \A d, e \in 1 .. Len(born) : Fought(x, d, e)

LEMMA LineageKept ==
  ASSUME Typed, Grows, NEW d \in 1 .. Len(born)
  PROVE  Lineage(d)' = Lineage(d) /\ d \in 1 .. Len(born')
BY Growth DEF Typed, World, Lineage, KeyOf

\* A daemon that is drained is the first of its build, or the same again.
LEMMA DrainIsAdmitted ==
  ASSUME Typed, Remembered, OneFight, NEW s \in Sup, NEW d \in 1 .. Len(born), Verdict(s, d) = "drain",
         NEW e \in 1 .. Len(born), <<s, e>> \in drained, born[d].build = born[e].build,
         born[d].keyed \/ born[e].keyed
  PROVE  d = e
<1>0. /\ Lineage(d) \in Lineages /\ Lineage(e) \in Lineages /\ KeyOf(e) \in 0 .. MaxDaemons
      /\ attempts[s][Lineage(d)] \in Nat /\ attempts[s][Lineage(e)] > 0
  BY LineageType DEF Typed, Locals, Remembered
<1>1. DrainedBuild(s, d)
  BY <1>0 DEF DrainedBuild, Lineage
<1>2. attempts[s][Lineage(d)] # 0
  BY <1>1 DEF Verdict
<1>3. PICK f \in 1 .. Len(born) : <<s, f>> \in drained /\ Lineage(f) = Lineage(d)
  BY <1>0, <1>2 DEF Remembered
<1>4. born[f].build = born[d].build /\ KeyOf(f) = KeyOf(d)
  BY <1>3 DEF Lineage
<1>5. CASE born[d].keyed
  <2>1. f = d
    BY <1>4, <1>5 DEF KeyOf
  <2>. QED  BY <1>3, <1>5, <2>1 DEF OneFight, Fought
<1>6. CASE ~born[d].keyed /\ born[e].keyed
  <2>1. ~born[f].keyed
    BY <1>4, <1>6 DEF KeyOf
  <2>2. e = f
    BY <1>3, <1>4, <1>6 DEF OneFight, Fought
  <2>. QED  BY <1>6, <2>1, <2>2
<1>. QED  BY <1>5, <1>6

LEMMA DrainRemembered ==
  ASSUME Typed, Remembered, OneFight, NEW s \in Sup, Drain(s)
  PROVE  Remembered' /\ OneFight'
<1>. DEFINE d == obs[s].daemon
<1>1. /\ d \in 1 .. Len(born) /\ Verdict(s, d) = "drain" /\ born' = born
      /\ attempts' = [attempts EXCEPT ![s][Lineage(d)] = @ + 1]
      /\ drained' = drained \cup {<<s, d>>}
  BY DEF Drain, Typed, Asked
<1>2. /\ Lineage(d) \in Lineages
      /\ attempts \in [Sup -> [Lineages -> Nat]]
      /\ \A k \in 1 .. Len(born) : Lineage(k)' = Lineage(k) /\ Lineage(k) \in Lineages
  BY <1>1, LineageType, ConvergenceAssumption DEF Typed, Locals, Lineage, KeyOf
<1>. HIDE DEF d
<1>3. /\ attempts'[s][Lineage(d)] = attempts[s][Lineage(d)] + 1
      /\ \A x \in Sup, l \in Lineages : attempts'[x][l] = attempts[x][l] \/ (x = s /\ l = Lineage(d))
      /\ \A x \in Sup, l \in Lineages : attempts'[x][l] >= attempts[x][l] /\ attempts[x][l] \in Nat
  BY <1>1, <1>2
<1>4. Remembered'
  <2>1. drained' \subseteq Sup \X (1 .. Len(born'))
    BY <1>1 DEF Remembered
  <2>2. ASSUME NEW x \in Sup, NEW k \in 1 .. Len(born'), <<x, k>> \in drained'
        PROVE  attempts'[x][Lineage(k)'] > 0
    BY <1>1, <1>2, <1>3, <2>2 DEF Remembered
  <2>3. ASSUME NEW x \in Sup, NEW l \in Lineages, attempts'[x][l] > 0
        PROVE  \E k \in 1 .. Len(born') : <<x, k>> \in drained' /\ Lineage(k)' = l
    BY <1>1, <1>2, <1>3, <2>3 DEF Remembered
  <2>. QED  BY <2>1, <2>2, <2>3 DEF Remembered, Lineages
<1>5. ASSUME NEW x \in Sup, NEW k \in 1 .. Len(born), NEW e \in 1 .. Len(born),
             <<x, k>> \in drained', <<x, e>> \in drained', born[k].build = born[e].build, born[k].keyed
      PROVE  k = e
  <2>1. CASE <<x, k>> \in drained /\ <<x, e>> \in drained
    BY <1>5, <2>1 DEF OneFight, Fought
  <2>2. CASE x = s /\ k = d /\ <<x, e>> \in drained
    BY <1>1, <1>5, <2>2, DrainIsAdmitted
  <2>3. CASE x = s /\ e = d /\ <<x, k>> \in drained
    BY <1>1, <1>5, <2>3, DrainIsAdmitted
  <2>. QED  BY <1>1, <1>5, <2>1, <2>2, <2>3
<1>. QED  BY <1>1, <1>4, <1>5 DEF OneFight, Fought

LEMMA FightStep ==
  ASSUME Typed, Remembered, OneFight, Next \/ UNCHANGED vars
  PROVE  Remembered' /\ OneFight'
<1>1. CASE \E s \in Sup : Drain(s)
  BY <1>1, DrainRemembered
<1>2. CASE ~ \E s \in Sup : Drain(s)
  <2>1. UNCHANGED <<attempts, drained>>
    BY <1>2, ZenonT(30) DEF Next, Step, Fold, Enact, Bind, Converge, Probe, Undecodable, Corroborate, ProbeFails, FoldLost,
         FoldAbsent, FoldUnspeakable, FoldAdopt, FoldReport, FoldRefuse, FoldRecycle, FoldDrain,
         DrainNotAdmitted, DrainTaken, DrainNotTaken, ReadHolder, Adopt, DialSkewed,
         DialFails, Characterize, Attest, Signal, Reaped, Spawn, ConnectSpawned, Throw, DaemonExits,
         ConnectionCloses, vars, local, hist
  <2>2. /\ \A d \in 1 .. Len(born) : Lineage(d)' = Lineage(d) /\ d \in 1 .. Len(born')
        /\ \A d \in 1 .. Len(born) : born'[d] = born[d]
    BY WorldStep, LineageKept, Growth DEF Typed, World
  <2>3. Remembered'
    BY <2>1, <2>2 DEF Remembered, Lineages
  <2>4. OneFight'
    BY <2>1, <2>2 DEF Remembered, OneFight, Fought
  <2>. QED  BY <2>3, <2>4
<1>. QED  BY <1>1, <1>2

\* No supervisor drains two instances of a build: whatever the rivals start, the
\* second one is somebody else's, and the fight over it never begins.
THEOREM NoSecondFight == Spec => []OneInstancePerBuild
<1>. DEFINE I == Typed /\ Remembered /\ OneFight
<1>1. Init => I
  <2>. SUFFICES ASSUME Init PROVE Remembered /\ OneFight
    BY TypeInit
  <2>1. drained = {} /\ \A x \in Sup, l \in Lineages : attempts[x][l] = 0
    BY DEF Init
  <2>. QED  BY <2>1 DEF Remembered, OneFight, Fought
<1>2. I /\ [Next]_vars => I'
  BY TypedStep, FightStep
<1>3. I => OneInstancePerBuild
  <2>. SUFFICES ASSUME I, NEW s \in Sup, NEW d \in Daemons, NEW e \in Daemons,
                       <<s, d>> \in drained, <<s, e>> \in drained,
                       born[d].build = born[e].build, born[d].keyed
                PROVE  d = e
    BY DEF OneInstancePerBuild
  <2>1. d \in 1 .. Len(born) /\ e \in 1 .. Len(born)
    BY DEF Remembered
  <2>. QED  BY <2>1 DEF OneFight, Fought
<1>. QED  BY <1>1, <1>2, <1>3, PTL DEF Spec

-----------------------------------------------------------------------------
(* Who is signalled.                                                       *)

\* Whom x may signal: nobody who is compatible and speaks its protocol, unless
\* its probe could not decode d or a predecessor of d.
Justified(x, d) == Speaks(x, d) /\ Compatible(x, d) => unheard[x] \in 1 .. d

\* Who is on the way to a signal has met, at its target or before it, a daemon
\* it could not decode, or its target is skewed, or has left.
Wary(x) ==
  /\ pc[x] = "corroborate" => unheard[x] \in 1 .. Len(born)
  /\ pc[x] \in {"fold", "attest"} /\ obs[x].kind = "unspeakable" =>
       unheard[x] \in 1 .. obs[x].daemon
  /\ pc[x] = "signal" => target[x] < Len(born) \/ Justified(x, target[x])

LEMMA WaryKept ==
  ASSUME Typed, NEW x \in Sup, Wary(x), UNCHANGED Mine(x), Next \/ UNCHANGED vars
  PROVE  Wary(x)'
<1>1. Grows /\ Len(born) \in Nat /\ Len(born') \in Nat /\ Len(born) =< Len(born')
  BY WorldStep, Growth DEF Typed, World
<1>2. /\ pc[x] = "signal" => target[x] \in 1 .. Len(born)
      /\ pc'[x] = pc[x] /\ obs'[x] = obs[x] /\ target'[x] = target[x] /\ unheard'[x] = unheard[x]
      /\ \A d \in 1 .. Len(born) : born'[d] = born[d]
  BY Growth, <1>1 DEF Typed, World, Asked, Mine
<1>3. ASSUME pc[x] = "signal", Justified(x, target[x]) PROVE Justified(x, target[x])'
  BY <1>2, <1>3 DEF Justified, Speaks, Compatible
<1>. QED  BY <1>1, <1>2, <1>3 DEF Wary

LEMMA WaryStep ==
  ASSUME Typed, NEW s \in Sup, Wary(s), Converge(s) \/ Step(s) \/ ConnectionCloses(s)
  PROVE  Wary(s)'
<1>. USE DEF Goto, Observe, Release, Finish, RequestBind
<1>0. /\ Locals /\ Asked(s) /\ Len(born) \in Nat /\ resident \in {None, Len(born)}
  BY DEF Typed, World
<1>1. ASSUME pc'[s] \notin {"corroborate", "fold", "attest", "signal"} PROVE Wary(s)'
  BY <1>1 DEF Wary
<1>2. ASSUME pc'[s] = "fold", obs'[s].kind # "unspeakable" PROVE Wary(s)'
  BY <1>2 DEF Wary
<1>3. CASE Converge(s)
  BY <1>0, <1>1, <1>3 DEF Converge, Locals
<1>4. CASE ConnectionCloses(s)
  BY <1>4 DEF ConnectionCloses, world, hist, Wary, Justified, Speaks, Compatible
<1>5. CASE Probe(s)
  BY <1>0, <1>2, <1>5 DEF Probe, Absent, Found, Locals
<1>6. CASE Undecodable(s)
  BY <1>0, <1>6 DEF Undecodable, world, Locals, Wary, None
<1>7. CASE Corroborate(s)
  <2>1. /\ pc'[s] = "fold" /\ unheard' = unheard /\ unheard[s] \in 1 .. Len(born)
        /\ obs'[s].kind = "unspeakable" => obs'[s].daemon = resident /\ resident # None
    BY <1>0, <1>7 DEF Corroborate, Lost, hist, Wary, Locals
  <2>. QED  BY <1>0, <2>1 DEF Wary
<1>8. CASE ProbeFails(s) \/ Characterize(s)
  <2>1. obs'[s].kind # "unspeakable" /\ pc'[s] = "fold"
    BY <1>0, <1>8 DEF ProbeFails, Characterize, Answers, Absent, Found, Lost, Locals
  <2>. QED  BY <1>2, <2>1
<1>9. CASE FoldUnspeakable(s)
  BY <1>0, <1>9 DEF FoldUnspeakable, local, hist, Wary, Locals
<1>10. CASE FoldLost(s) \/ FoldAbsent(s) \/ FoldAdopt(s) \/ FoldReport(s) \/ FoldRefuse(s)
              \/ FoldRecycle(s) \/ FoldDrain(s)
  <2>1. pc'[s] \in {"done", "bind", "probe", "admit"}
    BY <1>0, <1>10 DEF FoldLost, FoldAbsent, FoldAdopt, FoldReport, FoldRefuse, FoldRecycle, FoldDrain, Locals
  <2>. QED  BY <1>1, <2>1
<1>11. CASE Drain(s) \/ DrainTaken(s)
  BY <1>0, <1>1, <1>11 DEF Drain, DrainTaken, Locals
<1>12. CASE DrainNotAdmitted(s) \/ DrainNotTaken(s)
  <2>1. PICK why : GiveUp(s, why)
    BY <1>12 DEF DrainNotAdmitted, DrainNotTaken
  <2>2. pc'[s] \in {"done", "bind"}
    BY <1>0, <2>1 DEF GiveUp, Locals
  <2>. QED  BY <1>1, <2>2
<1>13. CASE DialSkewed(s)
  <2>1. /\ born' = born /\ target' = target /\ pc'[s] \in {"signal", "done"}
        /\ resident # None /\ ~Compatible(s, resident) /\ pc[s] = "dial"
    BY <1>0, <1>13 DEF DialSkewed, Answers, BindRefused, world, Locals
  <2>2. target[s] \in 1 .. Len(born)
    BY <1>0, <2>1 DEF Asked
  <2>3. target[s] < Len(born) \/ ~Compatible(s, target[s])
    BY <1>0, <2>1, <2>2
  <2>. QED  BY <2>1, <2>3 DEF Wary, Justified, Compatible
<1>14. CASE ReadHolder(s) \/ Adopt(s) \/ DialFails(s) \/ ConnectSpawned(s) \/ Throw(s) \/ Signal(s)
              \/ Reaped(s) \/ Spawn(s)
  <2>1. pc'[s] \in {"spawn", "dial", "characterize", "done", "reap", "connect"}
    BY <1>0, <1>14 DEF ReadHolder, Adopt, DialFails, BindRefused, ConnectSpawned, Throw, Signal, Reaped,
                       Spawn, Locals
  <2>. QED  BY <1>1, <2>1
<1>15. CASE Attest(s)
  <2>1. /\ unheard' = unheard /\ pc'[s] \in {"signal", "done"} /\ pc[s] = "attest"
        /\ pc'[s] = "signal" => target'[s] = obs[s].daemon
    BY <1>0, <1>15 DEF Attest, hist, Locals
  <2>2. unheard[s] \in 1 .. obs[s].daemon
    BY <1>0, <2>1 DEF Asked, Wary
  <2>. QED  BY <2>1, <2>2 DEF Wary, Justified
<1>. QED
  BY <1>3, <1>4, <1>5, <1>6, <1>7, <1>8, <1>9, <1>10, <1>11, <1>12, <1>13, <1>14, <1>15
     DEF Step, Fold, Enact, Bind

\* Whoever is signalled while it holds the gate is skewed, or this converge could
\* not decode it or a predecessor of it: however the gate changes hands between
\* the reads, no failed dial and no reading of an earlier converge leads to a kill.
THEOREM KillsAreJustified == Spec => []KillsFollowTheUnheard
<1>. DEFINE I == Typed /\ \A x \in Sup : Wary(x)
<1>1. Init => I
  <2>. SUFFICES ASSUME Init PROVE \A x \in Sup : Wary(x)
    BY TypeInit
  <2>1. \A x \in Sup : pc[x] = "done"
    BY DEF Init
  <2>. QED  BY <2>1 DEF Wary
<1>2. I /\ [Next]_vars => I'
  <2>. SUFFICES ASSUME I, Next \/ UNCHANGED vars, NEW x \in Sup PROVE Wary(x)'
    BY TypedStep
  <2>1. ASSUME NEW s \in Sup, Converge(s) \/ Step(s) \/ ConnectionCloses(s) PROVE Wary(x)'
    <3>1. CASE x = s
      BY <2>1, <3>1, WaryStep
    <3>2. CASE x # s
      BY <2>1, <3>2, OthersKeep, WaryKept DEF Typed
    <3>. QED  BY <3>1, <3>2
  <2>2. CASE DaemonExits \/ UNCHANGED vars
    <3>1. UNCHANGED Mine(x)
      BY <2>2 DEF DaemonExits, vars, local, hist, Mine
    <3>. QED  BY <3>1, WaryKept
  <2>. QED  BY <2>1, <2>2 DEF Next
<1>3. I => KillsFollowTheUnheard
  <2>. SUFFICES ASSUME I, NEW s \in Sup, pc[s] = "signal", target[s] = resident,
                       Speaks(s, resident), Compatible(s, resident)
                PROVE  unheard[s] \in 1 .. resident
    BY DEF KillsFollowTheUnheard
  <2>1. target[s] \in 1 .. Len(born) /\ resident \in {None, Len(born)} /\ Len(born) \in Nat
    BY DEF Typed, World, Asked
  <2>2. ~(target[s] < Len(born))
    BY <2>1 DEF None
  <2>. QED  BY <2>2 DEF Wary, Justified
<1>. QED  BY <1>1, <1>2, <1>3, PTL DEF Spec

-----------------------------------------------------------------------------
(* What an outcome is about.                                               *)

\* Every supervisor spawns daemons that report when they started.
BakedKeyed == \A s \in Sup : Baked[s].keyed = TRUE

\* Only the daemon found at the start may report no start time.
YoungAreKeyed == \A d \in 2 .. Len(born) : born[d].keyed = TRUE

\* d was there and holds the gate no more.
Left(d) == d \in 1 .. Len(born) /\ d # resident

\* What is held passed the handshake.
HeldIsCompatible(x) == held[x] # None => Compatible(x, held[x])

\* The daemon whose replacement is under way was drained by x and has left, ...
DrainedHasLeft(x) ==
  pc[x] \in {"bind", "dial", "signal", "reap", "spawn", "connect"} /\ bind[x].kind = "post-drain" =>
    <<x, bind[x].running>> \in drained /\ Left(bind[x].running) /\ bind[x].running # replaced[x]

\* ... and so has the one that the adopted resident replaced.
ReplacedHasLeft(x) == replaced[x] # None => <<x, replaced[x]>> \in drained /\ Left(replaced[x])

AwaitsDrained(x) == pc[x] = "awaitExit" => <<x, obs[x].daemon>> \in drained

\* The drains of the daemon that is ridden were spent.
RiddenIsSpent(x) ==
  rideStale[x] # None =>
    \E e \in 1 .. Len(born) : <<x, e>> \in drained /\ Lineage(e) = Lineage(rideStale[x])

\* A daemon that was identified came after the replaced one; one that was
\* characterized is held, and came no sooner than the ridden one.
SeenIsHeld(x) ==
  /\ pc[x] = "probe" => rideStale[x] = None
  /\ pc[x] \in {"fold", "admit", "awaitExit"} /\ obs[x].kind = "identity" =>
       replaced[x] < obs[x].daemon
  /\ pc[x] = "fold" /\ obs[x].kind = "identity" =>
       IF obs[x].bound THEN held[x] \in {None, obs[x].daemon} /\ rideStale[x] =< obs[x].daemon
       ELSE rideStale[x] = None

Told(x) ==
  pc[x] = "done" =>
    /\ outcome[x].kind \in {"refused", "not-adopted"} => held[x] = None
    /\ held[x] # None => Describes(x, outcome[x].kind, outcome[x].running, held[x])

Honest(x) ==
  /\ HeldIsCompatible(x) /\ DrainedHasLeft(x) /\ ReplacedHasLeft(x) /\ AwaitsDrained(x)
  /\ RiddenIsSpent(x) /\ SeenIsHeld(x) /\ Told(x)

LEMMA YoungStep ==
  ASSUME BakedKeyed, Typed, YoungAreKeyed, Next \/ UNCHANGED vars
  PROVE  YoungAreKeyed'
<1>1. ASSUME NEW s \in Sup, Spawn(s) PROVE YoungAreKeyed'
  <2>1. born' = born \/ born' = Append(born, Baked[s])
    BY <1>1 DEF Spawn, Start
  <2>. QED  BY <2>1 DEF BakedKeyed, YoungAreKeyed, Typed, World
<1>2. CASE born' = born
  BY <1>2 DEF YoungAreKeyed
<1>3. born' = born \/ \E s \in Sup : Spawn(s)
  BY ZenonT(30) DEF Next, Step, Fold, Enact, Bind, Converge, Probe, Undecodable, Corroborate, ProbeFails, FoldLost,
         FoldAbsent, FoldUnspeakable, FoldAdopt, FoldReport, FoldRefuse, FoldRecycle, FoldDrain,
         Drain, DrainNotAdmitted, DrainTaken, DrainNotTaken, ReadHolder, Adopt, DialSkewed,
         DialFails, Characterize, Attest, Signal, Reaped, ConnectSpawned, Throw, DaemonExits,
         ConnectionCloses, vars, world
<1>. QED  BY <1>1, <1>2, <1>3

\* Daemons and drains are not forgotten, and none that has left comes back.
LEMMA Past ==
  ASSUME Typed, Next \/ UNCHANGED vars
  PROVE  /\ \A d \in 1 .. Len(born) : born'[d] = born[d] /\ d \in 1 .. Len(born')
         /\ \A d : Left(d) => Left(d)'
         /\ drained \subseteq drained'
         /\ Len(born) \in Nat /\ resident \in {None, Len(born)}
<1>1. /\ \A d \in 1 .. Len(born) : born'[d] = born[d] /\ d \in 1 .. Len(born')
      /\ Len(born) \in Nat /\ Len(born') \in Nat /\ resident \in {None, Len(born)}
  BY WorldStep, Growth DEF Typed, World
<1>2. drained \subseteq drained'
  <2>1. CASE \E s \in Sup : Drain(s)
    BY <2>1 DEF Drain
  <2>2. CASE ~ \E s \in Sup : Drain(s)
    <3>1. drained' = drained
      BY <2>2, ZenonT(30) DEF Next, Step, Fold, Enact, Bind, Converge, Probe, Undecodable, Corroborate,
         ProbeFails, FoldLost, FoldAbsent, FoldUnspeakable, FoldAdopt, FoldReport, FoldRefuse,
         FoldRecycle, FoldDrain, DrainNotAdmitted, DrainTaken, DrainNotTaken, ReadHolder, Adopt,
         DialSkewed, DialFails, Characterize, Attest, Signal, Reaped, Spawn, ConnectSpawned, Throw,
         DaemonExits, ConnectionCloses, vars, hist
    <3>. QED  BY <3>1
  <2>. QED  BY <2>1, <2>2
<1>3. resident' = None \/ resident' = resident \/ resident' > Len(born)
  <2>1. ASSUME NEW s \in Sup, Spawn(s) PROVE resident' = resident \/ resident' > Len(born)
    <3>1. UNCHANGED resident \/ (born' = Append(born, Baked[s]) /\ resident' = Len(born'))
      BY <2>1 DEF Spawn, Start
    <3>. QED  BY <3>1, <1>1 DEF Typed, World
  <2>2. CASE DaemonExits
    BY <2>2 DEF DaemonExits
  <2>3. resident' = resident \/ DaemonExits \/ \E s \in Sup : Spawn(s)
    BY ZenonT(30) DEF Next, Step, Fold, Enact, Bind, Converge, Probe, Undecodable, Corroborate, ProbeFails,
         FoldLost, FoldAbsent, FoldUnspeakable, FoldAdopt, FoldReport, FoldRefuse, FoldRecycle,
         FoldDrain, Drain, DrainNotAdmitted, DrainTaken, DrainNotTaken, ReadHolder, Adopt,
         DialSkewed, DialFails, Characterize, Attest, Signal, Reaped, ConnectSpawned, Throw,
         ConnectionCloses, vars, world
  <2>. QED  BY <2>1, <2>2, <2>3
<1>4. ASSUME NEW d, Left(d) PROVE Left(d)'
  BY <1>1, <1>3, <1>4 DEF Left, None
<1>. QED  BY <1>1, <1>2, <1>4

\* What was said of a daemon stays true of it.
LEMMA DescribedKept ==
  ASSUME Typed, NEW x \in Sup, NEW kind, NEW d \in Known, NEW h \in 1 .. Len(born),
         Next \/ UNCHANGED vars, replaced'[x] = replaced[x], Describes(x, kind, d, h)
  PROVE  Describes(x, kind, d, h)'
<1>1. /\ \A e \in 1 .. Len(born) : born'[e] = born[e] /\ e \in 1 .. Len(born')
      /\ drained \subseteq drained' /\ Len(born) \in Nat
  BY Past
<1>2. Compatible(x, h)' /\ Decide(x, h)' = Decide(x, h)
  BY <1>1 DEF Describes, Decide, SkewDecision, Compatible, Newer, SameBuild
<1>3. ASSUME kind = "adopted-stale" PROVE \E e \in 1 .. Len(born') : <<x, e>> \in drained' /\ Lineage(e)' = Lineage(d)'
  <2>1. PICK e \in 1 .. Len(born) : <<x, e>> \in drained /\ Lineage(e) = Lineage(d)
    BY <1>3 DEF Describes
  <2>2. d \in 1 .. Len(born)
    BY <1>1, <1>3 DEF Describes
  <2>3. Lineage(e)' = Lineage(d)'
    BY <1>1, <2>1, <2>2 DEF Lineage, KeyOf
  <2>. QED  BY <1>1, <2>1, <2>3
<1>. QED  BY <1>1, <1>2, <1>3 DEF Describes

LEMMA HonestKept ==
  ASSUME Typed, NEW x \in Sup, Honest(x), UNCHANGED Mine(x), Next \/ UNCHANGED vars
  PROVE  Honest(x)'
<1>1. /\ held[x] \in Known /\ held'[x] = held[x] /\ rideStale[x] \in Known /\ rideStale'[x] = rideStale[x]
      /\ outcome[x].running \in Known /\ outcome'[x] = outcome[x] /\ replaced'[x] = replaced[x]
      /\ pc'[x] = pc[x] /\ obs'[x] = obs[x] /\ bind'[x] = bind[x]
  BY DEF Typed, Locals, Outcomes, Mine
<1>2. /\ \A d \in 1 .. Len(born) : born'[d] = born[d] /\ d \in 1 .. Len(born')
      /\ \A d : Left(d) => Left(d)'
      /\ drained \subseteq drained' /\ Len(born) \in Nat
  BY Past
<1>3. held[x] # None => held[x] \in 1 .. Len(born)
  BY <1>1, <1>2 DEF Known, None
<1>4. HeldIsCompatible(x)'
  BY <1>1, <1>2, <1>3 DEF Honest, HeldIsCompatible, Compatible
<1>5. DrainedHasLeft(x)' /\ ReplacedHasLeft(x)' /\ AwaitsDrained(x)'
  BY <1>1, <1>2 DEF Honest, DrainedHasLeft, ReplacedHasLeft, AwaitsDrained, Left
<1>6. RiddenIsSpent(x)'
  <2>1. rideStale[x] # None => rideStale[x] \in 1 .. Len(born)
    BY <1>1, <1>2 DEF Known, None
  <2>. QED  BY <1>1, <1>2, <2>1 DEF Honest, RiddenIsSpent, Lineage, KeyOf
<1>7. SeenIsHeld(x)'
  BY <1>1 DEF Honest, SeenIsHeld
<1>8. Told(x)'
  BY <1>1, <1>3, DescribedKept DEF Honest, Told
<1>. QED  BY <1>4, <1>5, <1>6, <1>7, <1>8 DEF Honest

\* The daemon that answers for the held connection is the one it is held to.
LEMMA AnswerIsHeld ==
  ASSUME Typed, YoungAreKeyed, NEW s \in Sup, resident # None, SameInstance(s)
  PROVE  held[s] = resident
<1>1. /\ resident = Len(born) /\ Len(born) \in Nat /\ resident \in 1 .. Len(born)
      /\ held[s] \in 1 .. Len(born)
  BY DEF Typed, World, Locals, Known, SameInstance, None
<1>2. CASE KeyOf(resident) = 0
  <2>1. ~born[resident].keyed
    BY <1>1, <1>2 DEF KeyOf
  <2>2. born[resident].keyed # TRUE
    BY <2>1
  <2>3. resident \notin 2 .. Len(born)
    BY <2>2 DEF YoungAreKeyed
  <2>. QED  BY <1>1, <2>3
<1>3. CASE KeyOf(resident) # 0
  BY <1>1, <1>3 DEF SameInstance, KeyOf
<1>. QED  BY <1>2, <1>3

LEMMA HonestStep ==
  ASSUME Typed, Remembered, YoungAreKeyed, NEW s \in Sup, Honest(s),
         Converge(s) \/ Step(s) \/ ConnectionCloses(s)
  PROVE  Honest(s)'
<1>. USE DEF Goto, Observe, Release, Finish, RequestBind
<1>0. Locals /\ Asked(s) /\ (Next \/ UNCHANGED vars)
  BY DEF Typed, Next
<1>1. /\ \A d \in 1 .. Len(born) : born'[d] = born[d] /\ d \in 1 .. Len(born')
      /\ \A d : Left(d) => Left(d)'
      /\ drained \subseteq drained' /\ Len(born) \in Nat /\ resident \in {None, Len(born)}
      /\ held[s] \in Known /\ rideStale[s] \in Known /\ replaced[s] \in Known
  BY <1>0, Past DEF Locals
<1>2. ASSUME held'[s] \in {None, held[s]} PROVE HeldIsCompatible(s)'
  BY <1>1, <1>2 DEF Honest, HeldIsCompatible, Compatible, Known, None
<1>3. ASSUME rideStale'[s] \in {None, rideStale[s]} PROVE RiddenIsSpent(s)'
  <2>. SUFFICES ASSUME rideStale'[s] # None
                PROVE  \E e \in 1 .. Len(born') : <<s, e>> \in drained' /\ Lineage(e)' = Lineage(rideStale[s])'
    BY DEF RiddenIsSpent
  <2>1. rideStale'[s] = rideStale[s] /\ rideStale[s] \in 1 .. Len(born)
    BY <1>1, <1>3 DEF Known, None
  <2>2. PICK e \in 1 .. Len(born) : <<s, e>> \in drained /\ Lineage(e) = Lineage(rideStale[s])
    BY <2>1 DEF Honest, RiddenIsSpent
  <2>3. Lineage(e)' = Lineage(rideStale[s])'
    BY <1>1, <2>1, <2>2 DEF Lineage, KeyOf
  <2>. QED  BY <1>1, <2>2, <2>3
<1>4. ASSUME replaced'[s] \in {None, replaced[s]} PROVE ReplacedHasLeft(s)'
  BY <1>1, <1>4 DEF Honest, ReplacedHasLeft, Left
<1>5. ASSUME \/ pc'[s] \notin {"bind", "dial", "signal", "reap", "spawn", "connect"}
             \/ bind'[s].kind # "post-drain"
             \/ /\ pc[s] \in {"bind", "dial", "signal", "reap", "spawn", "connect"}
                /\ bind'[s] = bind[s] /\ replaced'[s] = replaced[s]
      PROVE  DrainedHasLeft(s)'
  BY <1>1, <1>5 DEF Honest, DrainedHasLeft, Left
<1>6. ASSUME pc'[s] # "awaitExit" PROVE AwaitsDrained(s)'
  BY <1>6 DEF AwaitsDrained
<1>7. ASSUME pc'[s] \notin {"probe", "fold", "admit", "awaitExit"} PROVE SeenIsHeld(s)'
  BY <1>7 DEF SeenIsHeld
<1>8. ASSUME pc'[s] # "done" \/ held'[s] = None PROVE Told(s)'
  BY <1>8 DEF Told
<1>9. ASSUME held'[s] \in {None, held[s]}, rideStale'[s] \in {None, rideStale[s]},
             replaced'[s] \in {None, replaced[s]}, pc'[s] # "awaitExit"
      PROVE  HeldIsCompatible(s)' /\ RiddenIsSpent(s)' /\ ReplacedHasLeft(s)' /\ AwaitsDrained(s)'
  BY <1>2, <1>3, <1>4, <1>6, <1>9
<1>10. CASE Converge(s)
  <2>1. /\ pc'[s] = "probe" /\ held' = held /\ rideStale'[s] = None /\ replaced'[s] = None
    BY <1>0, <1>10 DEF Converge, Locals
  <2>2. SeenIsHeld(s)'
    BY <2>1 DEF SeenIsHeld
  <2>. QED  BY <1>5, <1>8, <1>9, <2>1, <2>2 DEF Honest
<1>11. CASE ConnectionCloses(s)
  <2>1. /\ held'[s] = None
        /\ UNCHANGED <<pc, obs, bind, rideStale, replaced>>
    BY <1>0, <1>11 DEF ConnectionCloses, Locals
  <2>2. SeenIsHeld(s)' /\ AwaitsDrained(s)' /\ DrainedHasLeft(s)'
    BY <1>1, <2>1 DEF Honest, SeenIsHeld, AwaitsDrained, DrainedHasLeft, Left
  <2>. QED  BY <1>2, <1>3, <1>4, <1>8, <2>1, <2>2 DEF Honest
<1>12. CASE Probe(s)
  <2>1. /\ pc'[s] = "fold" /\ UNCHANGED <<held, rideStale, replaced>> /\ pc[s] = "probe"
        /\ obs'[s].kind = "identity" =>
             obs'[s].bound = FALSE /\ obs'[s].daemon = resident /\ resident # None
    BY <1>0, <1>12 DEF Probe, Absent, Found, Locals
  <2>2. resident # None => replaced[s] < resident
    BY <1>1 DEF Honest, ReplacedHasLeft, Left, Known, None
  <2>3. SeenIsHeld(s)'
    BY <2>1, <2>2 DEF Honest, SeenIsHeld
  <2>. QED  BY <1>5, <1>8, <1>9, <2>1, <2>3 DEF Honest
<1>13. CASE Undecodable(s)
  <2>1. pc'[s] = "corroborate" /\ UNCHANGED <<held, rideStale, replaced>>
    BY <1>0, <1>13 DEF Undecodable, local, Locals
  <2>. QED  BY <1>5, <1>7, <1>8, <1>9, <2>1 DEF Honest
<1>14. CASE Corroborate(s) \/ ProbeFails(s)
  <2>1. /\ pc'[s] = "fold" /\ UNCHANGED <<held, rideStale, replaced>>
        /\ obs'[s].kind # "identity"
    BY <1>0, <1>14 DEF Corroborate, ProbeFails, Lost, Locals
  <2>2. SeenIsHeld(s)'
    BY <2>1 DEF SeenIsHeld
  <2>. QED  BY <1>5, <1>8, <1>9, <2>1, <2>2 DEF Honest
<1>15. CASE FoldLost(s) \/ FoldRefuse(s)
  <2>1. pc'[s] = "done" /\ held'[s] = None /\ UNCHANGED <<rideStale, replaced>>
    BY <1>0, <1>15 DEF FoldLost, FoldRefuse, Locals
  <2>. QED  BY <1>5, <1>7, <1>8, <1>9, <2>1 DEF Honest
<1>16. CASE FoldAbsent(s) \/ FoldRecycle(s)
  <2>1. pc'[s] = "bind" /\ bind'[s].kind # "post-drain" /\ UNCHANGED <<held, rideStale, replaced>>
    <3>1. CASE FoldAbsent(s)
      BY <1>0, <3>1 DEF FoldAbsent, Locals
    <3>2. CASE FoldRecycle(s)
      BY <1>0, <3>2 DEF FoldRecycle, Locals
    <3>. QED  BY <1>16, <3>1, <3>2
  <2>. QED  BY <1>5, <1>7, <1>8, <1>9, <2>1 DEF Honest
<1>17. CASE (FoldAdopt(s) \/ FoldReport(s)) /\ ~obs[s].bound
  <2>1. /\ pc'[s] = "bind" /\ bind'[s].kind # "post-drain"
        /\ UNCHANGED <<held, rideStale, replaced>>
    BY <1>0, <1>17 DEF FoldAdopt, FoldReport, Locals
  <2>. QED  BY <1>5, <1>7, <1>8, <1>9, <2>1 DEF Honest
<1>18. CASE FoldAdopt(s) /\ obs[s].bound
  <2>1. /\ pc[s] = "fold" /\ obs[s].kind = "identity" /\ Decide(s, obs[s].daemon) = "adopt"
        /\ UNCHANGED <<born, held, rideStale, replaced, drained>> /\ pc'[s] = "done"
        /\ \/ replaced[s] = None /\ outcome'[s] = [kind |-> "adopted", running |-> None]
           \/ replaced[s] # None /\ outcome'[s] = [kind |-> "drained-replacing", running |-> replaced[s]]
    BY <1>0, <1>18 DEF FoldAdopt, Decided, world, hist, Locals
  <2>2. held[s] \in {None, obs[s].daemon} /\ replaced[s] < obs[s].daemon
    BY <1>18, <2>1 DEF Honest, SeenIsHeld
  <2>3. Told(s)'
    <3>. SUFFICES ASSUME held[s] # None
                  PROVE Describes(s, outcome[s].kind, outcome[s].running, held[s])'
      BY <2>1 DEF Told
    <3>1. Compatible(s, held[s])' /\ Decide(s, held[s])' = "adopt"
      BY <2>1, <2>2 DEF Honest, HeldIsCompatible, Decide, SkewDecision, Compatible, Newer, SameBuild
    <3>2. replaced[s] # None => <<s, replaced[s]>> \in drained
      BY DEF Honest, ReplacedHasLeft
    <3>. QED  BY <2>1, <2>2, <3>1, <3>2 DEF Describes
  <2>. QED  BY <1>5, <1>7, <1>9, <2>1, <2>3 DEF Honest
<1>19. CASE FoldReport(s) /\ obs[s].bound
  <2>1. /\ pc[s] = "fold" /\ obs[s].kind = "identity" /\ Decide(s, obs[s].daemon) = "report"
        /\ UNCHANGED <<born, held, rideStale, replaced, drained>> /\ pc'[s] = "done"
        /\ outcome'[s] = [kind |-> "mismatch-reported", running |-> obs[s].daemon]
    BY <1>0, <1>19 DEF FoldReport, Decided, world, hist, Locals
  <2>2. held[s] \in {None, obs[s].daemon}
    BY <1>19, <2>1 DEF Honest, SeenIsHeld
  <2>3. Told(s)'
    <3>. SUFFICES ASSUME held[s] # None
                  PROVE Describes(s, outcome[s].kind, outcome[s].running, held[s])'
      BY <2>1 DEF Told
    <3>1. Compatible(s, held[s])' /\ Decide(s, held[s])' = "report"
      BY <2>1, <2>2 DEF Honest, HeldIsCompatible, Decide, SkewDecision, Compatible, Newer, SameBuild
    <3>. QED  BY <2>1, <2>2, <3>1 DEF Describes
  <2>. QED  BY <1>5, <1>7, <1>9, <2>1, <2>3 DEF Honest
<1>20. CASE FoldDrain(s) /\ rideStale[s] = None
  <2>1. /\ pc'[s] \in {"probe", "admit"} /\ pc[s] = "fold" /\ obs[s].kind = "identity"
        /\ UNCHANGED <<obs, held, rideStale, replaced>>
    BY <1>0, <1>20 DEF FoldDrain, Decided, Locals
  <2>2. SeenIsHeld(s)'
    BY <1>20, <2>1 DEF Honest, SeenIsHeld
  <2>. QED  BY <1>5, <1>8, <1>9, <2>1, <2>2 DEF Honest
<1>21. CASE FoldDrain(s) /\ rideStale[s] # None
  <2>1. /\ pc[s] = "fold" /\ obs[s].kind = "identity" /\ Decide(s, obs[s].daemon) = "drain"
        /\ UNCHANGED <<born, held, rideStale, replaced, drained>> /\ pc'[s] = "done"
        /\ outcome'[s] = [kind |-> "adopted-stale", running |-> rideStale[s]]
    BY <1>0, <1>21 DEF FoldDrain, Decided, world, hist, Locals
  <2>2. held[s] \in {None, obs[s].daemon} /\ rideStale[s] \in 1 .. obs[s].daemon
    BY <1>0, <1>1, <1>21, <2>1 DEF Honest, SeenIsHeld, Asked, Known, None
  <2>3. Told(s)'
    <3>. SUFFICES ASSUME held[s] # None
                  PROVE Describes(s, outcome[s].kind, outcome[s].running, held[s])'
      BY <2>1 DEF Told
    <3>1. Compatible(s, held[s])' /\ Decide(s, held[s])' = "drain"
      BY <2>1, <2>2 DEF Honest, HeldIsCompatible, Decide, SkewDecision, Compatible, Newer, SameBuild
    <3>2. \E e \in 1 .. Len(born') : <<s, e>> \in drained' /\ Lineage(e)' = Lineage(rideStale[s])'
      BY <1>21, <2>1 DEF Honest, RiddenIsSpent, Lineage, KeyOf
    <3>3. /\ outcome'[s].kind = "adopted-stale" /\ outcome'[s].running = rideStale'[s]
          /\ outcome'[s].running \in 1 .. held'[s]
      BY <2>1, <2>2
    <3>. QED  BY <3>1, <3>2, <3>3, <2>1 DEF Describes, Lineage, KeyOf
  <2>. QED  BY <1>5, <1>7, <1>9, <2>1, <2>3 DEF Honest
<1>22. CASE Drain(s)
  <2>1. /\ pc[s] = "admit" /\ pc'[s] = "awaitExit" /\ UNCHANGED <<obs, held, rideStale, replaced>>
        /\ drained' = drained \cup {<<s, obs[s].daemon>>}
    BY <1>0, <1>22 DEF Drain, Locals
  <2>2. SeenIsHeld(s)' /\ AwaitsDrained(s)'
    BY <2>1 DEF Honest, SeenIsHeld, AwaitsDrained
  <2>. QED  BY <1>2, <1>3, <1>4, <1>5, <1>8, <2>1, <2>2 DEF Honest
<1>23. CASE DrainTaken(s)
  <2>1. /\ pc[s] = "awaitExit" /\ pc'[s] = "bind" /\ UNCHANGED <<born, resident, held, rideStale, replaced, drained>>
        /\ bind'[s].running = obs[s].daemon /\ resident = None
    BY <1>0, <1>23 DEF DrainTaken, world, hist, Locals
  <2>2. obs[s].daemon \in 1 .. Len(born) /\ obs[s].kind = "identity"
    BY <1>0, <2>1 DEF Asked
  <2>3. DrainedHasLeft(s)'
    BY <1>1, <2>1, <2>2 DEF Honest, SeenIsHeld, AwaitsDrained, DrainedHasLeft, Left, None, Known
  <2>. QED  BY <1>7, <1>8, <1>9, <2>1, <2>3 DEF Honest
<1>24. CASE DrainNotAdmitted(s) \/ DrainNotTaken(s)
  <2>1. PICK why : /\ GiveUp(s, why)
                   /\ UNCHANGED <<born, resident, obs, replaced, drained>>
                   /\ \/ pc[s] = "admit" /\ why = Verdict(s, obs[s].daemon)
                      \/ pc[s] = "awaitExit"
    BY <1>24 DEF DrainNotAdmitted, DrainNotTaken, world, hist
  <2>2. CASE pc'[s] = "bind"
    <3>1. /\ why = "budget" /\ held' = held /\ rideStale'[s] = obs[s].daemon
          /\ bind'[s].kind # "post-drain"
      BY <1>0, <2>1, <2>2 DEF GiveUp, Locals
    <3>2. obs[s].daemon \in 1 .. Len(born)
      BY <1>0, <2>1 DEF Asked
    <3>3. PICK e \in 1 .. Len(born) : <<s, e>> \in drained /\ Lineage(e) = Lineage(obs[s].daemon)
      <4>1. CASE pc[s] = "awaitExit"
        BY <3>2, <4>1 DEF Honest, AwaitsDrained
      <4>2. CASE pc[s] = "admit" /\ Verdict(s, obs[s].daemon) = "budget"
        <5>1. attempts[s][Lineage(obs[s].daemon)] >= MaxAttempts /\ MaxAttempts \in Nat \ {0}
          BY <4>2, ConvergenceAssumption DEF Verdict
        <5>2. Lineage(obs[s].daemon) \in Lineages
          BY <3>2, LineageType DEF Typed
        <5>3. attempts[s][Lineage(obs[s].daemon)] > 0
          BY <1>0, <5>1, <5>2, ConvergenceAssumption DEF Locals
        <5>. QED  BY <5>2, <5>3 DEF Remembered
      <4>. QED  BY <2>1, <3>1, <4>1, <4>2
    <3>4. RiddenIsSpent(s)'
      BY <2>1, <3>1, <3>2, <3>3 DEF RiddenIsSpent, Lineage, KeyOf
    <3>. QED  BY <1>2, <1>4, <1>5, <1>6, <1>7, <1>8, <2>1, <2>2, <3>1, <3>4 DEF Honest
  <2>3. CASE pc'[s] # "bind"
    <3>1. pc'[s] = "done" /\ held'[s] = None /\ rideStale' = rideStale
      BY <1>0, <2>1, <2>3 DEF GiveUp, Locals
    <3>. QED  BY <1>5, <1>7, <1>8, <1>9, <2>1, <3>1 DEF Honest
  <2>. QED  BY <2>2, <2>3
<1>25. CASE ReadHolder(s) \/ Signal(s) \/ Reaped(s) \/ Spawn(s)
  <2>1. /\ pc[s] \in {"bind", "dial", "signal", "reap", "spawn", "connect"}
        /\ pc'[s] \in {"bind", "dial", "signal", "reap", "spawn", "connect"}
        /\ UNCHANGED <<bind, held, rideStale, replaced>>
    BY <1>0, <1>25 DEF ReadHolder, Signal, Reaped, Spawn, local, Locals
  <2>. QED  BY <1>5, <1>7, <1>8, <1>9, <2>1 DEF Honest
<1>26. CASE Adopt(s)
  <2>1. /\ pc[s] = "dial" /\ pc'[s] = "characterize" /\ UNCHANGED <<born, resident, rideStale, drained>>
        /\ held'[s] = resident /\ Compatible(s, resident)
        /\ replaced'[s] = replaced[s] \/ (bind[s].kind = "post-drain" /\ replaced'[s] = bind[s].running)
    BY <1>0, <1>26 DEF Adopt, world, hist, Locals
  <2>2. HeldIsCompatible(s)'
    BY <2>1 DEF HeldIsCompatible, Compatible
  <2>3. ReplacedHasLeft(s)'
    BY <2>1 DEF Honest, ReplacedHasLeft, DrainedHasLeft, Left
  <2>. QED  BY <1>3, <1>5, <1>6, <1>7, <1>8, <2>1, <2>2, <2>3 DEF Honest
<1>27. CASE DialSkewed(s) \/ DialFails(s) \/ Attest(s)
  <2>1. /\ UNCHANGED <<rideStale, replaced>>
        /\ \/ pc'[s] = "done" /\ held'[s] = None
           \/ /\ pc'[s] = "signal" /\ held' = held
              /\ (pc[s] = "dial" /\ bind' = bind) \/ bind'[s].kind = "recycle"
    BY <1>0, <1>27 DEF DialSkewed, DialFails, BindRefused, Attest, NoBind, Locals
  <2>. QED  BY <1>5, <1>7, <1>8, <1>9, <2>1 DEF Honest
<1>28. CASE Characterize(s)
  <2>1. /\ pc'[s] = "fold" /\ UNCHANGED <<held, rideStale, replaced>>
        /\ obs'[s].kind = "identity" =>
             obs'[s].daemon = resident /\ resident # None /\ obs'[s].bound = TRUE /\ SameInstance(s)
    BY <1>0, <1>28 DEF Characterize, Answers, Absent, Found, Lost, Locals
  <2>2. resident # None => replaced[s] < resident /\ rideStale[s] =< resident
    BY <1>1 DEF Honest, ReplacedHasLeft, Left, Known, None
  <2>3. SeenIsHeld(s)'
    BY <2>1, <2>2, AnswerIsHeld DEF SeenIsHeld
  <2>. QED  BY <1>5, <1>8, <1>9, <2>1, <2>3 DEF Honest
<1>29. CASE ConnectSpawned(s)
  <2>1. /\ pc[s] = "connect" /\ pc'[s] = "done" /\ UNCHANGED <<born, resident, rideStale, replaced, drained>>
        /\ held'[s] = resident /\ Compatible(s, resident) /\ resident # None
        /\ outcome'[s].running = bind[s].running
        /\ outcome'[s].kind \in {"recycled", "drained-replacing", "spawned-fresh"}
        /\ outcome'[s].kind = "drained-replacing" => bind[s].kind = "post-drain"
    BY <1>0, <1>29 DEF ConnectSpawned, Answers, world, hist, Locals
  <2>2. HeldIsCompatible(s)' /\ Compatible(s, held[s])'
    BY <2>1 DEF HeldIsCompatible, Compatible
  <2>3. outcome'[s].kind = "drained-replacing" =>
          /\ <<s, bind[s].running>> \in drained /\ bind[s].running < resident
          /\ bind[s].running # replaced[s]
    BY <1>1, <2>1 DEF Honest, DrainedHasLeft, Left
  <2>4. Told(s)'
    BY <2>1, <2>2, <2>3 DEF Told, Describes
  <2>. QED  BY <1>3, <1>4, <1>5, <1>6, <1>7, <2>1, <2>2, <2>4 DEF Honest
<1>30. CASE Throw(s)
  <2>1. /\ pc'[s] = "done" /\ outcome'[s].kind = "threw" /\ UNCHANGED <<held, rideStale, replaced>>
    BY <1>0, <1>30 DEF Throw, Locals
  <2>2. Told(s)'
    BY <1>9, <2>1 DEF Told, Describes, HeldIsCompatible
  <2>. QED  BY <1>5, <1>7, <1>9, <2>1, <2>2 DEF Honest
<1>31. CASE FoldUnspeakable(s)
  <2>1. pc'[s] = "attest" /\ UNCHANGED <<held, rideStale, replaced>>
    BY <1>0, <1>31 DEF FoldUnspeakable, local, Locals
  <2>. QED  BY <1>5, <1>7, <1>8, <1>9, <2>1 DEF Honest
<1>. QED
  BY <1>10, <1>11, <1>12, <1>13, <1>14, <1>15, <1>16, <1>17, <1>18, <1>19, <1>20, <1>21, <1>22, <1>23,
     <1>24, <1>25, <1>26, <1>27, <1>28, <1>29, <1>30, <1>31 DEF Step, Fold, Enact, Bind

\* What converge returns is about the daemon it holds or about what became of its
\* predecessor, whichever daemons came and went between the probe, the drain, the
\* bind and the second probe; given that the daemons the supervisors themselves
\* spawn report their start times.
THEOREM OutcomesAreHonest == ASSUME BakedKeyed PROVE Spec => []OutcomeIsAboutHeld
<1>. DEFINE I == Typed /\ Remembered /\ OneFight /\ YoungAreKeyed /\ \A x \in Sup : Honest(x)
<1>1. Init => I
  <2>. SUFFICES ASSUME Init
                PROVE  Remembered /\ OneFight /\ YoungAreKeyed /\ \A x \in Sup : Honest(x)
    BY TypeInit
  <2>1. /\ Len(born) \in {0, 1} /\ drained = {}
        /\ \A x \in Sup, l \in Lineages : attempts[x][l] = 0
    BY DEF Init
  <2>2. \A x \in Sup : pc[x] = "done" /\ held[x] = None /\ rideStale[x] = None /\ replaced[x] = None
    BY DEF Init
  <2>3. Remembered /\ OneFight /\ YoungAreKeyed
    BY <2>1 DEF Remembered, OneFight, Fought, YoungAreKeyed
  <2>4. \A x \in Sup : Honest(x)
    BY <2>2 DEF Honest, HeldIsCompatible, DrainedHasLeft, ReplacedHasLeft, AwaitsDrained, RiddenIsSpent,
                SeenIsHeld, Told
  <2>. QED  BY <2>3, <2>4
<1>2. I /\ [Next]_vars => I'
  <2>. SUFFICES ASSUME I, Next \/ UNCHANGED vars, NEW x \in Sup PROVE Honest(x)'
    BY TypedStep, FightStep, YoungStep
  <2>1. ASSUME NEW s \in Sup, Converge(s) \/ Step(s) \/ ConnectionCloses(s) PROVE Honest(x)'
    <3>1. CASE x = s
      BY <2>1, <3>1, HonestStep
    <3>2. CASE x # s
      BY <2>1, <3>2, OthersKeep, HonestKept DEF Typed
    <3>. QED  BY <3>1, <3>2
  <2>2. CASE DaemonExits \/ UNCHANGED vars
    <3>1. UNCHANGED Mine(x)
      BY <2>2 DEF DaemonExits, vars, local, hist, Mine
    <3>. QED  BY <3>1, HonestKept
  <2>. QED  BY <2>1, <2>2 DEF Next
<1>3. I => OutcomeIsAboutHeld
  BY DEF Honest, Told, OutcomeIsAboutHeld
<1>. QED  BY <1>1, <1>2, <1>3, PTL DEF Spec
=============================================================================
