--------------------------- MODULE MCConvergence ---------------------------
(* Instances of Convergence for TLC. *)
EXTENDS Convergence

CONSTANTS s, t   \* supervisors

Daemon(e, maj, min, b) ==
  [epoch |-> e, major |-> maj, minor |-> min, build |-> b, keyed |-> TRUE]

\* Same contract, rival builds.
RivalBuilds == [x \in Sup |-> Daemon(1, 1, 0, IF x = s THEN "A" ELSE "B")]

NewMajor   == {Daemon(1, 2, 0, "C")}
OldMajor   == {Daemon(1, 0, 0, "C")}
Ahead      == {Daemon(1, 1, 1, "C")}
OldBuild   == {Daemon(1, 1, 0, "C")}
NoKey      == {[Daemon(1, 1, 0, OffNix) EXCEPT !.keyed = FALSE]}
OtherEpoch == {Daemon(0, 1, 0, "C")}
Anything   == Ahead \cup OldMajor \cup NewMajor \cup NoKey \cup OtherEpoch
Mixed      == OldBuild \cup NoKey \cup OtherEpoch

AllOf(v) == [x \in Sup |-> v]
Drainers == AllOf("drain-newer-else-refuse")
Replace  == AllOf("drain-and-replace")
\* One supervisor that drains what is not its own, one that recycles a skewed
\* contract and leaves another build to a human.
MixedSkew     == [x \in Sup |-> IF x = s THEN "drain-newer-else-refuse" ELSE "recycle"]
MixedMismatch == [x \in Sup |-> IF x = s THEN "drain-and-replace" ELSE "nudge-human"]
Ride     == AllOf("adopt-stale")

\* The state without the variables of a converge that nothing reads any more:
\* each is written again before it is next read.  States that differ only there
\* have the same successors, so one of them stands for all (VIEW).
While(x, pcs, v) == IF pc[x] \in pcs THEN v ELSE None
Live ==
  <<born, resident, dying \cap {resident}, pc, held, rideStale, replaced, attempts, outcome, drained,
    [x \in Sup |-> While(x, {"fold", "attest", "admit", "awaitExit"}, obs[x])],
    [x \in Sup |-> While(x, {"corroborate", "fold", "attest", "signal"}, unheard[x])],
    [x \in Sup |-> While(x, {"bind", "dial", "signal", "reap", "spawn", "connect"}, bind[x])],
    [x \in Sup |-> While(x, {"dial", "signal", "reap"}, target[x])]>>
=============================================================================
