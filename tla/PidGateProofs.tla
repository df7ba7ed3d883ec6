--------------------------- MODULE PidGateProofs ---------------------------
(* Theorems about PidGate for any set of incarnations, any assignment of   *)
(* pids and start instants, and any bound on the passes of acquire.        *)
EXTENDS PidGate, TLAPS

\* A process that reaches link, read, probe or reap still has a pass to spend.
PassLeft ==
  \A p \in Proc :
    pc[p] \in {"link", "read", "probe", "reap"} => attempt[p] < MaxAttempts

\* A holder that was not evicted is the one the gate file names.
GateNamesHolder == \A p \in Proc \ evicted : Holds(p) => gate = p

\* Whoever wrote a record that is in the file, or that a claimant has read,
\* has been past the link.
PastLink(p) == pc[p] \in Holding \cup Ended
RecordsAreWritten ==
  /\ gate \in Proc => PastLink(gate)
  /\ \A p \in Proc : seen[p] \in Proc => PastLink(seen[p])

\* Only a process past the link can have been evicted, and its record is never
\* back in the file.
EvictedPastLink == \A p \in evicted : PastLink(p) /\ gate # p

\* The socket fence is reached on a one-field record only.
FenceIsOneField == \A p \in Proc : pc[p] \in {"fence", "dial"} => ~TwoField(seen[p])

IInv ==
  /\ TypeOK
  /\ PassLeft
  /\ GateNamesHolder
  /\ RecordsAreWritten
  /\ EvictedPastLink
  /\ FenceIsOneField
  /\ StaleVerdictIsFinal

-----------------------------------------------------------------------------
\* A live process always matches its own record: the drift of a reading stays
\* within the tolerance.
LEMMA OwnRecordMatches ==
  ASSUME NEW p \in Proc, NEW d \in -Skew .. Skew
  PROVE  Matches(p, p, d)
BY RendezvousAssumption DEF Matches

\* ... so a record judged stale belongs to a process that is gone.
LEMMA StaleIsDead ==
  ASSUME NEW g \in Proc, NEW d \in -Skew .. Skew, ~LiveHolder(g, d)
  PROVE  ~Alive(g)
BY OwnRecordMatches DEF LiveHolder

LEMMA InitInv == Init => IInv
<1> SUFFICES ASSUME Init PROVE IInv
  OBVIOUS
<1>s. PICK st \in Starts : pc = st.pc /\ gate = st.gate /\ sock = st.sock
  BY DEF Init
<1>p. \A p \in Proc :
        /\ pc[p] \in {"off", "bystander", "dead", "clear", "serving"}
        /\ pc[p] \in {"clear", "serving"} => gate = p
  BY <1>s, StartsAssumption
<1>1. TypeOK
  <2>1. pc \in [Proc -> Pcs]
    BY <1>s, StartsAssumption DEF Pcs, Holding, Ended
  <2>2. gate \in Proc \cup {NoFile, Malformed} /\ sock \in Proc \cup {NoFile, Foreign}
    BY <1>s, StartsAssumption
  <2>3. attempt \in [Proc -> 0 .. MaxAttempts]
    BY RendezvousAssumption DEF Init
  <2>4. seen \in [Proc -> Proc \cup {NoFile, Malformed}]
    BY DEF Init
  <2> QED
    BY <2>1, <2>2, <2>3, <2>4 DEF Init, TypeOK
<1>2. PassLeft
  BY <1>p DEF PassLeft
<1>3. GateNamesHolder
  BY <1>p DEF GateNamesHolder, Holds, Holding
<1>4. RecordsAreWritten
  <2>1. gate \in Proc => pc[gate] \in {"dead", "clear", "serving"}
    BY <1>s, StartsAssumption
  <2>2. NoFile \notin Proc
    BY RendezvousAssumption
  <2> QED
    BY <2>1, <2>2 DEF Init, RecordsAreWritten, PastLink, Holding, Ended
<1>5. EvictedPastLink
  BY DEF Init, EvictedPastLink
<1>6. FenceIsOneField
  BY <1>p DEF FenceIsOneField
<1>7. StaleVerdictIsFinal
  BY <1>p DEF StaleVerdictIsFinal
<1> QED
  BY <1>1, <1>2, <1>3, <1>4, <1>5, <1>6, <1>7 DEF IInv

-----------------------------------------------------------------------------
(* One step keeps the invariant.  An action moves one process p to a label  *)
(* l; most of them leave the gate, the reads and the evictions alone, and   *)
(* QuietStep says once what such a move preserves.                          *)

History == PassLeft /\ GateNamesHolder /\ RecordsAreWritten /\ EvictedPastLink
             /\ FenceIsOneField /\ StaleVerdictIsFinal

LEMMA QuietStep ==
  ASSUME IInv, NEW p \in Proc, NEW l \in Pcs, Goto(p, l), pc[p] \notin Ended,
         UNCHANGED <<gate, seen, attempt, evicted>>,
         pc[p] \in Holding => l \in Holding \cup Ended,
         l \in Holding => pc[p] \in Holding,
         l \in {"link", "read", "probe", "reap"} => attempt[p] < MaxAttempts,
         l \in {"fence", "dial"} => ~TwoField(seen[p]),
         l \in {"reap", "reclaim"} /\ TwoField(seen[p]) => ~Alive(seen[p])
  PROVE  /\ pc' \in [Proc -> Pcs]
         /\ History'
<1>1. /\ pc' \in [Proc -> Pcs] /\ pc'[p] = l
      /\ \A q \in Proc \ {p} : pc'[q] = pc[q]
  BY DEF IInv, TypeOK, Goto
<1>2. \A q \in Proc : PastLink(q) => PastLink(q)'
  BY <1>1 DEF PastLink
<1>3. PassLeft' /\ FenceIsOneField'
  BY <1>1 DEF IInv, PassLeft, FenceIsOneField, TwoField
<1>4. GateNamesHolder'
  BY <1>1 DEF IInv, GateNamesHolder, Holds
<1>5. RecordsAreWritten'
  BY <1>2 DEF IInv, RecordsAreWritten
<1>6. EvictedPastLink'
  BY <1>2 DEF IInv, EvictedPastLink, TypeOK
<1>7. StaleVerdictIsFinal'
  <2> SUFFICES ASSUME NEW q \in Proc, pc'[q] \in {"reap", "reclaim"},
                      TwoField(seen[q])
               PROVE  ~Alive(seen[q])'
    BY DEF StaleVerdictIsFinal, TwoField
  <2>1. ~Alive(seen[q])
    BY <1>1 DEF IInv, StaleVerdictIsFinal
  <2>2. seen[q] \in Proc /\ PastLink(seen[q])
    BY DEF TwoField, IInv, RecordsAreWritten
  <2>3. pc[seen[q]] \in Ended
    BY <2>1, <2>2 DEF Alive, PastLink, Holding, Ended
  <2> QED
    BY <2>2, <2>3, <1>1 DEF Alive
<1> QED
  BY <1>1, <1>3, <1>4, <1>5, <1>6, <1>7 DEF History

\* The moves that are quiet in that sense.
Quiet(p) ==
  \/ Launch(p) \/ ProbeHolder(p) \/ Reprobe(p) \/ FenceStat(p) \/ FenceDial(p) \/ ClaimThrows(p)
  \/ ConnectSocket(p) \/ ConnectFails(p) \/ ClassifyInode(p) \/ ClearSocket(p)
  \/ Bind(p) \/ Listen(p) \/ CloseServer(p) \/ RemoveSocket(p) \/ CheckOwnGate(p)
  \/ ReleaseThrows(p) \/ Die(p)

LEMMA QuietKeeps ==
  ASSUME IInv, NEW p \in Proc, Quiet(p)
  PROVE  TypeOK' /\ History'
<1> USE DEF Pcs, Claiming, Holding, Ended
<1>t. TypeOK /\ PassLeft /\ FenceIsOneField /\ StaleVerdictIsFinal /\ RecordsAreWritten
  BY DEF IInv
<1>f. /\ gate' = gate /\ seen' = seen /\ attempt' = attempt /\ evicted' = evicted
      /\ confirmed' = confirmed /\ sock' \in Proc \cup {NoFile, Foreign}
      /\ refused' \subseteq Legacy
  BY <1>t DEF Quiet, TypeOK, Launch, ProbeHolder, Reprobe, FenceStat, FenceDial, ClaimThrows,
     ConnectSocket, ConnectFails, ClassifyInode, ClearSocket, Bind, Listen, CloseServer,
     RemoveSocket, CheckOwnGate, ReleaseThrows, Die
<1>g. /\ pc' \in [Proc -> Pcs]
      /\ History'
  <2>1. CASE Launch(p)
    <3>1. PICK l \in {"mkdir"} : Goto(p, l)
      BY <2>1 DEF Launch, Goto
    <3> QED
      BY <2>1, <3>1, <1>f, QuietStep DEF Launch
  <2>2. CASE ProbeHolder(p)
    <3>1. PICK d \in -Skew .. Skew, l \in {"reap", "yielded", "reread"} :
            /\ Goto(p, l)
            /\ l = "reap" => ~LiveHolder(seen[p], d)
            /\ l = "fence" => ~TwoField(seen[p])
      BY <2>2 DEF ProbeHolder, Goto
    <3>2. l = "reap" /\ TwoField(seen[p]) => ~Alive(seen[p])
      BY <3>1, StaleIsDead DEF TwoField
    <3> QED
      BY <2>2, <3>1, <3>2, <1>f, <1>t, QuietStep DEF ProbeHolder, PassLeft
  <2>3. CASE Reprobe(p)
    <3>1. PICK d \in -Skew .. Skew, l \in {"reclaim", "yielded", "fence"} :
            /\ Goto(p, l)
            /\ l = "reclaim" => ~LiveHolder(seen[p], d)
            /\ l = "fence" => ~TwoField(seen[p])
      BY <2>3 DEF Reprobe, Goto
    <3>2. l = "reclaim" /\ TwoField(seen[p]) => ~Alive(seen[p])
      BY <3>1, StaleIsDead DEF TwoField
    <3> QED
      BY <2>3, <3>1, <3>2, <1>f, QuietStep DEF Reprobe
  <2>4. CASE FenceStat(p) \/ FenceDial(p)
    <3>1. PICK l \in {"reclaim", "yielded", "dial"} : Goto(p, l)
      BY <2>4 DEF FenceStat, FenceDial, Goto
    <3>2. ~TwoField(seen[p])
      BY <2>4, <1>t DEF FenceStat, FenceDial, FenceIsOneField
    <3> QED
      BY <2>4, <3>1, <3>2, <1>f, QuietStep DEF FenceStat, FenceDial
  <2>5. CASE ClaimThrows(p)
    <3>1. PICK l \in {"threw"} : Goto(p, l)
      BY <2>5 DEF ClaimThrows, Goto
    <3> QED
      BY <2>5, <3>1, <1>f, QuietStep DEF ClaimThrows
  <2>6. CASE ConnectSocket(p)
    <3>1. PICK l \in {"checkOwn", "classify"} : Goto(p, l)
      BY <2>6 DEF ConnectSocket, Goto
    <3> QED
      BY <2>6, <3>1, <1>f, QuietStep DEF ConnectSocket
  <2>7. CASE ConnectFails(p)
    <3>1. PICK l \in {"checkOwn"} : Goto(p, l)
      BY <2>7 DEF ConnectFails, Goto
    <3> QED
      BY <2>7, <3>1, <1>f, QuietStep DEF ConnectFails
  <2>8. CASE ClassifyInode(p)
    <3>1. PICK l \in {"checkOwn", "clear"} : Goto(p, l)
      BY <2>8 DEF ClassifyInode, Goto
    <3> QED
      BY <2>8, <3>1, <1>f, QuietStep DEF ClassifyInode
  <2>9. CASE ClearSocket(p)
    <3>1. PICK l \in {"bind"} : Goto(p, l)
      BY <2>9 DEF ClearSocket, Goto
    <3> QED
      BY <2>9, <3>1, <1>f, QuietStep DEF ClearSocket
  <2>10. CASE Bind(p) \/ Listen(p)
    <3>1. PICK l \in {"listen", "serving", "checkOwn"} : Goto(p, l)
      BY <2>10 DEF Bind, Listen, Goto
    <3> QED
      BY <2>10, <3>1, <1>f, QuietStep DEF Bind, Listen
  <2>11. CASE CloseServer(p)
    <3>1. PICK l \in {"unsocket"} : Goto(p, l)
      BY <2>11 DEF CloseServer, Goto
    <3> QED
      BY <2>11, <3>1, <1>f, QuietStep DEF CloseServer
  <2>12. CASE RemoveSocket(p)
    <3>1. PICK l \in {"checkOwn"} : Goto(p, l)
      BY <2>12 DEF RemoveSocket, Goto
    <3> QED
      BY <2>12, <3>1, <1>f, QuietStep DEF RemoveSocket
  <2>13. CASE CheckOwnGate(p)
    <3>1. PICK l \in {"unlinkOwn", "exited"} : Goto(p, l)
      BY <2>13 DEF CheckOwnGate, Goto
    <3> QED
      BY <2>13, <3>1, <1>f, QuietStep DEF CheckOwnGate
  <2>14. CASE ReleaseThrows(p)
    <3>1. PICK l \in {"threw"} : Goto(p, l)
      BY <2>14 DEF ReleaseThrows, Goto
    <3> QED
      BY <2>14, <3>1, <1>f, QuietStep DEF ReleaseThrows
  <2>15. CASE Die(p)
    <3>1. PICK l \in {"dead"} : Goto(p, l)
      BY <2>15 DEF Die, Goto
    <3> QED
      BY <2>15, <3>1, <1>f, QuietStep DEF Die, Alive
  <2> QED
    BY <2>1, <2>2, <2>3, <2>4, <2>5, <2>6, <2>7, <2>8, <2>9, <2>10, <2>11, <2>12, <2>13, <2>14, <2>15 DEF Quiet
<1> QED
  BY <1>f, <1>g, <1>t DEF TypeOK

\* A claimant's unlink takes the gate from whoever held it, and says so in
\* evicted; the end of release takes it from nobody else who was not evicted.
LEMMA UnlinkStep ==
  ASSUME IInv, NEW p \in Proc, NEW l \in {"link", "mkdir", "threw", "exited"},
         Goto(p, l), UnlinkGate(p), seen' = seen,
         pc[p] \in {"reap", "reclaim", "unlinkOwn"},
         pc[p] = "unlinkOwn" => l = "exited",
         pc[p] # "unlinkOwn" => l # "exited"
  PROVE  /\ pc' \in [Proc -> Pcs]
         /\ gate' \in Proc \cup {NoFile, Malformed} /\ evicted' \subseteq Proc
         /\ GateNamesHolder' /\ RecordsAreWritten' /\ EvictedPastLink'
         /\ FenceIsOneField' /\ StaleVerdictIsFinal'
<1>1. /\ pc' \in [Proc -> Pcs] /\ pc'[p] = l
      /\ \A q \in Proc \ {p} : pc'[q] = pc[q]
  BY DEF IInv, TypeOK, Goto, Pcs, Claiming, Ended
<1>2. /\ gate' = NoFile /\ NoFile \notin Proc
      /\ evicted' = evicted \cup {q \in Proc \ {p} : gate = q /\ Holds(q)}
  BY RendezvousAssumption DEF UnlinkGate
<1>3. \A q \in Proc : PastLink(q) => PastLink(q)'
  BY <1>1 DEF PastLink, Holding, Ended
<1>4. GateNamesHolder'
  BY <1>1, <1>2 DEF IInv, GateNamesHolder, Holds, Holding
<1>5. RecordsAreWritten'
  BY <1>2, <1>3 DEF IInv, RecordsAreWritten
<1>6. EvictedPastLink'
  BY <1>2, <1>3 DEF IInv, EvictedPastLink, TypeOK, Holds, PastLink
<1>7. FenceIsOneField'
  BY <1>1 DEF IInv, FenceIsOneField, TwoField
<1>8. StaleVerdictIsFinal'
  <2> SUFFICES ASSUME NEW q \in Proc, pc'[q] \in {"reap", "reclaim"},
                      TwoField(seen[q])
               PROVE  ~Alive(seen[q])'
    BY DEF StaleVerdictIsFinal, TwoField
  <2>1. ~Alive(seen[q])
    BY <1>1 DEF IInv, StaleVerdictIsFinal
  <2>2. seen[q] \in Proc /\ PastLink(seen[q])
    BY DEF TwoField, IInv, RecordsAreWritten
  <2>3. pc[seen[q]] \in Ended
    BY <2>1, <2>2 DEF Alive, PastLink, Holding, Ended
  <2> QED
    BY <2>2, <2>3, <1>1 DEF Alive, Ended
<1> QED
  BY <1>1, <1>2, <1>4, <1>5, <1>6, <1>7, <1>8 DEF IInv, TypeOK

LEMMA StepInv == IInv /\ [Next]_vars => IInv'
<1> SUFFICES ASSUME IInv, [Next]_vars PROVE IInv'
  OBVIOUS
<1> USE DEF IInv, History
<1>1. ASSUME NEW p \in Proc, Quiet(p) PROVE IInv'
  BY <1>1, QuietKeeps
<1>2. ASSUME NEW p \in Proc, OpenDir(p) PROVE IInv'
  <2>1. PICK l \in {"link", "refused"} : Goto(p, l)
    BY <1>2 DEF OpenDir, Goto
  <2>2. pc' \in [Proc -> Pcs] /\ attempt' \in [Proc -> 0 .. MaxAttempts]
    BY <1>2, <2>1, RendezvousAssumption
    DEF OpenDir, TypeOK, Goto, Pcs, Claiming, Ended
  <2>3. PassLeft'
    BY <1>2, <2>1, RendezvousAssumption DEF OpenDir, TypeOK, PassLeft, Goto
  <2>4. GateNamesHolder' /\ RecordsAreWritten' /\ EvictedPastLink'
    BY <1>2, <2>1 DEF OpenDir, TypeOK, Goto, GateNamesHolder, RecordsAreWritten,
       EvictedPastLink, PastLink, Holds, Holding, Ended
  <2>5. FenceIsOneField' /\ StaleVerdictIsFinal'
    BY <1>2, <2>1 DEF OpenDir, TypeOK, Goto, FenceIsOneField, StaleVerdictIsFinal,
       TwoField, Alive, Ended
  <2> QED
    BY <1>2, <2>2, <2>3, <2>4, <2>5 DEF OpenDir, TypeOK
<1>3. ASSUME NEW p \in Proc, Link(p) PROVE IInv'
  <2>1. /\ pc' \in [Proc -> Pcs] /\ pc[p] = "link"
        /\ \/ gate = NoFile /\ gate' = p /\ pc'[p] = "connect"
           \/ gate' = gate /\ pc'[p] = "read"
        /\ \A q \in Proc \ {p} : pc'[q] = pc[q]
    BY <1>3 DEF Link, TypeOK, Goto, Pcs, Claiming, Holding
  <2>2. NoFile \notin Proc
    BY RendezvousAssumption
  <2>3. p \notin evicted
    BY <2>1 DEF EvictedPastLink, PastLink, Holding, Ended
  <2>4. PassLeft' /\ FenceIsOneField'
    BY <1>3, <2>1 DEF Link, PassLeft, FenceIsOneField, TwoField
  <2>5. GateNamesHolder' /\ RecordsAreWritten' /\ EvictedPastLink'
    BY <1>3, <2>1, <2>2, <2>3 DEF Link, TypeOK, GateNamesHolder, RecordsAreWritten,
       EvictedPastLink, PastLink, Holds, Holding, Ended
  <2>6. StaleVerdictIsFinal'
    BY <1>3, <2>1 DEF Link, TypeOK, StaleVerdictIsFinal, RecordsAreWritten,
       PastLink, TwoField, Alive, Holding, Ended
  <2> QED
    BY <1>3, <2>1, <2>4, <2>5, <2>6 DEF Link, TypeOK
<1>4. ASSUME NEW p \in Proc, ReadGate(p) \/ Reread(p) PROVE IInv'
  <2>1. /\ pc' \in [Proc -> Pcs] /\ pc[p] \in {"read", "reread"}
        /\ pc'[p] \in {"probe", "reprobe", "reap", "reclaim"}
        /\ pc[p] = "reread" => pc'[p] \in {"reprobe", "reclaim"}
        /\ pc'[p] \in {"reap", "reclaim"} => gate \notin Proc
        /\ \A q \in Proc \ {p} : pc'[q] = pc[q]
        /\ seen' = [seen EXCEPT ![p] = gate]
        /\ UNCHANGED <<gate, sock, attempt, confirmed, evicted, refused>>
    BY <1>4 DEF ReadGate, Reread, TypeOK, Goto, Pcs, Claiming
  <2>2. seen' \in [Proc -> Proc \cup {NoFile, Malformed}]
    BY <2>1 DEF TypeOK
  <2>3. PassLeft' /\ FenceIsOneField'
    BY <2>1 DEF TypeOK, PassLeft, FenceIsOneField, TwoField
  <2>4. GateNamesHolder' /\ RecordsAreWritten' /\ EvictedPastLink'
    BY <2>1 DEF TypeOK, GateNamesHolder, RecordsAreWritten, EvictedPastLink,
       PastLink, Holds, Holding, Ended
  <2>5. StaleVerdictIsFinal'
    BY <2>1 DEF TypeOK, StaleVerdictIsFinal, RecordsAreWritten, PastLink, TwoField,
       Alive, Holding, Ended
  <2> QED
    BY <2>1, <2>2, <2>3, <2>4, <2>5 DEF TypeOK
<1>5. ASSUME NEW p \in Proc, Reap(p) PROVE IInv'
  <2>1. PICK l \in {"link", "threw"} :
          Goto(p, l) /\ (l = "link" => attempt[p] + 1 < MaxAttempts)
    BY <1>5 DEF Reap, Goto
  <2>2. /\ attempt' \in [Proc -> 0 .. MaxAttempts]
        /\ PassLeft'
    BY <1>5, <2>1, RendezvousAssumption DEF Reap, TypeOK, PassLeft, Goto
  <2> QED
    BY <1>5, <2>1, <2>2, UnlinkStep DEF Reap, TypeOK
<1>6. ASSUME NEW p \in Proc, Reclaim(p) PROVE IInv'
  <2>1. PassLeft'
    BY <1>6 DEF Reclaim, TypeOK, PassLeft, Goto
  <2> QED
    BY <1>6, <2>1, UnlinkStep DEF Reclaim, TypeOK
<1>7. ASSUME NEW p \in Proc, UnlinkOwnGate(p) PROVE IInv'
  <2>1. PassLeft'
    BY <1>7 DEF UnlinkOwnGate, TypeOK, PassLeft, Goto
  <2> QED
    BY <1>7, <2>1, UnlinkStep DEF UnlinkOwnGate, TypeOK
<1>8. CASE UNCHANGED vars
  BY <1>8 DEF vars, TypeOK, PassLeft, GateNamesHolder, RecordsAreWritten, PastLink,
     EvictedPastLink, FenceIsOneField, StaleVerdictIsFinal, Holds, Alive
<1> QED
  BY <1>1, <1>2, <1>3, <1>4, <1>5, <1>6, <1>7, <1>8
  DEF Next, Claim, Serve, Teardown, Environment, Quiet

-----------------------------------------------------------------------------
\* The inductive invariant holds throughout.
THEOREM Invariant == Spec => []IInv
BY InitInv, StepInv, PTL DEF Spec

\* The state of the rendezvous is always one the code can be in: reads see
\* records that were written, and acquire never makes a pass beyond its bound.
THEOREM TypeCorrect == Spec => []TypeOK
BY Invariant, PTL DEF IInv

\* However many daemons race for one scope, two of them hold its gate together
\* only after one was evicted by a reap (pidGate.ts, acquirePidGate).
THEOREM Exclusion == Spec => []OneUnevictedHolder
<1>1. IInv => OneUnevictedHolder
  BY DEF IInv, GateNamesHolder, OneUnevictedHolder
<1> QED
  BY <1>1, Invariant, PTL

\* A two-field record judged stale names a process that is gone for good, as
\* long as clock steps stay within the tolerance (identitiesMatch).
THEOREM StaleVerdicts == Spec => []StaleVerdictIsFinal
BY Invariant, PTL DEF IInv

\* While daemons race and tear down, a serving daemon loses the inode at
\* socketPath only to an eviction: the listener is closed before the gate is
\* released (daemonMain.ts), so an unevicted predecessor is gone before a
\* successor binds.
THEOREM SocketKept == Spec => SocketLostOnlyToEvicted
<1>1. ASSUME IInv, Next,
             NEW q \in Proc, pc[q] = "serving", sock = q, pc'[q] = "serving", sock' # q
      PROVE  \E p \in Proc : pc[p] # pc'[p] /\ {p, q} \cap evicted # {}
  <2>1. PICK p \in Proc : ClearSocket(p) \/ Bind(p) \/ RemoveSocket(p)
    BY <1>1
    DEF Next, Claim, Serve, Teardown, Environment, OpenDir, Link, ReadGate,
        ProbeHolder, Reap, Reread, Reprobe, FenceStat, FenceDial, Reclaim, ConnectSocket,
        ClassifyInode, Listen, CheckOwnGate, UnlinkOwnGate, Launch, CloseServer, Die,
        ClaimThrows, ConnectFails, ReleaseThrows
  <2>2. sock # NoFile
    BY <1>1, RendezvousAssumption
  <2>3. pc[p] \in {"clear", "unsocket"} /\ pc'[p] # pc[p]
    BY <1>1, <2>1, <2>2
    DEF IInv, TypeOK, ClearSocket, Bind, RemoveSocket, Goto
  <2>4. p # q /\ Holds(p) /\ Holds(q)
    BY <1>1, <2>3 DEF Holds, Holding
  <2>5. {p, q} \cap evicted # {}
    BY <1>1, <2>4 DEF IInv, GateNamesHolder
  <2> QED
    BY <2>3, <2>5
<1>2. IInv /\ [Next]_vars =>
        [\A q \in Proc :
           pc[q] = "serving" /\ sock = q /\ pc'[q] = "serving" /\ sock' # q
             => \E p \in Proc : pc[p] # pc'[p] /\ {p, q} \cap evicted # {}]_vars
  BY <1>1
<1> QED
  BY <1>2, Invariant, PTL DEF Spec, SocketLostOnlyToEvicted

-----------------------------------------------------------------------------
(* The rendezvous implements the lock.                                      *)

\* The owner of the lock is the one holder that was not evicted.
LEMMA OwnerIsHolder ==
  ASSUME IInv, NEW p \in Proc, Holds(p)
  PROVE  IF p \in evicted THEN p \in Displaced /\ Owner # p
                          ELSE Owner = p /\ p \notin Displaced
BY RendezvousAssumption
DEF IInv, TypeOK, GateNamesHolder, EvictedPastLink, Owner, Displaced

LEMMA LockInit == Init => Lock!LInit
BY RendezvousAssumption, InitInv DEF IInv, TypeOK, Init, Lock!LInit, Owner, Displaced

\* A step that neither takes nor gives the gate leaves the lock as it is; one
\* that ends a holder is a Leave or a Depart.
LEMMA QuietLock ==
  ASSUME IInv, NEW p \in Proc, NEW l \in Pcs, Goto(p, l),
         UNCHANGED <<gate, evicted>>, l \in Holding => pc[p] \in Holding
  PROVE  [Lock!LNext]_(Lock!lvars)
<1>1. /\ pc'[p] = l
      /\ \A q \in Proc \ {p} : pc'[q] = pc[q]
  BY DEF IInv, TypeOK, Goto
<1>2. CASE Holds(p) <=> l \in Holding
  <2>1. \A q \in Proc : Holds(q)' <=> Holds(q)
    BY <1>1, <1>2 DEF Holds
  <2>2. Owner' = Owner
    BY <2>1 DEF Owner
  <2>3. Displaced' = Displaced
    BY <2>1 DEF Displaced, IInv, TypeOK
  <2> QED
    BY <2>2, <2>3 DEF Lock!lvars
<1>3. CASE Holds(p) /\ l \notin Holding
  <2>1. \A q \in Proc : Holds(q)' <=> Holds(q) /\ q # p
    BY <1>1, <1>3 DEF Holds
  <2>2. Displaced' = Displaced \ {p}
    BY <2>1 DEF Displaced, IInv, TypeOK
  <2>3. CASE p \in evicted
    <3>1. p \in Displaced /\ Owner' = Owner
      BY <2>1, <2>3, <1>3, OwnerIsHolder DEF Owner, IInv, EvictedPastLink
    <3> QED
      BY <2>2, <3>1 DEF Lock!LNext, Lock!Depart
  <2>4. CASE p \notin evicted
    <3>1. Owner = p /\ p \notin Displaced /\ Owner' = NoFile /\ p # NoFile
      BY <2>1, <2>4, <1>3, OwnerIsHolder, RendezvousAssumption DEF Owner
    <3> QED
      BY <2>2, <3>1 DEF Lock!LNext, Lock!Leave
  <2> QED
    BY <2>3, <2>4
<1> QED
  BY <1>2, <1>3 DEF Holds

\* Unlinking the gate is a Leave by its holder, a Displace by a claimant, or
\* the Depart of a displaced one that takes the present owner along.
LEMMA UnlinkLock ==
  ASSUME IInv, NEW p \in Proc, NEW l \in Pcs \ Holding, Goto(p, l), UnlinkGate(p),
         pc[p] \in {"reap", "reclaim", "unlinkOwn"}
  PROVE  [Lock!LNext]_(Lock!lvars)
<1>1. /\ \A q \in Proc : Holds(q)' <=> Holds(q) /\ q # p
      /\ Owner' = NoFile
      /\ NoFile \notin Proc
  BY RendezvousAssumption
  DEF IInv, TypeOK, Goto, Holds, Holding, UnlinkGate, Owner
<1>2. Displaced' = (Displaced \cup ({Owner} \ {NoFile})) \ {p}
  BY <1>1 DEF Displaced, Owner, UnlinkGate, IInv, TypeOK
<1>3. CASE Holds(p) /\ p \in evicted
  <2>1. p \in Displaced
    BY <1>3 DEF Displaced
  <2>2. CASE Owner = NoFile
    BY <1>1, <1>2, <2>1, <2>2 DEF Lock!LNext, Lock!Depart
  <2>3. CASE Owner # NoFile
    BY <1>1, <1>2, <2>1, <2>3 DEF Lock!LNext, Lock!Depart
  <2> QED
    BY <2>2, <2>3
<1>4. CASE Holds(p) /\ p \notin evicted
  <2>1. Owner = p /\ p \notin Displaced
    BY <1>4, OwnerIsHolder
  <2> QED
    BY <1>1, <1>2, <2>1 DEF Lock!LNext, Lock!Leave
<1>5. CASE ~Holds(p)
  <2>1. p \notin Displaced /\ Owner # p
    BY <1>1, <1>5 DEF Displaced, Owner
  <2>2. CASE Owner = NoFile
    BY <1>1, <1>2, <2>1, <2>2 DEF Lock!lvars
  <2>3. CASE Owner # NoFile
    BY <1>1, <1>2, <2>1, <2>3 DEF Lock!LNext, Lock!Displace
  <2> QED
    BY <2>2, <2>3
<1> QED
  BY <1>3, <1>4, <1>5

LEMMA LockStep == IInv /\ [Next]_vars => [Lock!LNext]_(Lock!lvars)
<1> SUFFICES ASSUME IInv, [Next]_vars PROVE [Lock!LNext]_(Lock!lvars)
  OBVIOUS
<1> USE DEF Pcs, Claiming, Ended, Holding
<1>1. ASSUME NEW p \in Proc, Link(p) PROVE [Lock!LNext]_(Lock!lvars)
  <2>1. CASE gate = NoFile
    <3>1. /\ \A q \in Proc : Holds(q)' <=> Holds(q) \/ q = p
          /\ gate' = p /\ evicted' = evicted /\ p \notin evicted
          /\ Owner = NoFile /\ Owner' = p
      BY <1>1, <2>1, RendezvousAssumption
      DEF IInv, TypeOK, Link, Goto, Holds, Owner, EvictedPastLink, PastLink
    <3>2. Displaced' = Displaced /\ p \notin Displaced
      BY <3>1 DEF Displaced, IInv, TypeOK
    <3> QED
      BY <3>1, <3>2 DEF Lock!LNext, Lock!Acquire
  <2>2. CASE gate # NoFile
    BY <1>1, <2>2, QuietLock DEF Link
  <2> QED
    BY <2>1, <2>2
<1>2. ASSUME NEW p \in Proc, Reap(p) \/ Reclaim(p) \/ UnlinkOwnGate(p)
      PROVE  [Lock!LNext]_(Lock!lvars)
  <2>1. PICK l \in {"link", "mkdir", "threw", "exited"} : Goto(p, l)
    BY <1>2 DEF Reap, Reclaim, UnlinkOwnGate, Goto
  <2> QED
    BY <1>2, <2>1, UnlinkLock DEF Reap, Reclaim, UnlinkOwnGate
<1>3. ASSUME NEW p \in Proc, Quiet(p) \/ OpenDir(p) \/ ReadGate(p) \/ Reread(p)
      PROVE  [Lock!LNext]_(Lock!lvars)
  <2>1. /\ UNCHANGED <<gate, evicted>>
        /\ \E l \in Pcs : Goto(p, l) /\ (l \in Holding => pc[p] \in Holding)
    BY <1>3
    DEF Quiet, OpenDir, ReadGate, Reread, Launch, ProbeHolder, Reprobe, FenceStat, FenceDial,
        ClaimThrows, ConnectSocket, ConnectFails, ClassifyInode, ClearSocket,
        Bind, Listen, CloseServer, RemoveSocket, CheckOwnGate, ReleaseThrows, Die, Goto
  <2> QED
    BY <2>1, QuietLock
<1>4. CASE UNCHANGED vars
  BY <1>4 DEF vars, Lock!lvars, Owner, Displaced, Holds
<1> QED
  BY <1>1, <1>2, <1>3, <1>4 DEF Next, Claim, Serve, Teardown, Environment, Quiet

\* Links, reads, reaps, crashes and late releases, in any order, behave as the
\* evictable lock: nobody becomes owner over an owner.
THEOREM LockRefinement == Spec => ImplementsLock
BY LockInit, LockStep, Invariant, PTL DEF Spec, ImplementsLock, Lock!LSpec

-----------------------------------------------------------------------------
(* Yesterday's daemon.                                                     *)

\* A daemon without a start time in its record is one that was there before the
\* first launch, and found nothing at its socket path.
LegacyIsOld == \A st \in Starts : \A p \in Legacy : st.pc[p] # "off"
PathIsFree == \A st \in Starts : st.gate \in Legacy => st.sock = NoFile

\* What a process may be doing while yesterday's daemon is up and no fence has
\* met a refusal.
Waiting == {"off", "bystander", "mkdir", "link", "read", "probe", "reread", "reprobe", "fence", "dial"}
             \cup Ended

\* While yesterday's daemon is up and was refused by no connect, the gate names
\* it, its socket path holds its own inode or nothing, and every claimant has
\* read its record and nothing else.
Undisturbed(l) ==
  /\ gate = l
  /\ sock = IF pc[l] \in {"listen", "serving"} THEN l ELSE NoFile
  /\ \A q \in Proc \ {l} : pc[q] \in Waiting
  /\ \A q \in Proc \ {l} : pc[q] \in {"probe", "reprobe", "fence", "dial"} => seen[q] = l
  /\ \A q \in Proc \ {l} : pc[q] = "dial" => sock = l

OldPcs == {"bystander", "clear", "bind", "listen", "serving"} \cup Ended

BootInv ==
  /\ Legacy \cap evicted \subseteq refused
  /\ \A l \in Legacy : pc[l] \in OldPcs
  /\ \A l \in Legacy : pc[l] \in {"clear", "bind"} => l \notin refused /\ sock # l
  /\ \A l \in Legacy \ refused : Holds(l) => Undisturbed(l)

LEMMA BootInit ==
  ASSUME LegacyIsOld, PathIsFree, Init
  PROVE  BootInv
<1>1. PICK st \in Starts : pc = st.pc /\ gate = st.gate /\ sock = st.sock
  BY DEF Init
<1>2. /\ pc \in [Proc -> {"off", "bystander", "dead", "clear", "serving"}]
      /\ \A p \in Proc : pc[p] \in {"clear", "serving"} => p \in Legacy /\ gate = p
      /\ \A p \in Proc : pc[p] = "serving" => sock = p
      /\ \A p \in Legacy : pc[p] # "off"
      /\ gate \in Legacy => sock = NoFile
      /\ Legacy \subseteq Proc /\ NoFile \notin Proc
  BY <1>1, StartsAssumption, RendezvousAssumption DEF LegacyIsOld, PathIsFree
<1>3. ASSUME NEW l \in Legacy, Holds(l) PROVE Undisturbed(l)
  <2>1. pc[l] = "clear" /\ gate = l /\ sock = NoFile
    BY <1>2, <1>3 DEF Holds, Holding
  <2>2. \A q \in Proc \ {l} : pc[q] \in {"off", "bystander", "dead"}
    BY <1>2, <2>1
  <2> QED
    BY <2>1, <2>2 DEF Undisturbed, Waiting, Ended
<1>4. \A l \in Legacy : pc[l] \in OldPcs
  BY <1>2 DEF OldPcs, Ended
<1>5. \A l \in Legacy : pc[l] \in {"clear", "bind"} => sock # l
  BY <1>2
<1> QED
  BY <1>3, <1>4, <1>5 DEF Init, BootInv

\* A step of another process leaves a daemon that is up alone, or is a fence's
\* connect that fails on its inode.
LEMMA OthersWait ==
  ASSUME TypeOK, NEW l \in Legacy, Holds(l), Undisturbed(l), NEW p \in Proc \ {l},
         Claim(p) \/ Serve(p) \/ Teardown(p) \/ Environment(p), l \notin refused'
  PROVE  Undisturbed(l)' /\ evicted' = evicted
<1>0. /\ l \in Proc /\ gate = l /\ NoFile \notin Proc /\ Foreign \notin Proc /\ ~TwoField(l)
      /\ pc[p] \in Waiting
      /\ pc[p] \in {"probe", "reprobe", "fence", "dial"} => seen[p] = l
      /\ seen \in [Proc -> Proc \cup {NoFile, Malformed}]
      /\ sock \in {NoFile, l} /\ (pc[p] = "dial" => sock = l)
  BY RendezvousAssumption DEF Undisturbed, TwoField, TypeOK
<1>1. \A d : LiveHolder(l, d)
  <2>1. Alive(l)
    BY DEF Holds, Alive, Holding, Ended
  <2>2. ASSUME NEW d PROVE LiveHolder(l, d)
    <3>1. Alive(l) /\ (IF TwoField(l) THEN Matches(l, l, d) ELSE PidOf[l] = PidOf[l])
      BY <1>0, <2>1
    <3> QED
      BY <1>0, <3>1 DEF LiveHolder
  <2> QED
    BY <2>2
<1>3. ASSUME NEW k \in Waiting, Goto(p, k), UNCHANGED <<gate, sock, evicted>>,
             k \in {"probe", "reprobe", "fence", "dial"} => seen'[p] = l,
             k = "dial" => sock = l,
             \A q \in Proc \ {p} : seen'[q] = seen[q]
      PROVE  Undisturbed(l)' /\ evicted' = evicted
  <2>1. pc'[p] = k /\ \A q \in Proc \ {p} : pc'[q] = pc[q]
    BY <1>3 DEF TypeOK, Goto
  <2> QED
    BY <1>0, <1>3, <2>1 DEF Undisturbed
<1>4. CASE OpenDir(p)
  BY <1>0, <1>3, <1>4 DEF OpenDir, Waiting, Ended
<1>5. CASE Link(p)
  BY <1>0, <1>3, <1>5 DEF Link, Waiting
<1>6. CASE ReadGate(p)
  BY <1>0, <1>3, <1>6 DEF ReadGate, Waiting
<1>7. CASE ProbeHolder(p)
  BY <1>0, <1>1, <1>3, <1>7 DEF ProbeHolder, Waiting, Ended
<1>8. CASE Reread(p)
  BY <1>0, <1>3, <1>8 DEF Reread, Waiting
<1>9. CASE Reprobe(p)
  BY <1>0, <1>1, <1>3, <1>9 DEF Reprobe, Waiting
<1>10. CASE FenceStat(p)
  <2>1. PICK k \in {"yielded", "dial"} : Goto(p, k) /\ (k = "dial" => sock = l)
    BY <1>0, <1>10 DEF FenceStat, NoFile, Foreign
  <2> QED
    BY <1>0, <1>3, <1>10, <2>1 DEF FenceStat, Waiting, Ended
<1>11. CASE FenceDial(p)
  <2>1. sock = l
    BY <1>0, <1>11 DEF FenceDial
  <2>2. Goto(p, "yielded")
    BY <1>11, <2>1 DEF FenceDial
  <2> QED
    BY <1>0, <1>3, <1>11, <2>2 DEF FenceDial, Waiting, Ended
<1>12. CASE Launch(p) \/ Die(p) \/ ClaimThrows(p)
  BY <1>0, <1>3, <1>12 DEF Launch, Die, ClaimThrows, Waiting, Ended
<1>13. ~(Reap(p) \/ Reclaim(p) \/ Serve(p) \/ Teardown(p) \/ CloseServer(p) \/ ConnectFails(p)
           \/ ReleaseThrows(p))
  BY <1>0 DEF Waiting, Ended, Reap, Reclaim, Serve, ConnectSocket, ClassifyInode, ClearSocket, Bind, Listen,
              Teardown, RemoveSocket, CheckOwnGate, UnlinkOwnGate, CloseServer, ConnectFails, ReleaseThrows
<1> QED
  BY <1>4, <1>5, <1>6, <1>7, <1>8, <1>9, <1>10, <1>11, <1>12, <1>13 DEF Claim, Environment

\* Its own steps serve where the path was free, or end it.
LEMMA BootsOn ==
  ASSUME TypeOK, BootInv, NEW l \in Legacy,
         Claim(l) \/ Serve(l) \/ Teardown(l) \/ Environment(l)
  PROVE  /\ evicted' = evicted /\ refused' = refused
         /\ \A q \in Proc \ {l} : pc'[q] = pc[q]
         /\ pc'[l] \in {"bind", "listen", "serving", "dead"}
         /\ pc'[l] = "bind" => l \notin refused /\ sock' # l
         /\ sock' = sock \/ sock' = NoFile \/ sock' = l
         /\ l \notin refused /\ Holds(l)' => Undisturbed(l)'
<1>0. /\ l \in Proc /\ l \notin Stoppable /\ l # NoFile /\ pc \in [Proc -> Pcs]
      /\ pc[l] \in OldPcs
  BY RendezvousAssumption DEF BootInv, TypeOK
<1>1. ClearSocket(l) \/ Bind(l) \/ Listen(l) \/ Die(l)
  BY <1>0 DEF OldPcs, Ended, Claim, OpenDir, Link, ReadGate, ProbeHolder, Reap, Reread, Reprobe,
              FenceStat, FenceDial, Reclaim, Serve, ConnectSocket, ClassifyInode, Teardown, RemoveSocket,
              CheckOwnGate, UnlinkOwnGate, Environment, Launch, CloseServer, ClaimThrows, ConnectFails,
              ReleaseThrows
<1>2. CASE Die(l)
  <2>1. pc'[l] = "dead"
    BY <1>0, <1>2 DEF Die, Goto
  <2> QED
    BY <1>0, <1>2, <2>1 DEF Die, Goto, Holds, Holding
<1>3. CASE ClearSocket(l)
  <2>1. Undisturbed(l) /\ l \notin refused
    BY <1>3 DEF ClearSocket, Holds, Holding, BootInv
  <2>2. pc'[l] = "bind" /\ \A q \in Proc \ {l} : pc'[q] = pc[q]
    BY <1>0, <1>3 DEF ClearSocket, Goto
  <2>3. sock = NoFile
    BY <1>3, <2>1 DEF ClearSocket, Undisturbed
  <2> QED
    BY <1>0, <1>3, <2>1, <2>2, <2>3 DEF ClearSocket, Undisturbed
<1>4. CASE Bind(l)
  <2>1. Undisturbed(l) /\ l \notin refused
    BY <1>4 DEF Bind, Holds, Holding, BootInv
  <2>2. sock = NoFile
    BY <1>4, <2>1 DEF Bind, Undisturbed
  <2>3. pc'[l] = "listen" /\ sock' = l /\ \A q \in Proc \ {l} : pc'[q] = pc[q]
    BY <1>0, <1>4, <2>2 DEF Bind, Goto
  <2> QED
    BY <1>4, <2>1, <2>3 DEF Bind, Undisturbed
<1>5. CASE Listen(l)
  <2>1. pc'[l] = "serving" /\ \A q \in Proc \ {l} : pc'[q] = pc[q]
    BY <1>0, <1>5 DEF Listen, Goto
  <2>2. ASSUME l \notin refused PROVE Undisturbed(l)'
    <3>1. Undisturbed(l)
      BY <1>5, <2>2 DEF Listen, Holds, Holding, BootInv
    <3> QED
      BY <1>5, <2>1, <3>1 DEF Listen, Undisturbed
  <2> QED
    BY <1>5, <2>1, <2>2 DEF Listen
<1> QED
  BY <1>1, <1>2, <1>3, <1>4, <1>5

\* What any step does to the histories.
LEMMA HistoriesGrow ==
  ASSUME NEW p \in Proc, Claim(p) \/ Serve(p) \/ Teardown(p) \/ Environment(p)
  PROVE  /\ refused \subseteq refused' /\ refused' \subseteq refused \cup {sock}
         /\ sock' \in {sock, NoFile, p}
         /\ evicted' = evicted \/ UnlinkGate(p)
         /\ TypeOK => \A q \in Proc \ {p} : pc'[q] = pc[q]
BY DEF TypeOK, Goto, Claim, Serve, Teardown, Environment, OpenDir, Link, ReadGate, ProbeHolder,
       Reap, Reread, Reprobe, FenceStat, FenceDial, Reclaim, ConnectSocket, ClassifyInode,
       ClearSocket, Bind, Listen, RemoveSocket, CheckOwnGate, UnlinkOwnGate, Launch,
       CloseServer, Die, ClaimThrows, ConnectFails, ReleaseThrows

LEMMA BootStep ==
  ASSUME TypeOK, BootInv, NEW p \in Proc,
         Claim(p) \/ Serve(p) \/ Teardown(p) \/ Environment(p)
  PROVE  BootInv'
<1>0. /\ Legacy \subseteq Proc /\ NoFile \notin Proc
      /\ refused \subseteq refused' /\ refused' \subseteq refused \cup {sock}
      /\ sock' \in {sock, NoFile, p}
      /\ evicted' = evicted \/ UnlinkGate(p)
      /\ \A q \in Proc \ {p} : pc'[q] = pc[q]
  BY HistoriesGrow, RendezvousAssumption
<1>1. p \in Legacy =>
        /\ evicted' = evicted /\ refused' = refused
        /\ pc'[p] \in {"bind", "listen", "serving", "dead"}
        /\ pc'[p] = "bind" => p \notin refused /\ sock' # p
        /\ p \notin refused /\ Holds(p)' => Undisturbed(p)'
  BY BootsOn
<1>2. ASSUME NEW l \in Legacy \ {p}, l \notin refused', Holds(l)
      PROVE  Undisturbed(l)' /\ evicted' = evicted
  <2>1. Undisturbed(l)
    BY <1>0, <1>2 DEF BootInv
  <2> QED
    BY <1>0, <1>2, <2>1, OthersWait
<1>3. \A l \in Legacy \ refused' : Holds(l)' => Undisturbed(l)'
  <2> SUFFICES ASSUME NEW l \in Legacy \ refused', Holds(l)' PROVE Undisturbed(l)'
    OBVIOUS
  <2>1. CASE l = p
    BY <1>0, <1>1, <2>1
  <2>2. CASE l # p
    <3>1. Holds(l)
      BY <1>0, <2>2 DEF Holds
    <3> QED
      BY <1>2, <2>2, <3>1
  <2> QED
    BY <2>1, <2>2
<1>4. Legacy \cap evicted' \subseteq refused'
  <2> SUFFICES ASSUME NEW l \in Legacy, l \in evicted', l \notin refused' PROVE FALSE
    OBVIOUS
  <2>1. l \notin evicted
    BY <1>0 DEF BootInv
  <2>2. UnlinkGate(p) /\ l # p /\ Holds(l)
    BY <1>0, <2>1 DEF UnlinkGate
  <2> QED
    BY <1>2, <2>1, <2>2
<1>5. \A l \in Legacy : pc'[l] \in OldPcs
  BY <1>0, <1>1 DEF BootInv, OldPcs, Ended
<1>6. \A l \in Legacy : pc'[l] \in {"clear", "bind"} => l \notin refused' /\ sock' # l
  <2> SUFFICES ASSUME NEW l \in Legacy, pc'[l] \in {"clear", "bind"}
               PROVE  l \notin refused' /\ sock' # l
    OBVIOUS
  <2>1. CASE l = p
    BY <1>0, <1>1, <2>1
  <2>2. CASE l # p
    <3>1. pc[l] \in {"clear", "bind"}
      BY <1>0, <2>2
    <3>2. l \notin refused /\ sock # l
      BY <3>1 DEF BootInv
    <3> QED
      BY <1>0, <2>2, <3>2
  <2> QED
    BY <2>1, <2>2
<1> QED
  BY <1>3, <1>4, <1>5, <1>6 DEF BootInv

\* A daemon of yesterday that boots where no older inode lies loses its gate to a
\* claimant only if a fence's connect failed on the inode it had bound: however
\* many race for it and whenever they read, absent is not dead, and serving is not.
THEOREM LegacyBoots == ASSUME LegacyIsOld PROVE Spec => []LegacyBootKept
<1>1. CASE PathIsFree
  <2>1. Init => BootInv
    BY <1>1, BootInit
  <2>2. TypeOK /\ BootInv /\ [Next]_vars => BootInv'
    <3> SUFFICES ASSUME TypeOK, BootInv, [Next]_vars PROVE BootInv'
      OBVIOUS
    <3>1. CASE Next
      BY <3>1, BootStep DEF Next
    <3>2. CASE UNCHANGED vars
      BY <3>2 DEF vars, BootInv, Undisturbed, Holds
    <3> QED
      BY <3>1, <3>2
  <2>3. BootInv => LegacyBootKept
    BY DEF BootInv, LegacyBootKept
  <2> QED
    BY <2>1, <2>2, <2>3, TypeCorrect, PTL DEF Spec
<1>2. CASE ~PathIsFree
  <2>1. LegacyBootKept
    BY <1>2 DEF LegacyBootKept, PathIsFree
  <2> QED
    BY <2>1, PTL
<1> QED
  BY <1>1, <1>2
=============================================================================
