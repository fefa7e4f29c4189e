-------------------------- MODULE ThreadPoolProofs --------------------------
(* Theorems about ThreadPool, for any callers, threads, items and jobs. *)
EXTENDS ThreadPool, FiniteSetTheorems, TLAPS

USE ConstantsAssumption DEF ConstantsAssumption, Threads, Workers

-----------------------------------------------------------------------------
(* The arithmetic of the splitting. *)

\* A call uses at least one thread.
LEMMA UsableType == ASSUME NEW n \in Nat, NEW m \in Nat \ {0}, nThreads \in Nat \ {0}
                    PROVE  Usable(n, m) \in Nat \ {0}
  <1>1. n \div m \in Nat
    OBVIOUS
  <1>2. QED
    BY <1>1 DEF Usable, AtLeast, AtMost

\* A chunk is never empty by configuration.
LEMMA MinChunkType == ASSUME NEW n \in Nat, NEW us \in Nat \ {0}
                      PROVE  MinChunk(n, us) \in Nat \ {0}
  <1>1. us * MinChunksPerThread \in Nat \ {0}
    OBVIOUS
  <1>2. n \div (us * MinChunksPerThread) \in Nat
    BY <1>1
  <1>3. QED
    BY <1>2 DEF MinChunk, AtLeast

\* A claimed chunk is not empty and ends within the job.
LEMMA ChunkEndBounds ==
    ASSUME NEW l, l.end \in Nat, l.chunk \in Nat \ {0}, l.nActive \in Nat \ {0},
           NEW pos \in Nat, pos < l.end
    PROVE  /\ ChunkEnd(l, pos) \in Nat
           /\ pos < ChunkEnd(l, pos)
           /\ ChunkEnd(l, pos) <= l.end
  <1> DEFINE share == (l.end - pos) \div (GuidedDivisor * l.nActive)
  <1>1. GuidedDivisor * l.nActive \in Nat \ {0}
    OBVIOUS
  <1>2. share \in Int
    BY <1>1
  <1> HIDE DEF share
  <1>3. AtLeast(share, l.chunk) \in Nat \ {0}
    BY <1>2 DEF AtLeast
  <1>4. QED
    BY <1>3 DEF ChunkEnd, AtMost, share

-----------------------------------------------------------------------------
(* Type correctness. *)

LEMMA InitTypeOK == Init => TypeOK
  <1> SUFFICES ASSUME Init PROVE TypeOK
    OBVIOUS
  <1>1. pc \in [Threads -> Labels]
    BY DEF Init, Labels
  <1>2. /\ ep \in [Threads -> Nat]
        /\ args \in [Callers -> [n : Nat, usable : Nat \ {0}]]
        /\ ran \in [Callers -> SUBSET Nat]
    BY DEF Init, NoArgs
  <1>3. /\ loc \in [Threads -> [ctx : Callers \cup {None}, end : Nat, chunk : Nat \ {0},
                               nActive : Nat \ {0}]]
        /\ snap \in [Threads -> [pos : Nat, next : Nat]]
    BY DEF Init, NoLoc, NoSnap
  <1>4. cursor \in [ep : Nat, pos : Nat]
    BY DEF Init
  <1>5. started \in 1 .. NThreads /\ nThreads \in 1 .. NThreads
    BY DEF Init
  <1>6. QED
    <2>1. life \in {"creating", "failing", "unwinding", "live", "closing", "joining", "freed",
                 "undefined"}
      BY DEF Init
    <2>2. /\ epoch \in Nat /\ parked \in Int /\ pubGate \in Nat /\ active \in Int
          /\ jobEnd \in Nat /\ chunkSize \in Nat \ {0} /\ jobCtx \in Callers \cup {None}
          /\ executed \in Int /\ nWorkers \in Nat /\ jobEpoch \in Nat
      BY DEF Init
    <2>0. shutdown \in BOOLEAN /\ inJob \in BOOLEAN /\ doneWaiting \in BOOLEAN
      BY Zenon DEF Init
    <2>3. /\ pubMtx \in Callers \cup {None}
          /\ wakeMtx \in Workers \cup {None}
          /\ doneMtx \in Callers \cup {None}
          /\ wakeWait \subseteq Workers /\ doneWait \subseteq Callers
      BY DEF Init
    <2>4. QED
      BY <1>1, <1>2, <1>3, <1>4, <1>5, <2>0, <2>1, <2>2, <2>3, Zenon DEF TypeOK

LEMMA OwnerTypeOK ==
    ASSUME TypeOK, Owner
    PROVE  TypeOK'
  <1> USE DEF ownerVars, syncVars, jobVars, lockVars, TypeOK, Goto, Labels
  <1>1. CASE Spawn
    BY <1>1 DEF Spawn
  <1>2. CASE SpawnFails
    BY <1>2 DEF SpawnFails
  <1>3. CASE Created
    BY <1>3 DEF Created
  <1>4. CASE Destroy
    BY <1>4 DEF Destroy
  <1>5. CASE ShutdownBroadcast
    BY <1>5 DEF ShutdownBroadcast
  <1>6. CASE Unwound
    BY <1>6 DEF Unwound
  <1>7. CASE Freed
    BY <1>7 DEF Freed
  <1>8. CASE JoinsAgain
    BY <1>8 DEF JoinsAgain
  <1> QED
    BY <1>1, <1>2, <1>3, <1>4, <1>5, <1>6, <1>7, <1>8 DEF Owner

LEMMA CallerTypeOK ==
    ASSUME TypeOK, NEW c \in Callers, Call(c) \/ Publish(c) \/ Await(c)
    PROVE  TypeOK'
  <1> USE DEF ownerVars, syncVars, jobVars, lockVars, TypeOK, Goto, Labels
  <1>1. CASE Call(c)
    BY SMTT(30), <1>1, UsableType DEF Call
  <1>2. CASE CallInline(c)
    BY <1>2 DEF CallInline
  <1>3. CASE InlineDone(c)
    <2>1. 0 .. args[c].n - 1 \in SUBSET Nat
      OBVIOUS
    <2>2. ran' \in [Callers -> SUBSET Nat]
      BY <1>3, <2>1 DEF InlineDone
    <2>3. pc' \in [Threads -> Labels]
      BY <1>3 DEF InlineDone
    <2>4. UNCHANGED <<ownerVars, syncVars, jobVars, lockVars, ep, args, loc, snap>>
      BY <1>3 DEF InlineDone
    <2>5. QED
      BY <2>2, <2>3, <2>4
  <1>4. CASE CallPool(c)
    BY <1>4 DEF CallPool
  <1>5. CASE PubLock(c)
    BY <1>5 DEF PubLock
  <1>6. CASE PubGate(c)
    BY <1>6 DEF PubGate
  <1>7. CASE PubRetired(c)
    BY <1>7 DEF PubRetired
  <1>8. CASE PubRetiredEarly(c)
    BY <1>8 DEF PubRetiredEarly
  <1>9. CASE PubFields(c)
    <2>1. args[c].n \in Nat /\ args[c].usable \in Nat \ {0}
      OBVIOUS
    <2>2. MinChunk(args[c].n, args[c].usable) \in Nat \ {0}
      BY <2>1, MinChunkType
    <2>3. QED
      <3>1. /\ jobEnd' \in Nat /\ chunkSize' \in Nat \ {0} /\ executed' \in Int
            /\ jobCtx' \in Callers \cup {None}
        BY <1>9, <2>1, <2>2 DEF PubFields
      <3>2. pc' \in [Threads -> Labels]
        BY <1>9 DEF PubFields
      <3>3. QED
        BY <1>9, <3>1, <3>2 DEF PubFields
  <1>10. CASE PubCursor(c)
    BY <1>10 DEF PubCursor
  <1>11. CASE PubStamp(c)
    BY <1>11 DEF PubStamp
  <1>12. CASE PubWake(c)
    BY ZenonT(60), <1>12 DEF PubWake
  <1>13. CASE WaitSpins(c)
    BY <1>13 DEF WaitSpins
  <1>14. CASE WaitParks(c)
    BY <1>14 DEF WaitParks
  <1>15. CASE WaitLocks(c)
    BY <1>15 DEF WaitLocks
  <1>16. CASE WaitOver(c)
    BY ZenonT(60), <1>16 DEF WaitOver
  <1>17. CASE WaitShort(c)
    BY <1>17 DEF WaitShort
  <1>18. CASE WaitSleeps(c)
    BY <1>18 DEF WaitSleeps
  <1>19. CASE PubClose(c)
    BY ZenonT(60), <1>19 DEF PubClose
  <1>20. CASE Return(c)
    BY <1>20 DEF Return, NoArgs
  <1> QED
    BY <1>1, <1>2, <1>3, <1>4, <1>5, <1>6, <1>7, <1>8, <1>9, <1>10, <1>11, <1>12, <1>13, <1>14, <1>15, <1>16, <1>17, <1>18, <1>19, <1>20 DEF Publish, Await

LEMMA DrainTypeOK ==
    ASSUME TypeOK, NEW t \in Threads, Drain(t)
    PROVE  TypeOK'
  <1> USE DEF ownerVars, syncVars, jobVars, lockVars, TypeOK, Goto, Labels
  <1>1. CASE DrainEnter(t)
    <2>1. CASE Mine(t)
      BY <1>1, <2>1 DEF DrainEnter
    <2>2. CASE ~Mine(t)
      BY <1>1, <2>2 DEF DrainEnter, AfterDrain
    <2> QED
      BY <2>1, <2>2
  <1>3. CASE DrainLoad(t)
    BY SMTT(30), <1>3, ChunkEndBounds DEF DrainLoad, Exhausted
  <1>4. CASE DrainLeave(t)
    BY <1>4 DEF DrainLeave, NoLoc, AfterDrain
  <1>5. CASE CasClaims(t)
    BY <1>5 DEF CasClaims
  <1>6. CASE CasFails(t)
    BY <1>6 DEF CasFails, NoSnap
  <1>7. CASE ChunkDone(t)
    <2> DEFINE done == executed + (snap[t].next - snap[t].pos)
    <2>1. done \in Int
      OBVIOUS
    <2>2. Chunk(t) \in SUBSET Nat
      BY DEF Chunk
    <2>3. pc' \in [Threads -> Labels]
      BY <1>7 DEF ChunkDone
    <2>4. ran' \in [Callers -> SUBSET Nat]
      BY <1>7, <2>2 DEF ChunkDone
    <2>5. snap' \in [Threads -> [pos : Nat, next : Nat]]
      BY <1>7 DEF ChunkDone, NoSnap
    <2>6. executed' \in Int
      BY <1>7, <2>1 DEF ChunkDone
    <2>7. QED
      BY <1>7, <2>3, <2>4, <2>5, <2>6 DEF ChunkDone
  <1>8. CASE Signal(t)
    BY <1>8 DEF Signal
  <1>9. CASE DoneBroadcast(t)
    BY <1>9 DEF DoneBroadcast
  <1> QED
    BY <1>1, <1>3, <1>4, <1>5, <1>6, <1>7, <1>8, <1>9 DEF Drain

LEMMA WorkerTypeOK ==
    ASSUME TypeOK, NEW w \in Workers, Work(w)
    PROVE  TypeOK'
  <1> USE DEF ownerVars, syncVars, jobVars, lockVars, TypeOK, Goto, Labels
  <1>1. CASE SpinSees(w)
    BY <1>1 DEF SpinSees
  <1>2. CASE SpinQuits(w)
    BY <1>2 DEF SpinQuits
  <1>3. CASE SpinGivesUp(w)
    BY <1>3 DEF SpinGivesUp
  <1>4. CASE Park(w)
    BY <1>4 DEF Park
  <1>5. CASE Unpark(w)
    BY <1>5 DEF Unpark
  <1>6. CASE ParkShort(w)
    BY <1>6 DEF ParkShort
  <1>7. CASE ParkSleeps(w)
    BY <1>7 DEF ParkSleeps
  <1>8. CASE ParkWakes(w)
    BY <1>8 DEF ParkWakes
  <1>9. CASE Activate(w)
    BY <1>9 DEF Activate
  <1>10. CASE GateCheck(w)
    BY <1>10 DEF GateCheck
  <1>11. CASE JobCheck(w)
    BY <1>11 DEF JobCheck
  <1>12. CASE Retire(w)
    BY <1>12 DEF Retire
  <1> QED
    BY <1>1, <1>2, <1>3, <1>4, <1>5, <1>6, <1>7, <1>8, <1>9, <1>10, <1>11, <1>12 DEF Work

\* Every variable keeps its type (threadpool.c:46-86).
THEOREM TypeCorrect == Spec => []TypeOK
  <1>1. Init => TypeOK
    BY InitTypeOK
  <1>2. TypeOK /\ [Next]_vars => TypeOK'
    <2> SUFFICES ASSUME TypeOK, [Next]_vars PROVE TypeOK'
      OBVIOUS
    <2>1. CASE Owner
      BY <2>1, OwnerTypeOK
    <2>2. ASSUME NEW c \in Callers, Call(c) \/ Publish(c) \/ Await(c) PROVE TypeOK'
      BY <2>2, CallerTypeOK
    <2>3. ASSUME NEW t \in Threads, Drain(t) PROVE TypeOK'
      BY <2>3, DrainTypeOK
    <2>4. ASSUME NEW w \in Workers, Work(w) PROVE TypeOK'
      BY <2>4, WorkerTypeOK
    <2>5. CASE SpuriousWakeup
      BY <2>5 DEF SpuriousWakeup, TypeOK, ownerVars, syncVars, jobVars
    <2>6. CASE UNCHANGED vars
      BY <2>6 DEF vars, ownerVars, syncVars, jobVars, lockVars, TypeOK
    <2>7. QED
      BY <2>1, <2>2, <2>3, <2>4, <2>5, <2>6 DEF Next, Terminated
  <1>3. QED
    BY <1>1, <1>2, PTL DEF Spec

-----------------------------------------------------------------------------
(* The gate: no worker is in the job block while it is rewritten.          *)

GateRest == LabelsSplit /\ Spawned /\ OnePublisher /\ GateValue /\ EpochOrder /\ NoTornJob

LEMMA WorkersFinite == IsFiniteSet(Workers)
  BY FS_Interval

LEMMA ActiveSetFinite == IsFiniteSet(ActiveSet) /\ IsFiniteSet(ActiveSet')
  BY WorkersFinite, FS_Subset DEF ActiveSet

\* When the publisher reads active_workers = 0, no worker is in the job block.
LEMMA RetiredMeansEmpty ==
    ASSUME ActiveCounts, active = 0
    PROVE  \A w \in Workers : pc[w] \notin Counted
  <1>1. ActiveSet = {}
    BY ActiveSetFinite, FS_EmptySet DEF ActiveCounts
  <1>2. QED
    BY <1>1 DEF ActiveSet

LEMMA OwnerGate ==
    ASSUME TypeOK, GateInv, Owner
    PROVE  GateRest'
  <1>0. GateRest
    BY DEF GateInv, GateRest
  <1> USE DEF TypeOK, ownerVars, syncVars, jobVars, lockVars, Goto, GateRest, LabelsSplit, Spawned,
          OnePublisher, GateValue, EpochOrder, NoTornJob, CallerLabels, WorkerLabels,
          Unstamped, InPool, Rewriting, Admitted, Counted, Draining
  <1>1. CASE Spawn
    BY <1>0, <1>1 DEF Spawn
  <1>2. CASE SpawnFails
    BY <1>0, <1>2 DEF SpawnFails
  <1>3. CASE Created
    BY <1>0, <1>3 DEF Created
  <1>4. CASE Destroy
    BY <1>0, <1>4 DEF Destroy
  <1>5. CASE ShutdownBroadcast
    BY <1>0, <1>5 DEF ShutdownBroadcast
  <1>6. CASE Unwound
    BY <1>0, <1>6 DEF Unwound
  <1>7. CASE Freed
    BY <1>0, <1>7 DEF Freed
  <1>8. CASE JoinsAgain
    BY <1>0, <1>8 DEF JoinsAgain
  <1> QED
    BY <1>1, <1>2, <1>3, <1>4, <1>5, <1>6, <1>7, <1>8 DEF Owner

\* Publishing the epoch leaves the gate as it is.
LEMMA PubWakeGate ==
    ASSUME TypeOK, GateInv, NEW c \in Callers, PubWake(c)
    PROVE  GateRest'
  <1>0. GateRest
    BY DEF GateInv, GateRest
  <1>1. ep[c] = epoch + 1 /\ pubMtx = c
    BY <1>0 DEF PubWake, GateRest, GateValue, OnePublisher, Unstamped, InPool
  <1>2. epoch' = epoch + 1 /\ UNCHANGED <<ep, pubGate, pubMtx>>
    BY <1>1 DEF PubWake, lockVars
  <1>3. pc' = [pc EXCEPT ![c] = "drain"] /\ pc[c] = "wake"
    BY DEF PubWake, Goto
  <1>4. LabelsSplit' /\ OnePublisher' /\ NoTornJob'
    <2>1. LabelsSplit'
      BY <1>0, <1>3 DEF TypeOK, GateRest, LabelsSplit, CallerLabels, WorkerLabels, InPool, Draining
    <2>2. OnePublisher'
      BY <1>0, <1>2, <1>3 DEF TypeOK, GateRest, OnePublisher, InPool, Draining
    <2>3. NoTornJob'
      BY <1>0, <1>3 DEF TypeOK, GateRest, NoTornJob, Rewriting, LabelsSplit, WorkerLabels
    <2>4. QED
      BY <2>1, <2>2, <2>3
  <1>5. EpochOrder'
    <2> SUFFICES ASSUME NEW w \in Workers
                 PROVE  /\ ep'[w] <= epoch'
                        /\ pc'[w] \in Counted \cup {"activate"} => ep'[w] # 0
      BY DEF EpochOrder
    <2>1. pc'[w] = pc[w] /\ ep'[w] = ep[w] /\ ep[w] \in Nat
      BY <1>2, <1>3 DEF TypeOK
    <2>2. QED
      BY <1>0, <1>2, <2>1 DEF TypeOK, GateRest, EpochOrder
  <1>6. \A d \in Callers : pc'[d] \notin Unstamped
    <2>1. ASSUME NEW d \in Callers, d # c PROVE pc'[d] \notin Unstamped
      BY <1>0, <1>1, <1>3, <2>1 DEF TypeOK, GateRest, OnePublisher, InPool, Rewriting, Unstamped
    <2>2. pc'[c] \notin Unstamped
      BY <1>3 DEF TypeOK, Unstamped
    <2>3. QED
      BY <2>1, <2>2
  <1>7. GateValue'
    BY <1>1, <1>2, <1>6 DEF GateValue, Unstamped
  <1>9. Spawned'
    <2>1. UNCHANGED started
      BY DEF PubWake, ownerVars
    <2>2. \A w \in Workers : pc'[w] = pc[w]
      BY <1>3 DEF TypeOK
    <2>3. QED
      BY <1>0, <2>1, <2>2 DEF GateRest, Spawned
  <1>10. QED
    BY <1>4, <1>5, <1>7, <1>9 DEF GateRest

LEMMA CallerGate ==
    ASSUME TypeOK, GateInv, NEW c \in Callers, Call(c) \/ Publish(c) \/ Await(c)
    PROVE  GateRest'
  <1>0. GateRest
    BY DEF GateInv, GateRest
  <1> USE DEF TypeOK, ownerVars, syncVars, jobVars, lockVars, Goto, GateRest, LabelsSplit, Spawned,
          OnePublisher, GateValue, EpochOrder, NoTornJob, CallerLabels, WorkerLabels,
          Unstamped, InPool, Rewriting, Admitted, Counted, Draining
  <1>1. CASE Call(c)
    BY <1>0, <1>1 DEF Call
  <1>2. CASE CallInline(c)
    BY <1>0, <1>2 DEF CallInline
  <1>3. CASE InlineDone(c)
    <2>1. /\ pc[c] = "inline" /\ pc' = [pc EXCEPT ![c] = "return"]
          /\ UNCHANGED <<started, epoch, pubGate, pubMtx, ep>>
      BY <1>3 DEF InlineDone
    <2> QED
      BY <1>0, <2>1
  <1>4. CASE CallPool(c)
    BY <1>0, <1>4 DEF CallPool
  <1>5. CASE PubLock(c)
    BY <1>0, <1>5 DEF PubLock
  <1>6. CASE PubGate(c)
    BY <1>0, <1>6 DEF PubGate
  <1>7. CASE PubRetired(c)
    <2>1. \A w \in Workers : pc[w] \notin Counted
      BY <1>7, RetiredMeansEmpty DEF GateInv, PubRetired
    <2>2. QED
      BY <1>0, <1>7, <2>1 DEF PubRetired
  <1>8. CASE PubRetiredEarly(c)
    <2>1. \A w \in Workers : pc[w] \notin Counted
      BY <1>8, RetiredMeansEmpty DEF GateInv, PubRetiredEarly
    <2>2. QED
      BY <1>0, <1>8, <2>1 DEF PubRetiredEarly
  <1>9. CASE PubFields(c)
    BY <1>0, <1>9 DEF PubFields
  <1>10. CASE PubCursor(c)
    BY <1>0, <1>10 DEF PubCursor
  <1>11. CASE PubStamp(c)
    BY <1>0, <1>11 DEF PubStamp
  <1>12. CASE PubWake(c)
    BY <1>12, PubWakeGate
  <1>13. CASE WaitSpins(c)
    BY <1>0, <1>13 DEF WaitSpins
  <1>14. CASE WaitParks(c)
    BY <1>0, <1>14 DEF WaitParks
  <1>15. CASE WaitLocks(c)
    BY <1>0, <1>15 DEF WaitLocks
  <1>16. CASE WaitOver(c)
    BY <1>0, <1>16 DEF WaitOver
  <1>17. CASE WaitShort(c)
    BY <1>0, <1>17 DEF WaitShort
  <1>18. CASE WaitSleeps(c)
    BY <1>0, <1>18 DEF WaitSleeps
  <1>19. CASE PubClose(c)
    BY <1>0, <1>19 DEF PubClose
  <1>20. CASE Return(c)
    BY <1>0, <1>20 DEF Return
  <1> QED
    BY <1>1, <1>2, <1>3, <1>4, <1>5, <1>6, <1>7, <1>8, <1>9, <1>10, <1>11, <1>12, <1>13, <1>14, <1>15, <1>16, <1>17, <1>18, <1>19, <1>20 DEF Publish, Await

LEMMA CallerDrainGate ==
    ASSUME TypeOK, GateInv, NEW t \in Callers, Drain(t)
    PROVE  GateRest'
  <1>0. GateRest
    BY DEF GateInv, GateRest
  <1> USE DEF TypeOK, ownerVars, syncVars, jobVars, lockVars, Goto, GateRest, LabelsSplit, Spawned,
          OnePublisher, GateValue, EpochOrder, NoTornJob, CallerLabels, WorkerLabels,
          Unstamped, InPool, Rewriting, Admitted, Counted, Draining
  <1>1. CASE DrainEnter(t)
    <2>1. CASE Mine(t)
      BY <1>0, <1>1, <2>1 DEF DrainEnter
    <2>2. CASE ~Mine(t)
      BY <1>0, <1>1, <2>2 DEF DrainEnter, AfterDrain
    <2> QED
      BY <2>1, <2>2
  <1>3. CASE DrainLoad(t)
    <2>1. /\ pc[t] = "claim" /\ pc' = [pc EXCEPT ![t] = "cas"]
          /\ UNCHANGED <<started, epoch, pubGate, pubMtx, ep>>
      BY <1>3 DEF DrainLoad
    <2>2. pc'[t] = "cas" /\ \A u \in Threads \ {t} : pc'[u] = pc[u]
      BY <2>1
    <2> QED
      BY <1>0, <2>1, <2>2
  <1>4. CASE DrainLeave(t)
    BY <1>0, <1>4 DEF DrainLeave, AfterDrain
  <1>5. CASE CasClaims(t)
    BY <1>0, <1>5 DEF CasClaims
  <1>6. CASE CasFails(t)
    BY <1>0, <1>6 DEF CasFails
  <1>7. CASE ChunkDone(t)
    BY <1>0, <1>7 DEF ChunkDone
  <1>8. CASE Signal(t)
    BY <1>0, <1>8 DEF Signal
  <1>9. CASE DoneBroadcast(t)
    BY <1>0, <1>9 DEF DoneBroadcast
  <1> QED
    BY <1>1, <1>3, <1>4, <1>5, <1>6, <1>7, <1>8, <1>9 DEF Drain

LEMMA WorkerDrainGate ==
    ASSUME TypeOK, GateInv, NEW t \in Workers, Drain(t)
    PROVE  GateRest'
  <1>0. GateRest
    BY DEF GateInv, GateRest
  <1> USE DEF TypeOK, ownerVars, syncVars, jobVars, lockVars, Goto, GateRest, LabelsSplit, Spawned,
          OnePublisher, GateValue, EpochOrder, NoTornJob, CallerLabels, WorkerLabels,
          Unstamped, InPool, Rewriting, Admitted, Counted, Draining
  <1>1. CASE DrainEnter(t)
    <2>1. CASE Mine(t)
      BY <1>0, <1>1, <2>1 DEF DrainEnter
    <2>2. CASE ~Mine(t)
      BY <1>0, <1>1, <2>2 DEF DrainEnter, AfterDrain
    <2> QED
      BY <2>1, <2>2
  <1>3. CASE DrainLoad(t)
    <2>1. /\ pc[t] = "claim" /\ pc' = [pc EXCEPT ![t] = "cas"]
          /\ UNCHANGED <<started, epoch, pubGate, pubMtx, ep>>
      BY <1>3 DEF DrainLoad
    <2>2. pc'[t] = "cas" /\ \A u \in Threads \ {t} : pc'[u] = pc[u]
      BY <2>1
    <2> QED
      BY <1>0, <2>1, <2>2
  <1>4. CASE DrainLeave(t)
    BY <1>0, <1>4 DEF DrainLeave, AfterDrain
  <1>5. CASE CasClaims(t)
    BY <1>0, <1>5 DEF CasClaims
  <1>6. CASE CasFails(t)
    BY <1>0, <1>6 DEF CasFails
  <1>7. CASE ChunkDone(t)
    BY <1>0, <1>7 DEF ChunkDone
  <1>8. CASE Signal(t)
    BY <1>0, <1>8 DEF Signal
  <1>9. CASE DoneBroadcast(t)
    BY <1>0, <1>9 DEF DoneBroadcast
  <1> QED
    BY <1>1, <1>3, <1>4, <1>5, <1>6, <1>7, <1>8, <1>9 DEF Drain

LEMMA WorkerGate ==
    ASSUME TypeOK, GateInv, NEW w \in Workers, Work(w)
    PROVE  GateRest'
  <1>0. GateRest
    BY DEF GateInv, GateRest
  <1> USE DEF TypeOK, ownerVars, syncVars, jobVars, lockVars, Goto, GateRest, LabelsSplit, Spawned,
          OnePublisher, GateValue, EpochOrder, NoTornJob, CallerLabels, WorkerLabels,
          Unstamped, InPool, Rewriting, Admitted, Counted, Draining
  <1>1. CASE SpinSees(w)
    BY <1>0, <1>1 DEF SpinSees
  <1>2. CASE SpinQuits(w)
    BY <1>0, <1>2 DEF SpinQuits
  <1>3. CASE SpinGivesUp(w)
    BY <1>0, <1>3 DEF SpinGivesUp
  <1>4. CASE Park(w)
    BY <1>0, <1>4 DEF Park
  <1>5. CASE Unpark(w)
    BY <1>0, <1>5 DEF Unpark
  <1>6. CASE ParkShort(w)
    BY <1>0, <1>6 DEF ParkShort
  <1>7. CASE ParkSleeps(w)
    BY <1>0, <1>7 DEF ParkSleeps
  <1>8. CASE ParkWakes(w)
    BY <1>0, <1>8 DEF ParkWakes
  <1>9. CASE Activate(w)
    BY <1>0, <1>9 DEF Activate
  <1>10. CASE GateCheck(w)
    BY <1>0, <1>10 DEF GateCheck
  <1>11. CASE JobCheck(w)
    BY <1>0, <1>11 DEF JobCheck
  <1>12. CASE Retire(w)
    BY <1>0, <1>12 DEF Retire
  <1> QED
    BY <1>1, <1>2, <1>3, <1>4, <1>5, <1>6, <1>7, <1>8, <1>9, <1>10, <1>11, <1>12 DEF Work

-----------------------------------------------------------------------------
(* active_workers counts the workers that are between its two updates.     *)

\* Steps that move no worker across an update of active_workers.
LEMMA SameActive ==
    ASSUME ActiveCounts, active' = active,
           \A w \in Workers : pc'[w] \in Counted <=> pc[w] \in Counted
    PROVE  ActiveCounts'
  <1>1. ActiveSet' = ActiveSet
    BY DEF ActiveSet
  <1>2. QED
    BY <1>1 DEF ActiveCounts

\* The owner starts threads, and starts them outside the counted section.
LEMMA OwnerCount == ASSUME TypeOK, GateInv, Owner PROVE ActiveCounts'
  <1>1. ActiveCounts /\ LabelsSplit
    BY DEF GateInv
  <1>2. active' = active
    BY DEF Owner, Spawn, SpawnFails, Created, Destroy, ShutdownBroadcast, Unwound, Freed, JoinsAgain, syncVars
  <1>3. pc' = pc \/ Spawn
    BY DEF Owner, SpawnFails, Created, Destroy, ShutdownBroadcast, Unwound, Freed, JoinsAgain
  <1>4. \A w \in Workers : pc'[w] \in Counted <=> pc[w] \in Counted
    <2>1. CASE pc' = pc
      BY <2>1
    <2>2. CASE Spawn
      <3>1. started \in Workers /\ pc' = [pc EXCEPT ![started] = "spin"]
        BY <2>2 DEF Spawn, Goto, TypeOK
      <3>2. pc[started] \notin Counted
        BY <3>1 DEF GateInv, Spawned, Counted, Admitted, Draining
      <3>3. QED
        BY <3>1, <3>2 DEF TypeOK, Counted, Admitted, Draining
    <2>3. QED
      BY <1>3, <2>1, <2>2
  <1>5. QED
    BY <1>1, <1>2, <1>4, SameActive

LEMMA CallerCount ==
    ASSUME TypeOK, GateInv, NEW c \in Callers,
           Call(c) \/ Publish(c) \/ Await(c) \/ Drain(c)
    PROVE  ActiveCounts'
  <1>1. active' = active
    BY DEF Publish, Await, Drain, Call, CallInline, InlineDone, CallPool, PubLock, PubGate, PubRetired, PubRetiredEarly, PubFields, PubCursor, PubStamp, PubWake, WaitSpins, WaitParks, WaitLocks, WaitOver, WaitShort, WaitSleeps, PubClose, Return, DrainEnter, DrainLoad, DrainLeave, CasClaims, CasFails, ChunkDone, Signal, DoneBroadcast, syncVars
  <1>2. \E l \in Labels : pc' = [pc EXCEPT ![c] = l]
    BY DEF Publish, Await, Drain, Goto, Labels, AfterDrain,
           Call, CallInline, InlineDone, CallPool, PubLock, PubGate, PubRetired, PubRetiredEarly, PubFields, PubCursor, PubStamp, PubWake, WaitSpins, WaitParks, WaitLocks, WaitOver, WaitShort, WaitSleeps, PubClose, Return, DrainEnter, DrainLoad, DrainLeave, CasClaims, CasFails, ChunkDone, Signal, DoneBroadcast
  <1>3. \A w \in Workers : pc'[w] = pc[w]
    BY <1>2 DEF TypeOK
  <1>4. QED
    BY <1>1, <1>3, SameActive DEF GateInv

LEMMA DrainCount ==
    ASSUME TypeOK, GateInv, NEW t \in Workers, Drain(t)
    PROVE  ActiveCounts'
  <1>1. active' = active
    BY DEF Drain, DrainEnter, DrainLoad, DrainLeave, CasClaims, CasFails, ChunkDone, Signal, DoneBroadcast, syncVars
  <1>2. pc[t] \in Counted
    BY DEF Drain, DrainEnter, DrainLoad, DrainLeave, CasClaims, CasFails, ChunkDone, Signal, DoneBroadcast,
           Counted, Admitted, Draining
  <1>3. \E l \in Counted : pc' = [pc EXCEPT ![t] = l]
    BY DEF Drain, Goto, AfterDrain, DrainEnter, DrainLoad, DrainLeave, CasClaims, CasFails, ChunkDone, Signal, DoneBroadcast,
           Counted, Admitted, Draining
  <1>4. \A w \in Workers : pc'[w] \in Counted <=> pc[w] \in Counted
    BY <1>2, <1>3 DEF TypeOK
  <1>5. QED
    BY <1>1, <1>4, SameActive DEF GateInv

LEMMA WorkerCount ==
    ASSUME TypeOK, GateInv, NEW w \in Workers, Work(w)
    PROVE  ActiveCounts'
  <1>1. ActiveCounts
    BY DEF GateInv
  <1>2. CASE Activate(w)
    <2>1. pc[w] \notin Counted /\ pc' = [pc EXCEPT ![w] = "gatecheck"] /\ active' = active + 1
      BY <1>2 DEF Activate, Goto, Counted, Admitted, Draining
    <2>2. w \notin ActiveSet /\ ActiveSet' = ActiveSet \cup {w}
      BY <2>1 DEF ActiveSet, TypeOK, Counted
    <2>3. Cardinality(ActiveSet') = Cardinality(ActiveSet) + 1
      BY <2>2, ActiveSetFinite, FS_AddElement
    <2>4. QED
      BY <1>1, <2>1, <2>3 DEF ActiveCounts
  <1>3. CASE Retire(w)
    <2>1. pc[w] = "retire" /\ pc' = [pc EXCEPT ![w] = "spin"] /\ active' = active - 1
      BY <1>3 DEF Retire, Goto
    <2>2. w \in ActiveSet /\ ActiveSet' = ActiveSet \ {w}
      BY <2>1 DEF ActiveSet, TypeOK, Counted, Admitted, Draining
    <2>3. Cardinality(ActiveSet') = Cardinality(ActiveSet) - 1
      BY <2>2, ActiveSetFinite, FS_RemoveElement
    <2>4. QED
      BY <1>1, <2>1, <2>3 DEF ActiveCounts
  <1>4. CASE GateCheck(w) \/ JobCheck(w)
    <2>1. active' = active /\ pc[w] \in Counted
      BY <1>4 DEF GateCheck, JobCheck, syncVars, Counted, Admitted
    <2>2. \E l \in Counted : pc' = [pc EXCEPT ![w] = l]
      BY <1>4 DEF GateCheck, JobCheck, Goto, Counted, Admitted, Draining
    <2>3. \A v \in Workers : pc'[v] \in Counted <=> pc[v] \in Counted
      BY <2>1, <2>2 DEF TypeOK
    <2>4. QED
      BY <1>1, <2>1, <2>3, SameActive
  <1>5. CASE ~(Activate(w) \/ Retire(w) \/ GateCheck(w) \/ JobCheck(w))
    <2>1. active' = active
      BY <1>5 DEF Work, SpinSees, SpinQuits, SpinGivesUp, Park, Unpark, ParkShort, ParkSleeps, ParkWakes, syncVars
    <2>2. pc[w] \notin Counted
      BY <1>5 DEF Work, SpinSees, SpinQuits, SpinGivesUp, Park, Unpark, ParkShort, ParkSleeps, ParkWakes, Counted, Admitted, Draining
    <2>3. \E l \in WorkerLabels \ Counted : pc' = [pc EXCEPT ![w] = l]
      BY <1>5 DEF Work, Goto, SpinSees, SpinQuits, SpinGivesUp, Park, Unpark, ParkShort, ParkSleeps, ParkWakes,
                  WorkerLabels, Counted, Admitted, Draining
    <2>4. \A v \in Workers : pc'[v] \in Counted <=> pc[v] \in Counted
      BY <2>2, <2>3 DEF TypeOK
    <2>5. QED
      BY <1>1, <2>1, <2>4, SameActive
  <1>6. QED
    BY <1>2, <1>3, <1>4, <1>5

-----------------------------------------------------------------------------
LEMMA GateInit == Init => GateInv
  <1> SUFFICES ASSUME Init PROVE GateInv
    OBVIOUS
  <1>1. LabelsSplit /\ Spawned /\ OnePublisher /\ GateValue /\ EpochOrder /\ NoTornJob
    BY DEF Init, LabelsSplit, CallerLabels, WorkerLabels, Spawned, OnePublisher, GateValue,
           EpochOrder, NoTornJob, InPool, Rewriting, Unstamped, Counted, Admitted, Draining
  <1>2. ActiveSet = {}
    BY DEF Init, ActiveSet, Counted, Admitted, Draining
  <1>3. ActiveCounts
    BY <1>2, FS_EmptySet DEF Init, ActiveCounts
  <1>4. QED
    BY <1>1, <1>3 DEF GateInv

LEMMA GateNext == ASSUME TypeOK, GateInv, [Next]_vars PROVE GateInv'
  <1>1. CASE Owner
    BY <1>1, OwnerGate, OwnerCount DEF GateInv, GateRest
  <1>2. ASSUME NEW c \in Callers, Call(c) \/ Publish(c) \/ Await(c) PROVE GateInv'
    BY <1>2, CallerGate, CallerCount DEF GateInv, GateRest
  <1>3. ASSUME NEW c \in Callers, Drain(c) PROVE GateInv'
    BY <1>3, CallerDrainGate, CallerCount DEF GateInv, GateRest
  <1>4. ASSUME NEW w \in Workers, Drain(w) PROVE GateInv'
    BY <1>4, WorkerDrainGate, DrainCount DEF GateInv, GateRest
  <1>5. ASSUME NEW w \in Workers, Work(w) PROVE GateInv'
    BY <1>5, WorkerGate, WorkerCount DEF GateInv, GateRest
  <1>6. CASE SpuriousWakeup \/ UNCHANGED vars
    <2>1. UNCHANGED <<ownerVars, syncVars, pubMtx, pc, ep>>
      BY <1>6 DEF SpuriousWakeup, vars, lockVars
    <2>2. ActiveSet' = ActiveSet
      BY <2>1 DEF ActiveSet
    <2>3. QED
      BY <2>1, <2>2 DEF GateInv, LabelsSplit, Spawned, ActiveCounts, OnePublisher, GateValue,
                        EpochOrder, NoTornJob, ownerVars, syncVars
  <1>7. QED
    BY <1>1, <1>2, <1>3, <1>4, <1>5, <1>6 DEF Next, Terminated

\* The inductive invariant of the publication gate.
THEOREM GateCorrect == Spec => []GateInv
  <1>1. Init => GateInv
    BY GateInit
  <1>2. TypeOK /\ GateInv /\ [Next]_vars => GateInv'
    BY GateNext
  <1>3. QED
    BY <1>1, <1>2, TypeCorrect, PTL DEF Spec

\* No worker reads the job block while a publisher rewrites it, for any number
\* of callers, workers and jobs (threadpool.c:475-489 against 288-302).
THEOREM JobNeverTorn == Spec => []NoTornJob
  <1>1. GateInv => NoTornJob
    BY DEF GateInv
  <1>2. QED
    BY <1>1, GateCorrect, PTL

-----------------------------------------------------------------------------
(* The job: what the threads of a publication know of it.                   *)

\* A call from its epoch increment to the clearing of in_job, a call that has
\* stored the job block and not yet woken the workers, a thread that holds
\* locals read from the job block, a call that did not take pub_mtx.
Working == InPool \ Unstamped
Stored  == {"cursor", "stamp", "wake"}
Holding == {"claim", "cas", "run", "signal", "bcast"}
Outside == {"idle", "called", "inline", "lock"}

\* The publisher holds the epoch it published under a closed pool, and the
\* job block is that of its call.
PublisherInside ==
    \A c \in Callers :
        /\ pc[c] \in Working => ep[c] = epoch /\ pubGate = epoch
        /\ pc[c] \in InPool \ {"gate", "early"} => inJob
        /\ pc[c] \in Stored \cup Working => jobCtx = c /\ jobEnd = args[c].n
        /\ pc[c] \in {"stamp", "wake"} => cursor.ep = ep[c] /\ cursor.pos = 0

\* A worker admitted by the gate holds the epoch of the last job, and no job
\* is being written.
WorkersCurrent ==
    \A w \in Workers : pc[w] \in Admitted =>
        /\ ep[w] = epoch
        /\ \A c \in Callers : pc[c] \notin Rewriting \cup {"wake"}

\* Unless a job is being written, the cursor is that of the last epoch.
BlockCurrent ==
    (\A c \in Callers : pc[c] \notin Stored) => cursor.ep = epoch /\ cursor.pos <= jobEnd

\* What a thread read from the job block is still what the block holds.
LocalsCurrent ==
    \A t \in Threads :
        /\ pc[t] \in Holding => loc[t].ctx = jobCtx /\ loc[t].end = jobEnd
        /\ pc[t] \in {"cas", "run"} => snap[t].pos < snap[t].next /\ snap[t].next <= loc[t].end

JobInv == PublisherInside /\ WorkersCurrent /\ BlockCurrent /\ LocalsCurrent

\* Between two jobs the cursor is at the end of the last one: a late exchange
\* has nothing to claim.
Exhaustion == (\A c \in Callers : pc[c] \notin Working \cup Stored) => cursor.pos = jobEnd

\* A chunk belongs to a call that still waits, lies below the cursor, and
\* shares no item with another thread's.
ChunksClaimed ==
    \A t \in Threads : pc[t] = "run" =>
        /\ \E c \in Callers : pc[c] \in Working \ {"close"}
        /\ snap[t].next <= cursor.pos
        /\ \A u \in Threads \ {t} : pc[u] = "run" => Chunk(t) \cap Chunk(u) = {}

\* executed counts the items run, all below the cursor and in no chunk; a call
\* that goes on has run them all.
ItemsCounted ==
    \A c \in Callers :
        /\ pc[c] \in Outside \cup Unstamped => ran[c] = {}
        /\ pc[c] \in Stored => executed = 0
        /\ pc[c] \in Working => /\ ran[c] \subseteq 0 .. cursor.pos - 1
                                /\ executed = Cardinality(ran[c])
                                /\ \A t \in Threads : pc[t] = "run" => Chunk(t) \cap ran[c] = {}
        /\ pc[c] \in {"close", "return"} => ran[c] = 0 .. args[c].n - 1

ItemInv == Exhaustion /\ ChunksClaimed /\ ItemsCounted

\* JobInv through the steps of the owner, of a caller, of a thread in the
\* drain loop and of a worker.
LEMMA OwnerJob ==
    ASSUME TypeOK, GateInv, JobInv, Owner
    PROVE  JobInv'
  <1>0. OnePublisher /\ LabelsSplit /\ GateValue /\ EpochOrder /\ NoTornJob /\ JobInv
    BY DEF GateInv
  <1> USE DEF TypeOK, ownerVars, syncVars, jobVars, lockVars, Goto, InPool, Unstamped, Rewriting,
         Admitted, Counted, Draining, Working, Stored, Holding, OnePublisher, LabelsSplit,
         GateValue, EpochOrder, NoTornJob, CallerLabels, WorkerLabels, JobInv, PublisherInside,
         WorkersCurrent, BlockCurrent, LocalsCurrent
  <1>1. CASE Spawn
    BY <1>1, <1>0 DEF Spawn
  <1>2. CASE SpawnFails
    BY <1>2, <1>0 DEF SpawnFails
  <1>3. CASE Created
    BY <1>3, <1>0 DEF Created
  <1>4. CASE Destroy
    BY <1>4, <1>0 DEF Destroy
  <1>5. CASE ShutdownBroadcast
    BY <1>5, <1>0 DEF ShutdownBroadcast
  <1>6. CASE Unwound
    BY <1>6, <1>0 DEF Unwound
  <1>7. CASE Freed
    BY SMTT(30), <1>7, <1>0 DEF Freed
  <1>8. CASE JoinsAgain
    BY SMTT(30), <1>8, <1>0 DEF JoinsAgain
  <1> QED
    BY <1>1, <1>2, <1>3, <1>4, <1>5, <1>6, <1>7, <1>8 DEF Owner

LEMMA CallerJob ==
    ASSUME TypeOK, GateInv, JobInv,
           NEW c \in Callers, Call(c) \/ Publish(c) \/ Await(c)
    PROVE  JobInv'
  <1>0. OnePublisher /\ LabelsSplit /\ GateValue /\ EpochOrder /\ NoTornJob /\ JobInv
    BY DEF GateInv
  <1> USE DEF TypeOK, ownerVars, syncVars, jobVars, lockVars, Goto, InPool, Unstamped, Rewriting,
         Admitted, Counted, Draining, Working, Stored, Holding, OnePublisher, LabelsSplit,
         GateValue, EpochOrder, NoTornJob, CallerLabels, WorkerLabels, JobInv, PublisherInside,
         WorkersCurrent, BlockCurrent, LocalsCurrent
  <1>1. CASE Call(c)
    <2>1. /\ pc[c] = "idle" /\ pc' = [pc EXCEPT ![c] = "called"]
          /\ \A d \in Callers : d # c => args'[d] = args[d]
          /\ UNCHANGED <<ownerVars, syncVars, jobVars, lockVars, ep, loc, snap>>
      BY <1>1 DEF Call
    <2>2. QED
      BY <1>0, <2>1
  <1>2. CASE CallInline(c)
    BY <1>2, <1>0 DEF CallInline
  <1>3. CASE InlineDone(c)
    <2>1. /\ pc[c] = "inline" /\ pc' = [pc EXCEPT ![c] = "return"]
          /\ UNCHANGED <<ownerVars, syncVars, jobVars, lockVars, ep, args, loc, snap>>
      BY <1>3 DEF InlineDone
    <2>2. QED
      BY <1>0, <2>1
  <1>4. CASE CallPool(c)
    BY <1>4, <1>0 DEF CallPool
  <1>5. CASE PubLock(c)
    BY <1>5, <1>0 DEF PubLock
  <1>6. CASE PubGate(c)
    BY <1>6, <1>0 DEF PubGate
  <1>7. CASE PubRetired(c)
    <2>1. \A w \in Workers : pc[w] \notin Counted
      BY <1>7, RetiredMeansEmpty DEF GateInv, PubRetired
    <2>2. QED
      BY <1>7, <1>0, <2>1 DEF PubRetired
  <1>8. CASE PubRetiredEarly(c)
    <2>1. \A w \in Workers : pc[w] \notin Counted
      BY <1>8, RetiredMeansEmpty DEF GateInv, PubRetiredEarly
    <2>2. QED
      BY <1>8, <1>0, <2>1 DEF PubRetiredEarly
  <1>9. CASE PubFields(c)
    BY <1>9, <1>0 DEF PubFields
  <1>10. CASE PubCursor(c)
    BY <1>10, <1>0 DEF PubCursor
  <1>11. CASE PubStamp(c)
    BY <1>11, <1>0 DEF PubStamp
  <1>12. CASE PubWake(c)
    BY <1>12, <1>0 DEF PubWake
  <1>13. CASE WaitSpins(c)
    BY <1>13, <1>0 DEF WaitSpins
  <1>14. CASE WaitParks(c)
    BY <1>14, <1>0 DEF WaitParks
  <1>15. CASE WaitLocks(c)
    BY <1>15, <1>0 DEF WaitLocks
  <1>16. CASE WaitOver(c)
    BY <1>16, <1>0 DEF WaitOver
  <1>17. CASE WaitShort(c)
    BY <1>17, <1>0 DEF WaitShort
  <1>18. CASE WaitSleeps(c)
    BY <1>18, <1>0 DEF WaitSleeps
  <1>19. CASE PubClose(c)
    BY <1>19, <1>0 DEF PubClose
  <1>20. CASE Return(c)
    BY <1>20, <1>0 DEF Return
  <1> QED
    BY <1>1, <1>2, <1>3, <1>4, <1>5, <1>6, <1>7, <1>8, <1>9, <1>10, <1>11, <1>12, <1>13, <1>14,
           <1>15, <1>16, <1>17, <1>18, <1>19, <1>20 DEF Publish, Await

LEMMA CallerDrainJob ==
    ASSUME TypeOK, GateInv, JobInv,
           NEW t \in Callers, Drain(t)
    PROVE  JobInv'
  <1>0. OnePublisher /\ LabelsSplit /\ GateValue /\ EpochOrder /\ NoTornJob /\ JobInv
    BY DEF GateInv
  <1> USE DEF TypeOK, ownerVars, syncVars, jobVars, lockVars, Goto, InPool, Unstamped, Rewriting,
         Admitted, Counted, Draining, Working, Stored, Holding, OnePublisher, LabelsSplit,
         GateValue, EpochOrder, NoTornJob, CallerLabels, WorkerLabels, JobInv, PublisherInside,
         WorkersCurrent, BlockCurrent, LocalsCurrent
  <1>1. CASE DrainEnter(t)
    <2>1. CASE Mine(t)
      BY <1>1, <1>0, <2>1 DEF DrainEnter
    <2>2. CASE ~Mine(t)
      BY <1>1, <1>0, <2>2 DEF DrainEnter, AfterDrain
    <2> QED
      BY <2>1, <2>2
  <1>2. CASE DrainLoad(t)
    <2>1. cursor.pos < loc[t].end
      BY <1>2 DEF DrainLoad, Exhausted
    <2>2. /\ cursor.pos < ChunkEnd(loc[t], cursor.pos)
          /\ ChunkEnd(loc[t], cursor.pos) <= loc[t].end
      BY SMTT(30), <2>1, ChunkEndBounds
    <2>3. QED
      BY <1>2, <1>0, <2>2 DEF DrainLoad
  <1>3. CASE DrainLeave(t)
    BY <1>3, <1>0 DEF DrainLeave, AfterDrain
  <1>4. CASE CasClaims(t)
    BY <1>4, <1>0 DEF CasClaims
  <1>5. CASE CasFails(t)
    BY <1>5, <1>0 DEF CasFails
  <1>6. CASE ChunkDone(t)
    BY <1>6, <1>0 DEF ChunkDone
  <1>7. CASE Signal(t)
    BY <1>7, <1>0 DEF Signal
  <1>8. CASE DoneBroadcast(t)
    BY <1>8, <1>0 DEF DoneBroadcast
  <1> QED
    BY <1>1, <1>2, <1>3, <1>4, <1>5, <1>6, <1>7, <1>8 DEF Drain

LEMMA WorkerDrainJob ==
    ASSUME TypeOK, GateInv, JobInv,
           NEW t \in Workers, Drain(t)
    PROVE  JobInv'
  <1>0. OnePublisher /\ LabelsSplit /\ GateValue /\ EpochOrder /\ NoTornJob /\ JobInv
    BY DEF GateInv
  <1> USE DEF TypeOK, ownerVars, syncVars, jobVars, lockVars, Goto, InPool, Unstamped, Rewriting,
         Admitted, Counted, Draining, Working, Stored, Holding, OnePublisher, LabelsSplit,
         GateValue, EpochOrder, NoTornJob, CallerLabels, WorkerLabels, JobInv, PublisherInside,
         WorkersCurrent, BlockCurrent, LocalsCurrent
  <1>1. CASE DrainEnter(t)
    <2>1. CASE Mine(t)
      BY <1>1, <1>0, <2>1 DEF DrainEnter
    <2>2. CASE ~Mine(t)
      BY <1>1, <1>0, <2>2 DEF DrainEnter, AfterDrain
    <2> QED
      BY <2>1, <2>2
  <1>2. CASE DrainLoad(t)
    <2>1. cursor.pos < loc[t].end
      BY <1>2 DEF DrainLoad, Exhausted
    <2>2. /\ cursor.pos < ChunkEnd(loc[t], cursor.pos)
          /\ ChunkEnd(loc[t], cursor.pos) <= loc[t].end
      BY SMTT(30), <2>1, ChunkEndBounds
    <2>3. QED
      BY <1>2, <1>0, <2>2 DEF DrainLoad
  <1>3. CASE DrainLeave(t)
    BY <1>3, <1>0 DEF DrainLeave, AfterDrain
  <1>4. CASE CasClaims(t)
    BY <1>4, <1>0 DEF CasClaims
  <1>5. CASE CasFails(t)
    BY <1>5, <1>0 DEF CasFails
  <1>6. CASE ChunkDone(t)
    BY <1>6, <1>0 DEF ChunkDone
  <1>7. CASE Signal(t)
    BY <1>7, <1>0 DEF Signal
  <1>8. CASE DoneBroadcast(t)
    BY <1>8, <1>0 DEF DoneBroadcast
  <1> QED
    BY <1>1, <1>2, <1>3, <1>4, <1>5, <1>6, <1>7, <1>8 DEF Drain

LEMMA WorkerJob ==
    ASSUME TypeOK, GateInv, JobInv,
           NEW w \in Workers, Work(w)
    PROVE  JobInv'
  <1>0. OnePublisher /\ LabelsSplit /\ GateValue /\ EpochOrder /\ NoTornJob /\ JobInv
    BY DEF GateInv
  <1> USE DEF TypeOK, ownerVars, syncVars, jobVars, lockVars, Goto, InPool, Unstamped, Rewriting,
         Admitted, Counted, Draining, Working, Stored, Holding, OnePublisher, LabelsSplit,
         GateValue, EpochOrder, NoTornJob, CallerLabels, WorkerLabels, JobInv, PublisherInside,
         WorkersCurrent, BlockCurrent, LocalsCurrent
  <1>1. CASE SpinSees(w)
    BY <1>1, <1>0 DEF SpinSees
  <1>2. CASE SpinQuits(w)
    BY <1>2, <1>0 DEF SpinQuits
  <1>3. CASE SpinGivesUp(w)
    BY <1>3, <1>0 DEF SpinGivesUp
  <1>4. CASE Park(w)
    BY <1>4, <1>0 DEF Park
  <1>5. CASE Unpark(w)
    BY <1>5, <1>0 DEF Unpark
  <1>6. CASE ParkShort(w)
    BY <1>6, <1>0 DEF ParkShort
  <1>7. CASE ParkSleeps(w)
    BY <1>7, <1>0 DEF ParkSleeps
  <1>8. CASE ParkWakes(w)
    BY <1>8, <1>0 DEF ParkWakes
  <1>9. CASE Activate(w)
    BY <1>9, <1>0 DEF Activate
  <1>10. CASE GateCheck(w)
    BY <1>10, <1>0 DEF GateCheck
  <1>11. CASE JobCheck(w)
    BY <1>11, <1>0 DEF JobCheck
  <1>12. CASE Retire(w)
    BY <1>12, <1>0 DEF Retire
  <1> QED
    BY <1>1, <1>2, <1>3, <1>4, <1>5, <1>6, <1>7, <1>8, <1>9, <1>10, <1>11, <1>12 DEF Work

-----------------------------------------------------------------------------
(* The items: steps that claim none and end none.                            *)

\* No chunk is claimed, and every call stays where it is between its
\* publication and its end, with the items it has run.
ItemsStay ==
    /\ UNCHANGED <<cursor, executed, jobEnd>>
    /\ \A t \in Threads : pc'[t] = "run" => pc[t] = "run" /\ snap'[t] = snap[t]
    /\ \A c \in Callers :
        /\ pc'[c] \in Working <=> pc[c] \in Working
        /\ pc'[c] = "close" <=> pc[c] = "close"
        /\ pc'[c] \in Stored <=> pc[c] \in Stored
        /\ pc'[c] \in Working => ran'[c] = ran[c]
        /\ pc'[c] \in Outside \cup Unstamped => ran'[c] = {}
        /\ pc'[c] \in {"close", "return"} => ran'[c] = 0 .. args'[c].n - 1

\* Such a step keeps ItemInv.
LEMMA SameItems ==
    ASSUME ItemInv, ItemsStay
    PROVE  ItemInv'
  <1> USE DEF ItemsStay
  <1>1. Exhaustion'
    BY DEF ItemInv, Exhaustion
  <1>2. \A t \in Threads : pc'[t] = "run" => pc[t] = "run" /\ Chunk(t)' = Chunk(t)
    BY DEF Chunk
  <1>3. ChunksClaimed'
    <2> SUFFICES ASSUME NEW t \in Threads, pc'[t] = "run"
                 PROVE  /\ \E c \in Callers : pc'[c] \in Working \ {"close"}
                        /\ snap'[t].next <= cursor'.pos
                        /\ \A u \in Threads \ {t} : pc'[u] = "run" => Chunk(t)' \cap Chunk(u)' = {}
      BY Zenon DEF ChunksClaimed
    <2>1. \E c \in Callers : pc'[c] \in Working \ {"close"}
      BY DEF ItemInv, ChunksClaimed
    <2>2. snap'[t].next <= cursor'.pos
      BY DEF ItemInv, ChunksClaimed
    <2>3. ASSUME NEW u \in Threads \ {t}, pc'[u] = "run" PROVE Chunk(t)' \cap Chunk(u)' = {}
      BY <1>2, <2>3, Zenon DEF ItemInv, ChunksClaimed
    <2>4. QED
      BY <2>1, <2>2, <2>3
  <1>4. ItemsCounted'
    <2> SUFFICES ASSUME NEW c \in Callers
                 PROVE  /\ pc'[c] \in Outside \cup Unstamped => ran'[c] = {}
                        /\ pc'[c] \in Stored => executed' = 0
                        /\ pc'[c] \in Working =>
                              /\ ran'[c] \subseteq 0 .. cursor'.pos - 1
                              /\ executed' = Cardinality(ran'[c])
                              /\ \A t \in Threads : pc'[t] = "run" => Chunk(t)' \cap ran'[c] = {}
                        /\ pc'[c] \in {"close", "return"} => ran'[c] = 0 .. args'[c].n - 1
      BY Zenon DEF ItemsCounted
    <2>1. pc'[c] \in Stored => executed' = 0
      BY DEF ItemInv, ItemsCounted
    <2>2. ASSUME pc'[c] \in Working
          PROVE  /\ ran'[c] \subseteq 0 .. cursor'.pos - 1
                 /\ executed' = Cardinality(ran'[c])
                 /\ \A t \in Threads : pc'[t] = "run" => Chunk(t)' \cap ran'[c] = {}
      BY <1>2, <2>2, Zenon DEF ItemInv, ItemsCounted
    <2>3. QED
      BY <2>1, <2>2
  <1>5. QED
    BY <1>1, <1>3, <1>4 DEF ItemInv

\* The steps of the owner, most of a caller and of the drain loop, and all of
\* a worker outside the drain loop are such steps.
LEMMA OwnerFrame ==
    ASSUME TypeOK, GateInv, JobInv, ItemInv, Owner
    PROVE  ItemsStay
  <1>0. LabelsSplit /\ ItemsCounted
    BY DEF GateInv, ItemInv
  <1> USE DEF TypeOK, ownerVars, syncVars, jobVars, lockVars, Goto, InPool, Unstamped, Rewriting,
         Admitted, Counted, Draining, Working, Stored, Holding, LabelsSplit, CallerLabels,
         WorkerLabels, Outside, ItemsCounted, ItemsStay
  <1>1. CASE Spawn
    <2>1. /\ started \in Workers /\ pc' = [pc EXCEPT ![started] = "spin"]
          /\ \A d \in Callers : pc'[d] = pc[d]
      BY SMTT(30), <1>1 DEF Spawn
    <2>2. UNCHANGED <<cursor, executed, jobEnd, snap, ran, args>>
      BY <1>1 DEF Spawn
    <2>3. QED
      BY <1>0, <2>1, <2>2
  <1>2. CASE SpawnFails
    BY <1>2, <1>0 DEF SpawnFails
  <1>3. CASE Created
    BY <1>3, <1>0 DEF Created
  <1>4. CASE Destroy
    BY <1>4, <1>0 DEF Destroy
  <1>5. CASE ShutdownBroadcast
    BY <1>5, <1>0 DEF ShutdownBroadcast
  <1>6. CASE Unwound
    BY <1>6, <1>0 DEF Unwound
  <1>7. CASE Freed
    BY <1>7, <1>0 DEF Freed
  <1>8. CASE JoinsAgain
    BY <1>8, <1>0 DEF JoinsAgain
  <1> QED
    BY <1>1, <1>2, <1>3, <1>4, <1>5, <1>6, <1>7, <1>8 DEF Owner

\* A caller that goes from one place of a class to another of it, and changes
\* nothing of the job.
LEMMA PlaceStays ==
    ASSUME TypeOK, ItemsCounted, NEW c \in Callers, NEW l, pc' = [pc EXCEPT ![c] = l],
           l \notin {"run", "close", "return"}, pc[c] # "close",
           l \in Working <=> pc[c] \in Working, l \in Stored <=> pc[c] \in Stored,
           l \in Outside \cup Unstamped => pc[c] \in Outside \cup Unstamped,
           UNCHANGED <<cursor, executed, jobEnd, snap, args, ran>>
    PROVE  ItemsStay
  <1>1. c \in Threads /\ \A t \in Threads : pc'[t] = IF t = c THEN l ELSE pc[t]
    BY DEF TypeOK, Threads
  <1>2. \A d \in Callers : d \in Threads
    BY DEF Threads
  <1>3. \A t \in Threads : pc'[t] = "run" => pc[t] = "run" /\ snap'[t] = snap[t]
    BY <1>1
  <1>4. ASSUME NEW d \in Callers
        PROVE  /\ pc'[d] \in Working <=> pc[d] \in Working
               /\ pc'[d] = "close" <=> pc[d] = "close"
               /\ pc'[d] \in Stored <=> pc[d] \in Stored
               /\ pc'[d] \in Working => ran'[d] = ran[d]
               /\ pc'[d] \in Outside \cup Unstamped => ran'[d] = {}
               /\ pc'[d] \in {"close", "return"} => ran'[d] = 0 .. args'[d].n - 1
    <2>1. /\ pc[d] \in Outside \cup Unstamped => ran[d] = {}
          /\ pc[d] \in {"close", "return"} => ran[d] = 0 .. args[d].n - 1
      BY DEF ItemsCounted
    <2>2. pc'[d] = IF d = c THEN l ELSE pc[d]
      BY <1>1, <1>2
    <2>. QED  BY <2>1, <2>2
  <1>. QED  BY <1>3, <1>4 DEF ItemsStay

LEMMA PlacesStay ==
    ASSUME TypeOK, ItemsCounted, NEW c \in Callers, PubGate(c) \/ WaitLocks(c)
    PROVE  ItemsStay
  <1>1. CASE PubGate(c)
    <2>1. UNCHANGED <<cursor, executed, jobEnd, snap, args, ran>>
      BY <1>1 DEF PubGate, jobVars
    <2>2. CASE pc[c] = "gate" /\ pc' = [pc EXCEPT ![c] = "gated"]
      <3>1. "gate" \in Unstamped /\ "gated" \in Unstamped
        BY DEF Unstamped
      <3>2. {"gate", "gated"} \cap (Working \cup Stored) = {}
        BY DEF Working, Unstamped, Stored
      <3>. QED  BY <2>1, <2>2, <3>1, <3>2, PlaceStays
    <2>3. CASE pc[c] = "early" /\ pc' = [pc EXCEPT ![c] = "store"]
      <3>1. "early" \in Unstamped /\ "store" \in Unstamped
        BY DEF Unstamped
      <3>2. {"early", "store"} \cap (Working \cup Stored) = {}
        BY DEF Working, Unstamped, Stored
      <3>. QED  BY <2>1, <2>3, <3>1, <3>2, PlaceStays
    <2>. QED  BY <1>1, <2>2, <2>3 DEF PubGate, Goto
  <1>2. CASE WaitLocks(c)
    <2>1. /\ pc[c] \in {"wlock", "wsleep"} /\ pc' = [pc EXCEPT ![c] = "wcheck"]
          /\ UNCHANGED <<cursor, executed, jobEnd, snap, args, ran>>
      BY <1>2 DEF WaitLocks, Goto, jobVars
    <2>2. {"wlock", "wsleep", "wcheck"} \subseteq Working
      BY DEF Working, InPool, Unstamped
    <2>3. {"wlock", "wsleep", "wcheck"} \cap (Stored \cup Outside \cup Unstamped) = {}
      BY DEF Stored, Outside, Unstamped
    <2>. QED  BY <2>1, <2>2, <2>3, PlaceStays
  <1>. QED  BY <1>1, <1>2

LEMMA CallerFrame ==
    ASSUME TypeOK, GateInv, JobInv, ItemInv,
           NEW c \in Callers, Call(c) \/ CallInline(c) \/ InlineDone(c) \/ CallPool(c) \/
               PubLock(c) \/ PubGate(c) \/ PubRetired(c) \/ PubRetiredEarly(c) \/ PubStamp(c) \/
               WaitParks(c) \/ WaitLocks(c) \/ WaitShort(c) \/ WaitSleeps(c) \/ Return(c)
    PROVE  ItemsStay
  <1>0. LabelsSplit /\ ItemsCounted
    BY DEF GateInv, ItemInv
  <1> USE DEF TypeOK, ownerVars, syncVars, jobVars, lockVars, Goto, InPool, Unstamped, Rewriting,
         Admitted, Counted, Draining, Working, Stored, Holding, LabelsSplit, CallerLabels,
         WorkerLabels, Outside, ItemsCounted, ItemsStay
  <1>1. CASE Call(c)
    <2>1. /\ pc[c] = "idle" /\ pc' = [pc EXCEPT ![c] = "called"]
          /\ \A d \in Callers \ {c} : args'[d] = args[d]
          /\ UNCHANGED <<cursor, executed, jobEnd, snap, ran>>
      BY <1>1 DEF Call
    <2>2. QED
      BY ZenonT(60), <1>0, <2>1
  <1>2. CASE CallInline(c)
    BY <1>2, <1>0 DEF CallInline
  <1>3. CASE InlineDone(c)
    <2>1. /\ pc[c] = "inline" /\ pc' = [pc EXCEPT ![c] = "return"]
          /\ ran'[c] = 0 .. args'[c].n - 1
          /\ \A d \in Callers \ {c} : ran'[d] = ran[d]
          /\ UNCHANGED <<cursor, executed, jobEnd, snap, args>>
      BY <1>3 DEF InlineDone
    <2>2. QED
      BY ZenonT(60), <1>0, <2>1
  <1>4. CASE CallPool(c)
    BY <1>4, <1>0 DEF CallPool
  <1>5. CASE PubLock(c)
    BY <1>5, <1>0 DEF PubLock
  <1>6. CASE PubGate(c)
    BY <1>6, <1>0, PlacesStay
  <1>7. CASE PubRetired(c)
    BY <1>7, <1>0 DEF PubRetired
  <1>8. CASE PubRetiredEarly(c)
    BY <1>8, <1>0 DEF PubRetiredEarly
  <1>9. CASE PubStamp(c)
    BY <1>9, <1>0 DEF PubStamp
  <1>10. CASE WaitParks(c)
    BY <1>10, <1>0 DEF WaitParks
  <1>11. CASE WaitLocks(c)
    BY <1>11, <1>0, PlacesStay
  <1>12. CASE WaitShort(c)
    BY <1>12, <1>0 DEF WaitShort
  <1>13. CASE WaitSleeps(c)
    BY <1>13, <1>0 DEF WaitSleeps
  <1>14. CASE Return(c)
    <2>1. /\ pc[c] = "return" /\ pc' = [pc EXCEPT ![c] = "idle"]
          /\ ran'[c] = {}
          /\ \A d \in Callers \ {c} : ran'[d] = ran[d] /\ args'[d] = args[d]
          /\ UNCHANGED <<cursor, executed, jobEnd, snap>>
      BY <1>14 DEF Return
    <2>2. QED
      BY ZenonT(60), <1>0, <2>1
  <1> QED
    BY <1>1, <1>2, <1>3, <1>4, <1>5, <1>6, <1>7, <1>8, <1>9, <1>10, <1>11, <1>12, <1>13, <1>14 DEF
           Outside

LEMMA DrainFrame ==
    ASSUME TypeOK, GateInv, JobInv, ItemInv,
           NEW t \in Threads, DrainEnter(t) \/ DrainLoad(t) \/ DrainLeave(t) \/ CasFails(t) \/
               Signal(t) \/ DoneBroadcast(t)
    PROVE  ItemsStay
  <1>0. LabelsSplit /\ ItemsCounted
    BY DEF GateInv, ItemInv
  <1> USE DEF TypeOK, ownerVars, syncVars, jobVars, lockVars, Goto, InPool, Unstamped, Rewriting,
         Admitted, Counted, Draining, Working, Stored, Holding, LabelsSplit, CallerLabels,
         WorkerLabels, Outside, ItemsCounted, ItemsStay
  <1>1. CASE DrainEnter(t)
    <2>1. CASE Mine(t)
      BY <1>1, <1>0, <2>1 DEF DrainEnter
    <2>2. CASE ~Mine(t)
      <3>1. CASE t \in Callers
        BY <1>1, <1>0, <2>2, <3>1 DEF DrainEnter, AfterDrain
      <3>2. CASE t \in Workers
        <4>0. t \notin Callers
          BY <3>2
        <4>1. pc' = [pc EXCEPT ![t] = "retire"] /\ \A d \in Callers : pc'[d] = pc[d]
          BY <1>1, <1>0, <2>2, <3>2, <4>0 DEF DrainEnter, AfterDrain
        <4>2. UNCHANGED <<cursor, executed, jobEnd, snap, ran, args>>
          BY <1>1, <1>0, <2>2 DEF DrainEnter, AfterDrain
        <4>3. QED
          BY <1>0, <4>1, <4>2
      <3> QED
        BY <3>1, <3>2
    <2> QED
      BY <2>1, <2>2
  <1>2. CASE DrainLoad(t)
    BY <1>2, <1>0 DEF DrainLoad
  <1>3. CASE DrainLeave(t)
    <2>1. CASE t \in Callers
      BY <1>3, <1>0, <2>1 DEF DrainLeave, AfterDrain
    <2>2. CASE t \in Workers
      <3>0. t \notin Callers
        BY <2>2
      <3>1. pc' = [pc EXCEPT ![t] = "retire"] /\ \A d \in Callers : pc'[d] = pc[d]
        BY <1>3, <1>0, <2>2, <3>0 DEF DrainLeave, AfterDrain
      <3>2. UNCHANGED <<cursor, executed, jobEnd, snap, ran, args>>
        BY <1>3, <1>0 DEF DrainLeave, AfterDrain
      <3>3. QED
        BY <1>0, <3>1, <3>2
    <2> QED
      BY <2>1, <2>2
  <1>4. CASE CasFails(t)
    BY <1>4, <1>0 DEF CasFails
  <1>5. CASE Signal(t)
    BY <1>5, <1>0 DEF Signal
  <1>6. CASE DoneBroadcast(t)
    BY <1>6, <1>0 DEF DoneBroadcast
  <1> QED
    BY <1>1, <1>2, <1>3, <1>4, <1>5, <1>6 DEF Outside

LEMMA WorkerFrame ==
    ASSUME TypeOK, GateInv, JobInv, ItemInv,
           NEW w \in Workers, Work(w)
    PROVE  ItemsStay
  <1>0. LabelsSplit /\ ItemsCounted
    BY DEF GateInv, ItemInv
  <1> USE DEF TypeOK, ownerVars, syncVars, jobVars, lockVars, Goto, InPool, Unstamped, Rewriting,
         Admitted, Counted, Draining, Working, Stored, Holding, LabelsSplit, CallerLabels,
         WorkerLabels, Outside, ItemsCounted, ItemsStay
  <1>1. CASE SpinSees(w)
    BY <1>1, <1>0 DEF SpinSees
  <1>2. CASE SpinQuits(w)
    BY <1>2, <1>0 DEF SpinQuits
  <1>3. CASE SpinGivesUp(w)
    BY <1>3, <1>0 DEF SpinGivesUp
  <1>4. CASE Park(w)
    BY <1>4, <1>0 DEF Park
  <1>5. CASE Unpark(w)
    BY <1>5, <1>0 DEF Unpark
  <1>6. CASE ParkShort(w)
    BY <1>6, <1>0 DEF ParkShort
  <1>7. CASE ParkSleeps(w)
    BY <1>7, <1>0 DEF ParkSleeps
  <1>8. CASE ParkWakes(w)
    BY <1>8, <1>0 DEF ParkWakes
  <1>9. CASE Activate(w)
    BY <1>9, <1>0 DEF Activate
  <1>10. CASE GateCheck(w)
    BY <1>10, <1>0 DEF GateCheck
  <1>11. CASE JobCheck(w)
    BY <1>11, <1>0 DEF JobCheck
  <1>12. CASE Retire(w)
    BY <1>12, <1>0 DEF Retire
  <1> QED
    BY <1>1, <1>2, <1>3, <1>4, <1>5, <1>6, <1>7, <1>8, <1>9, <1>10, <1>11, <1>12 DEF Work

-----------------------------------------------------------------------------
(* The items: what the invariants say of a chunk, a cursor and a finished job. *)

\* The size of a range of items.
LEMMA IntervalSize ==
    ASSUME NEW a \in Nat, NEW b \in Nat, a <= b
    PROVE  IsFiniteSet(a .. b - 1) /\ Cardinality(a .. b - 1) = b - a
  <1>1. b - 1 \in Int /\ a \in Int
    OBVIOUS
  <1>2. /\ IsFiniteSet(a .. b - 1)
        /\ Cardinality(a .. b - 1) = IF a > b - 1 THEN 0 ELSE (b - 1) - a + 1
    BY <1>1, FS_Interval, Zenon
  <1>3. QED
    BY <1>2

\* pub_mtx lets one call in.
LEMMA OneInside ==
    ASSUME GateInv, NEW c \in Callers, NEW d \in Callers, pc[c] \in InPool, pc[d] \in InPool
    PROVE  c = d
  BY DEF GateInv, OnePublisher

\* Nobody runs a chunk while a job is being published.
LEMMA NoneDrains ==
    ASSUME GateInv, JobInv, NEW c \in Callers, pc[c] \in Rewriting \cup {"wake"}
    PROVE  \A t \in Threads : pc[t] \notin Draining
  <1>1. \A w \in Workers : pc[w] \notin Draining
    BY DEF JobInv, WorkersCurrent, Admitted
  <1>2. ASSUME NEW d \in Callers, pc[d] \in Draining PROVE FALSE
    <2>1. pc[c] \in InPool /\ pc[d] \in InPool /\ pc[c] # pc[d]
      BY <1>2 DEF InPool, Rewriting, Draining
    <2>2. QED
      BY <2>1, OneInside
  <1>3. QED
    BY <1>1, <1>2

\* A chunk is not empty, and as long as its bounds say.
LEMMA ChunkFacts ==
    ASSUME TypeOK, JobInv, NEW t \in Threads, pc[t] = "run"
    PROVE  /\ snap[t].pos \in Chunk(t)
           /\ Chunk(t) \subseteq 0 .. snap[t].next - 1
           /\ IsFiniteSet(Chunk(t))
           /\ Cardinality(Chunk(t)) = snap[t].next - snap[t].pos
  <1>1. snap[t].pos \in Nat /\ snap[t].next \in Nat /\ snap[t].pos < snap[t].next
    BY DEF TypeOK, JobInv, LocalsCurrent
  <1>2. Chunk(t) = snap[t].pos .. snap[t].next - 1
    BY DEF Chunk
  <1>3. IsFiniteSet(Chunk(t)) /\ Cardinality(Chunk(t)) = snap[t].next - snap[t].pos
    BY <1>1, <1>2, IntervalSize
  <1>4. QED
    BY <1>1, <1>2, <1>3

\* The cursor of a published job stays within the job.
LEMMA CursorWithin ==
    ASSUME TypeOK, GateInv, JobInv, NEW c \in Callers, pc[c] \in Working
    PROVE  cursor.pos \in Nat /\ args[c].n \in Nat /\ cursor.pos <= args[c].n /\ jobEnd = args[c].n
  <1>1. \A d \in Callers : pc[d] \notin Stored
    <2> SUFFICES ASSUME NEW d \in Callers, pc[d] \in Stored PROVE FALSE
      OBVIOUS
    <2>1. pc[c] \in InPool /\ pc[d] \in InPool /\ pc[c] # pc[d]
      BY DEF InPool, Working, Stored, Unstamped, Rewriting
    <2>2. QED
      BY <2>1, OneInside
  <1>2. jobEnd = args[c].n
    BY DEF JobInv, PublisherInside
  <1>3. QED
    BY <1>1, <1>2 DEF TypeOK, JobInv, BlockCurrent

\* Once executed has reached n_items every item was run and nobody runs one.
LEMMA JobDone ==
    ASSUME TypeOK, GateInv, JobInv, ItemInv, NEW c \in Callers, pc[c] \in Working,
           executed >= args[c].n
    PROVE  /\ ran[c] = 0 .. args[c].n - 1
           /\ cursor.pos = jobEnd
           /\ \A t \in Threads : pc[t] # "run"
  <1> DEFINE n == args[c].n
  <1>1. cursor.pos \in Nat /\ n \in Nat /\ cursor.pos <= n /\ jobEnd = n
    BY CursorWithin
  <1>2. ran[c] \subseteq 0 .. cursor.pos - 1 /\ executed = Cardinality(ran[c])
    BY DEF ItemInv, ItemsCounted
  <1>3. ran[c] \in SUBSET (0 .. n - 1)
    BY <1>1, <1>2
  <1>4. IsFiniteSet(0 .. n - 1) /\ Cardinality(0 .. n - 1) = n
    BY <1>1, IntervalSize
  <1>5. /\ Cardinality(ran[c]) <= Cardinality(0 .. n - 1)
        /\ Cardinality(0 .. n - 1) = Cardinality(ran[c]) => 0 .. n - 1 = ran[c]
    BY <1>3, <1>4, FS_Subset, Zenon
  <1>6. Cardinality(ran[c]) \in Nat
    BY <1>3, <1>4, FS_Subset, FS_CardinalityType
  <1>7. ran[c] = 0 .. n - 1
    BY <1>1, <1>2, <1>4, <1>5, <1>6
  <1>8. cursor.pos = n
    <2>1. CASE n = 0
      BY <1>1, <2>1
    <2>2. CASE n > 0
      <3>1. n - 1 \in ran[c]
        BY <1>1, <1>7, <2>2
      <3>2. QED
        BY <1>1, <1>2, <3>1
    <2>3. QED
      BY <1>1, <2>1, <2>2
  <1>9. ASSUME NEW t \in Threads, pc[t] = "run" PROVE FALSE
    <2>1. snap[t].pos \in Chunk(t) /\ Chunk(t) \subseteq 0 .. snap[t].next - 1
      BY <1>9, ChunkFacts
    <2>2. snap[t].next <= cursor.pos /\ snap[t].next \in Nat
      BY <1>9 DEF ItemInv, ChunksClaimed, TypeOK
    <2>3. snap[t].pos \in ran[c]
      BY <1>1, <1>7, <2>1, <2>2
    <2>4. Chunk(t) \cap ran[c] = {}
      BY <1>9 DEF ItemInv, ItemsCounted
    <2>5. QED
      BY <2>1, <2>3, <2>4
  <1>10. QED
    BY <1>1, <1>7, <1>8, <1>9

\* A thread at its exchange that succeeds serves a call that still waits.
LEMMA ClaimServesCall ==
    ASSUME TypeOK, GateInv, JobInv, ItemInv, NEW t \in Threads, CasClaims(t)
    PROVE  \E c \in Callers : pc[c] \in Working \ {"close"}
  <1>1. cursor.pos = snap[t].pos /\ snap[t].pos < jobEnd /\ pc[t] = "cas"
    BY DEF CasClaims, TypeOK, JobInv, LocalsCurrent, Holding
  <1>2. ~ \E c \in Callers : pc[c] \in Stored
    <2> SUFFICES ASSUME NEW c \in Callers, pc[c] \in Stored PROVE FALSE
      OBVIOUS
    <2>1. pc[c] \in Rewriting \cup {"wake"}
      BY DEF Stored, Rewriting
    <2>2. QED
      BY <1>1, <2>1, NoneDrains DEF Draining
  <1>3. PICK c \in Callers : pc[c] \in Working
    BY <1>1, <1>2 DEF ItemInv, Exhaustion, TypeOK
  <1>4. pc[c] # "close"
    <2> SUFFICES ASSUME pc[c] = "close" PROVE FALSE
      OBVIOUS
    <2>1. ran[c] = 0 .. args[c].n - 1 /\ ran[c] \subseteq 0 .. cursor.pos - 1
      BY <1>3 DEF ItemInv, ItemsCounted
    <2>2. cursor.pos \in Nat /\ args[c].n \in Nat /\ jobEnd = args[c].n
      BY <1>3, CursorWithin
    <2>3. cursor.pos < args[c].n
      BY <1>1, <2>2 DEF TypeOK
    <2>4. cursor.pos \in ran[c]
      BY <2>1, <2>2, <2>3
    <2>5. QED
      BY <2>1, <2>2, <2>4
  <1>5. QED
    BY <1>3, <1>4

-----------------------------------------------------------------------------
(* The items: steps that publish a job, leave it, claim a chunk, end one.   *)

\* Publishing: nobody runs, and the items of the call are all to do.
LEMMA PublishItems ==
    ASSUME TypeOK, GateInv, JobInv, ItemInv, NEW c \in Callers,
           PubFields(c) \/ PubCursor(c) \/ PubWake(c)
    PROVE  ItemInv'
  <1>0. pc[c] \in {"store", "cursor", "wake"} /\ pubMtx = c
    BY DEF PubFields, PubCursor, PubWake, GateInv, OnePublisher, InPool, Rewriting
  <1>1. /\ pc' = [pc EXCEPT ![c] = CASE pc[c] = "store" -> "cursor"
                                     [] pc[c] = "cursor" -> "stamp"
                                     [] pc[c] = "wake" -> "drain"]
        /\ ran' = ran /\ args' = args
    BY DEF PubFields, PubCursor, PubWake, Goto
  <1>2. \A t \in Threads : pc'[t] # "run"
    <2>1. \A t \in Threads : pc[t] # "run"
      BY <1>0, NoneDrains DEF Rewriting, Draining
    <2>2. QED
      BY <1>0, <1>1, <2>1 DEF TypeOK
  <1>3. \A d \in Callers \ {c} : pc'[d] = pc[d] /\ pc[d] \notin InPool
    BY <1>0, <1>1 DEF TypeOK, GateInv, OnePublisher
  <1>4. ran[c] = {}
    BY <1>0 DEF ItemInv, ItemsCounted, Unstamped
  <1>5. Exhaustion'
    <2>1. pc'[c] \in Working \cup Stored
      BY <1>0, <1>1 DEF TypeOK, Working, Stored, InPool, Draining, Unstamped
    <2>2. QED
      BY <2>1 DEF Exhaustion
  <1>6. executed' = 0
    <2>1. CASE PubFields(c)
      BY <2>1 DEF PubFields
    <2>2. CASE PubCursor(c) \/ PubWake(c)
      BY <2>2 DEF PubCursor, PubWake, jobVars, ItemInv, ItemsCounted, Stored
    <2>3. QED
      BY <2>1, <2>2
  <1>7. ItemsCounted'
    <2> SUFFICES ASSUME NEW d \in Callers
                 PROVE  /\ pc'[d] \in Outside \cup Unstamped => ran'[d] = {}
                        /\ pc'[d] \in Stored => executed' = 0
                        /\ pc'[d] \in Working =>
                              /\ ran'[d] \subseteq 0 .. cursor'.pos - 1
                              /\ executed' = Cardinality(ran'[d])
                              /\ \A t \in Threads : pc'[t] = "run" => Chunk(t)' \cap ran'[d] = {}
                        /\ pc'[d] \in {"close", "return"} => ran'[d] = 0 .. args'[d].n - 1
      BY Zenon DEF ItemsCounted
    <2>1. CASE d = c
      <3>1. ran'[d] = {} /\ executed' = Cardinality(ran'[d])
        BY <1>1, <1>4, <1>6, <2>1, FS_EmptySet
      <3>2. pc'[d] \in {"cursor", "stamp", "drain"}
        BY <1>0, <1>1, <2>1 DEF TypeOK
      <3>3. QED
        BY <1>2, <1>6, <3>1, <3>2
    <2>2. CASE d # c
      <3>1. pc'[d] = pc[d] /\ pc[d] \notin Working /\ pc[d] \notin Stored /\ pc[d] # "close"
        BY <1>3, <2>2 DEF Working, Stored, InPool, Rewriting
      <3>2. /\ pc[d] \in Outside \cup Unstamped => ran[d] = {}
            /\ pc[d] = "return" => ran[d] = 0 .. args[d].n - 1
        BY DEF ItemInv, ItemsCounted
      <3>3. QED
        BY <1>1, <3>1, <3>2
    <2>3. QED
      BY <2>1, <2>2
  <1>8. QED
    BY <1>2, <1>5, <1>7 DEF ItemInv, ChunksClaimed

\* Leaving: every item was run, and nobody runs one.
LEMMA LeaveItems ==
    ASSUME TypeOK, GateInv, JobInv, ItemInv, NEW c \in Callers,
           WaitSpins(c) \/ WaitOver(c) \/ PubClose(c)
    PROVE  ItemInv'
  <1>0. pc[c] \in {"wait", "wcheck", "close"} /\ pc[c] \in Working /\ pubMtx = c
    BY DEF WaitSpins, WaitOver, PubClose, GateInv, OnePublisher, InPool, Working, Unstamped,
           Rewriting, Draining
  <1>1. /\ pc' = [pc EXCEPT ![c] = IF pc[c] = "close" THEN "return" ELSE "close"]
        /\ UNCHANGED <<cursor, executed, jobEnd, snap, ran, args>>
    BY DEF WaitSpins, WaitOver, PubClose, Goto, jobVars
  <1>2. executed >= args[c].n
    <2>1. CASE pc[c] = "close"
      <3>1. ran[c] = 0 .. args[c].n - 1 /\ executed = Cardinality(ran[c])
        BY <1>0, <2>1 DEF ItemInv, ItemsCounted
      <3>2. args[c].n \in Nat
        BY DEF TypeOK
      <3>3. Cardinality(0 .. args[c].n - 1) = args[c].n
        <4>1. Cardinality(0 .. args[c].n - 1) = args[c].n - 0
          BY <3>2, IntervalSize
        <4>2. QED
          BY <3>2, <4>1
      <3>4. QED
        BY <3>1, <3>2, <3>3
    <2>2. CASE pc[c] # "close"
      BY <2>2 DEF WaitSpins, WaitOver, PubClose, Complete
    <2>3. QED
      BY <2>1, <2>2
  <1>3. /\ ran[c] = 0 .. args[c].n - 1
        /\ cursor.pos = jobEnd
        /\ \A t \in Threads : pc[t] # "run"
    BY <1>0, <1>2, JobDone
  <1>4. \A t \in Threads : pc'[t] # "run"
    BY <1>0, <1>1, <1>3 DEF TypeOK
  <1>5. \A d \in Callers \ {c} : pc'[d] = pc[d] /\ pc[d] \notin InPool
    BY <1>0, <1>1 DEF TypeOK, GateInv, OnePublisher
  <1>6. ItemsCounted'
    <2> SUFFICES ASSUME NEW d \in Callers
                 PROVE  /\ pc'[d] \in Outside \cup Unstamped => ran'[d] = {}
                        /\ pc'[d] \in Stored => executed' = 0
                        /\ pc'[d] \in Working =>
                              /\ ran'[d] \subseteq 0 .. cursor'.pos - 1
                              /\ executed' = Cardinality(ran'[d])
                              /\ \A t \in Threads : pc'[t] = "run" => Chunk(t)' \cap ran'[d] = {}
                        /\ pc'[d] \in {"close", "return"} => ran'[d] = 0 .. args'[d].n - 1
      BY Zenon DEF ItemsCounted
    <2>1. CASE d = c
      <3>1. pc'[d] \in {"close", "return"}
        BY <1>1, <2>1 DEF TypeOK
      <3>2. ran[d] \subseteq 0 .. cursor.pos - 1 /\ executed = Cardinality(ran[d])
        BY <1>0, <2>1 DEF ItemInv, ItemsCounted
      <3>3. QED
        BY <1>1, <1>3, <1>4, <2>1, <3>1, <3>2 DEF Outside, Unstamped, Stored
    <2>2. CASE d # c
      <3>1. pc'[d] = pc[d] /\ pc[d] \notin Working /\ pc[d] \notin Stored /\ pc[d] # "close"
        BY <1>5, <2>2 DEF Working, Stored, InPool, Rewriting
      <3>2. /\ pc[d] \in Outside \cup Unstamped => ran[d] = {}
            /\ pc[d] = "return" => ran[d] = 0 .. args[d].n - 1
        BY DEF ItemInv, ItemsCounted
      <3>3. QED
        BY <1>1, <3>1, <3>2
    <2>3. QED
      BY <2>1, <2>2
  <1>7. Exhaustion'
    BY <1>1, <1>3 DEF Exhaustion
  <1>8. QED
    BY <1>4, <1>6, <1>7 DEF ItemInv, ChunksClaimed

\* A claim takes the items between the old and the new cursor: none of them
\* was run, and none is in another thread's chunk.
LEMMA ClaimItems ==
    ASSUME TypeOK, GateInv, JobInv, ItemInv, NEW t \in Threads, CasClaims(t)
    PROVE  ItemInv'
  <1>1. /\ pc[t] = "cas" /\ pc' = [pc EXCEPT ![t] = "run"]
        /\ cursor.pos = snap[t].pos /\ cursor'.pos = snap[t].next
        /\ UNCHANGED <<executed, jobEnd, snap, ran, args>>
    BY DEF CasClaims, Goto
  <1>2. snap[t].pos \in Nat /\ snap[t].next \in Nat /\ snap[t].pos < snap[t].next
    BY <1>1 DEF TypeOK, JobInv, LocalsCurrent
  <1>3. PICK c \in Callers : pc[c] \in Working \ {"close"}
    BY ClaimServesCall
  <1>4. \A d \in Callers : /\ pc'[d] \in Working <=> pc[d] \in Working
                           /\ pc'[d] = "close" <=> pc[d] = "close"
                           /\ pc'[d] \in Stored <=> pc[d] \in Stored
                           /\ pc'[d] \in Outside \cup Unstamped <=> pc[d] \in Outside \cup Unstamped
                           /\ pc'[d] \in {"close", "return"} <=> pc[d] \in {"close", "return"}
    BY <1>1 DEF TypeOK, Working, Stored, Outside, Unstamped, InPool, Draining, Rewriting
  <1>5. \A u \in Threads : /\ Chunk(u)' = Chunk(u)
                           /\ pc'[u] = "run" <=> (u = t \/ pc[u] = "run")
    BY <1>1 DEF Chunk, TypeOK
  <1>6. \A i \in Chunk(t) : i \in Nat /\ cursor.pos <= i /\ i < cursor'.pos
    BY <1>1, <1>2 DEF Chunk
  <1>7. ASSUME NEW u \in Threads \ {t}, pc[u] = "run"
        PROVE  Chunk(t) \cap Chunk(u) = {} /\ Chunk(u) \cap Chunk(t) = {}
    <2>1. Chunk(u) \subseteq 0 .. snap[u].next - 1 /\ snap[u].next <= cursor.pos
      BY <1>7, ChunkFacts DEF ItemInv, ChunksClaimed
    <2>2. snap[u].next \in Nat /\ cursor.pos \in Nat
      BY DEF TypeOK
    <2>3. \A i \in Chunk(u) : i < cursor.pos
      BY <2>1, <2>2
    <2>4. QED
      BY <1>6, <2>2, <2>3
  <1>8. Exhaustion'
    BY <1>3, <1>4 DEF Exhaustion
  <1>9. ChunksClaimed'
    <2> SUFFICES ASSUME NEW u \in Threads, pc'[u] = "run"
                 PROVE  /\ \E d \in Callers : pc'[d] \in Working \ {"close"}
                        /\ snap'[u].next <= cursor'.pos
                        /\ \A v \in Threads \ {u} : pc'[v] = "run" => Chunk(u)' \cap Chunk(v)' = {}
      BY Zenon DEF ChunksClaimed
    <2>1. \E d \in Callers : pc'[d] \in Working \ {"close"}
      BY <1>3, <1>4
    <2>2. snap'[u].next <= cursor'.pos
      <3>1. CASE u = t
        BY <1>1, <1>2, <3>1
      <3>2. CASE u # t
        <4>1. pc[u] = "run" /\ snap[u].next <= cursor.pos
          BY <1>5, <3>2 DEF ItemInv, ChunksClaimed
        <4>2. snap[u].next \in Nat
          BY DEF TypeOK
        <4>3. QED
          BY <1>1, <1>2, <4>1, <4>2
      <3>3. QED
        BY <3>1, <3>2
    <2>3. ASSUME NEW v \in Threads \ {u}, pc'[v] = "run"
          PROVE  Chunk(u)' \cap Chunk(v)' = {}
      <3>1. CASE u = t
        BY <1>5, <1>7, <2>3, <3>1
      <3>2. CASE v = t
        BY <1>5, <1>7, <2>3, <3>2
      <3>3. CASE u # t /\ v # t
        BY <1>5, <2>3, <3>3 DEF ItemInv, ChunksClaimed
      <3>4. QED
        BY <3>1, <3>2, <3>3
    <2>4. QED
      BY <2>1, <2>2, <2>3
  <1>10. ItemsCounted'
    <2> SUFFICES ASSUME NEW d \in Callers
                 PROVE  /\ pc'[d] \in Outside \cup Unstamped => ran'[d] = {}
                        /\ pc'[d] \in Stored => executed' = 0
                        /\ pc'[d] \in Working =>
                              /\ ran'[d] \subseteq 0 .. cursor'.pos - 1
                              /\ executed' = Cardinality(ran'[d])
                              /\ \A u \in Threads : pc'[u] = "run" => Chunk(u)' \cap ran'[d] = {}
                        /\ pc'[d] \in {"close", "return"} => ran'[d] = 0 .. args'[d].n - 1
      BY Zenon DEF ItemsCounted
    <2>1. /\ pc'[d] \in Outside \cup Unstamped => ran'[d] = {}
          /\ pc'[d] \in Stored => executed' = 0
          /\ pc'[d] \in {"close", "return"} => ran'[d] = 0 .. args'[d].n - 1
      BY <1>1, <1>4 DEF ItemInv, ItemsCounted
    <2>2. ASSUME pc'[d] \in Working
          PROVE  /\ ran'[d] \subseteq 0 .. cursor'.pos - 1
                 /\ executed' = Cardinality(ran'[d])
                 /\ \A u \in Threads : pc'[u] = "run" => Chunk(u)' \cap ran'[d] = {}
      <3>1. /\ ran[d] \subseteq 0 .. cursor.pos - 1
            /\ executed = Cardinality(ran[d])
            /\ \A u \in Threads : pc[u] = "run" => Chunk(u) \cap ran[d] = {}
        BY <1>4, <2>2 DEF ItemInv, ItemsCounted
      <3>2. ran'[d] \subseteq 0 .. cursor'.pos - 1
        BY <1>1, <1>2, <3>1
      <3>3. Chunk(t) \cap ran[d] = {}
        BY <1>1, <1>2, <1>6, <3>1
      <3>4. QED
        BY <1>1, <1>5, <3>1, <3>2, <3>3
    <2>3. QED
      BY <2>1, <2>2
  <1>11. QED
    BY <1>8, <1>9, <1>10 DEF ItemInv

\* The end of a chunk: its items move from the chunk to the items run.
LEMMA DoneItems ==
    ASSUME TypeOK, GateInv, JobInv, ItemInv, NEW t \in Threads, ChunkDone(t)
    PROVE  ItemInv'
  <1>1. PICK c \in Callers : pc[c] \in Working \ {"close"}
    BY DEF ChunkDone, ItemInv, ChunksClaimed
  <1>2. loc[t].ctx = c
    BY <1>1 DEF ChunkDone, JobInv, LocalsCurrent, PublisherInside, Holding
  <1>3. /\ pc[t] = "run" /\ \E l \in {"signal", "claim"} : pc' = [pc EXCEPT ![t] = l]
        /\ executed' = executed + (snap[t].next - snap[t].pos)
        /\ ran' = [ran EXCEPT ![c] = ran[c] \cup Chunk(t)]
        /\ \A u \in Threads \ {t} : snap'[u] = snap[u]
        /\ UNCHANGED <<cursor, jobEnd, args>>
    BY <1>2 DEF ChunkDone, Goto, TypeOK
  <1>4. \A d \in Callers : /\ pc'[d] \in Working <=> pc[d] \in Working
                           /\ pc'[d] = "close" <=> pc[d] = "close"
                           /\ pc'[d] \in Stored <=> pc[d] \in Stored
                           /\ pc'[d] \in Outside \cup Unstamped <=> pc[d] \in Outside \cup Unstamped
                           /\ pc'[d] \in {"close", "return"} <=> pc[d] \in {"close", "return"}
    BY <1>3 DEF TypeOK, Working, Stored, Outside, Unstamped, InPool, Draining, Rewriting
  <1>5. \A u \in Threads : pc'[u] = "run" => u # t /\ pc[u] = "run" /\ Chunk(u)' = Chunk(u)
    BY <1>3 DEF Chunk, TypeOK
  <1>6. \A d \in Callers : d # c => pc[d] \notin Working /\ pc[d] \notin Stored /\ pc[d] # "close"
    <2>1. pc[c] \in InPool
      BY <1>1 DEF Working
    <2>2. ASSUME NEW d \in Callers, pc[d] \in InPool PROVE d = c
      BY <2>1, <2>2, OneInside
    <2>3. QED
      BY <2>2 DEF Working, Stored, InPool, Rewriting
  <1>7. Exhaustion'
    BY <1>1, <1>4 DEF Exhaustion
  <1>8. ChunksClaimed'
    <2> SUFFICES ASSUME NEW u \in Threads, pc'[u] = "run"
                 PROVE  /\ \E d \in Callers : pc'[d] \in Working \ {"close"}
                        /\ snap'[u].next <= cursor'.pos
                        /\ \A v \in Threads \ {u} : pc'[v] = "run" => Chunk(u)' \cap Chunk(v)' = {}
      BY Zenon DEF ChunksClaimed
    <2>1. \E d \in Callers : pc'[d] \in Working \ {"close"}
      BY <1>1, <1>4
    <2>2. snap'[u].next <= cursor'.pos
      BY <1>3, <1>5 DEF ItemInv, ChunksClaimed
    <2>3. ASSUME NEW v \in Threads \ {u}, pc'[v] = "run"
          PROVE  Chunk(u)' \cap Chunk(v)' = {}
      BY <1>5, <2>3 DEF ItemInv, ChunksClaimed
    <2>4. QED
      BY <2>1, <2>2, <2>3
  <1>9. /\ ran[c] \subseteq 0 .. cursor.pos - 1 /\ executed = Cardinality(ran[c])
        /\ \A u \in Threads : pc[u] = "run" => Chunk(u) \cap ran[c] = {}
    BY <1>1 DEF ItemInv, ItemsCounted
  <1>10. ran'[c] = ran[c] \cup Chunk(t) /\ \A d \in Callers : d # c => ran'[d] = ran[d]
    BY <1>3 DEF TypeOK
  <1>11. executed' = Cardinality(ran'[c])
    <2>1. IsFiniteSet(Chunk(t)) /\ Cardinality(Chunk(t)) = snap[t].next - snap[t].pos
      BY <1>3, ChunkFacts
    <2>2. IsFiniteSet(ran[c])
      <3>1. 0 \in Int /\ cursor.pos - 1 \in Int
        BY DEF TypeOK
      <3>2. IsFiniteSet(0 .. cursor.pos - 1)
        BY <3>1, FS_Interval, Zenon
      <3>3. QED
        BY <1>9, <3>2, FS_Subset
    <2>3. ran[c] \cap Chunk(t) = {}
      BY <1>3, <1>9
    <2>4. Cardinality(ran[c] \cup Chunk(t)) = Cardinality(ran[c]) + Cardinality(Chunk(t))
      <3>1. Cardinality(ran[c] \cap Chunk(t)) = 0
        BY <2>3, FS_EmptySet
      <3>2. Cardinality(ran[c] \cup Chunk(t)) =
                Cardinality(ran[c]) + Cardinality(Chunk(t)) - Cardinality(ran[c] \cap Chunk(t))
        BY <2>1, <2>2, FS_Union, Zenon
      <3>3. Cardinality(ran[c]) \in Nat /\ Cardinality(Chunk(t)) \in Nat
        BY <2>1, <2>2, FS_CardinalityType
      <3>4. QED
        BY <3>1, <3>2, <3>3
    <2>5. QED
      BY <1>3, <1>9, <1>10, <2>1, <2>4
  <1>12. ran'[c] \subseteq 0 .. cursor'.pos - 1
    <2>1. Chunk(t) \subseteq 0 .. snap[t].next - 1 /\ snap[t].next <= cursor.pos
      BY <1>3, ChunkFacts DEF ItemInv, ChunksClaimed
    <2>2. snap[t].next \in Nat /\ cursor.pos \in Nat
      BY DEF TypeOK
    <2>3. QED
      BY <1>3, <1>9, <1>10, <2>1, <2>2
  <1>13. \A u \in Threads : pc'[u] = "run" => Chunk(u)' \cap ran'[c] = {}
    <2> SUFFICES ASSUME NEW u \in Threads, pc'[u] = "run" PROVE Chunk(u)' \cap ran'[c] = {}
      OBVIOUS
    <2>1. pc[u] = "run" /\ u # t /\ Chunk(u)' = Chunk(u)
      BY <1>5
    <2>2. Chunk(u) \cap Chunk(t) = {}
      BY <1>3, <2>1 DEF ItemInv, ChunksClaimed
    <2>3. QED
      BY <1>9, <1>10, <2>1, <2>2
  <1>14. ItemsCounted'
    <2> SUFFICES ASSUME NEW d \in Callers
                 PROVE  /\ pc'[d] \in Outside \cup Unstamped => ran'[d] = {}
                        /\ pc'[d] \in Stored => executed' = 0
                        /\ pc'[d] \in Working =>
                              /\ ran'[d] \subseteq 0 .. cursor'.pos - 1
                              /\ executed' = Cardinality(ran'[d])
                              /\ \A u \in Threads : pc'[u] = "run" => Chunk(u)' \cap ran'[d] = {}
                        /\ pc'[d] \in {"close", "return"} => ran'[d] = 0 .. args'[d].n - 1
      BY Zenon DEF ItemsCounted
    <2>1. CASE d = c
      <3>1. pc'[c] \in Working /\ pc'[c] # "close"
        BY <1>1, <1>4
      <3>2. QED
        BY <1>11, <1>12, <1>13, <2>1, <3>1
           DEF Working, Outside, Unstamped, Stored, InPool, Rewriting, Draining
    <2>2. CASE d # c
      <3>1. pc[d] \notin Working /\ pc[d] \notin Stored /\ pc[d] # "close"
        BY <1>6, <2>2
      <3>2. /\ pc[d] \in Outside \cup Unstamped => ran[d] = {}
            /\ pc[d] = "return" => ran[d] = 0 .. args[d].n - 1
        BY DEF ItemInv, ItemsCounted
      <3>3. QED
        BY <1>3, <1>4, <1>10, <2>2, <3>1, <3>2
    <2>3. QED
      BY <2>1, <2>2
  <1>15. QED
    BY <1>7, <1>8, <1>14 DEF ItemInv

-----------------------------------------------------------------------------
(* Chunks stay within their call, and items run once.                       *)

LEMMA JobInit == Init => JobInv /\ ItemInv
  <1> SUFFICES ASSUME Init PROVE JobInv /\ ItemInv
    OBVIOUS
  <1>1. /\ \A c \in Callers : pc[c] = "idle"
        /\ \A w \in Workers : pc[w] = "unborn"
        /\ \A t \in Threads : pc[t] \in {"idle", "unborn"}
    BY DEF Init
  <1>2. cursor.ep = epoch /\ cursor.pos = jobEnd /\ jobEnd = 0 /\ \A c \in Callers : ran[c] = {}
    BY DEF Init
  <1>3. JobInv
    BY <1>1, <1>2 DEF JobInv, PublisherInside, WorkersCurrent, BlockCurrent, LocalsCurrent,
           InPool, Working,
           Stored, Holding, Admitted, Draining, Rewriting, Unstamped
  <1>4. ItemInv
    BY <1>1, <1>2 DEF ItemInv, Exhaustion, ChunksClaimed, ItemsCounted, InPool, Working,
           Stored, Draining, Rewriting, Unstamped
  <1>5. QED
    BY <1>3, <1>4

LEMMA JobNext == ASSUME TypeOK, GateInv, JobInv, [Next]_vars PROVE JobInv'
  <1>1. CASE Owner
    BY <1>1, OwnerJob
  <1>2. ASSUME NEW c \in Callers, Call(c) \/ Publish(c) \/ Await(c) PROVE JobInv'
    BY <1>2, CallerJob
  <1>3. ASSUME NEW c \in Callers, Drain(c) PROVE JobInv'
    BY <1>3, CallerDrainJob
  <1>4. ASSUME NEW w \in Workers, Drain(w) PROVE JobInv'
    BY <1>4, WorkerDrainJob
  <1>5. ASSUME NEW w \in Workers, Work(w) PROVE JobInv'
    BY <1>5, WorkerJob
  <1>6. CASE SpuriousWakeup \/ UNCHANGED vars
    <2>1. UNCHANGED <<ownerVars, syncVars, jobVars, pc, ep, args, loc, snap>>
      BY <1>6 DEF SpuriousWakeup, vars
    <2>2. QED
      BY <2>1 DEF ownerVars, syncVars, jobVars, JobInv, PublisherInside, WorkersCurrent,
             BlockCurrent, LocalsCurrent
  <1>7. QED
    BY <1>1, <1>2, <1>3, <1>4, <1>5, <1>6 DEF Next, Terminated

LEMMA ItemNext == ASSUME TypeOK, GateInv, JobInv, ItemInv, [Next]_vars PROVE ItemInv'
  <1>1. CASE Owner
    BY <1>1, OwnerFrame, SameItems
  <1>2. ASSUME NEW c \in Callers, Call(c) \/ Publish(c) \/ Await(c) PROVE ItemInv'
    <2>1. CASE PubFields(c) \/ PubCursor(c) \/ PubWake(c)
      BY <2>1, PublishItems
    <2>2. CASE WaitSpins(c) \/ WaitOver(c) \/ PubClose(c)
      BY <2>2, LeaveItems
    <2>3. CASE ~(\/ PubFields(c) \/ PubCursor(c) \/ PubWake(c)
                 \/ WaitSpins(c) \/ WaitOver(c) \/ PubClose(c))
      BY <1>2, <2>3, CallerFrame, SameItems DEF Publish, Await
    <2>4. QED
      BY <2>1, <2>2, <2>3
  <1>3. ASSUME NEW t \in Threads, Drain(t) PROVE ItemInv'
    <2>1. CASE CasClaims(t)
      BY <2>1, ClaimItems
    <2>2. CASE ChunkDone(t)
      BY <2>2, DoneItems
    <2>3. CASE ~(CasClaims(t) \/ ChunkDone(t))
      BY <1>3, <2>3, DrainFrame, SameItems DEF Drain
    <2>4. QED
      BY <2>1, <2>2, <2>3
  <1>5. ASSUME NEW w \in Workers, Work(w) PROVE ItemInv'
    BY <1>5, WorkerFrame, SameItems
  <1>6. CASE SpuriousWakeup \/ UNCHANGED vars
    <2>1. UNCHANGED <<jobVars, pc, args, snap, ran>>
      BY <1>6 DEF SpuriousWakeup, vars
    <2>2. QED
      BY <2>1 DEF jobVars, ItemInv, Exhaustion, ChunksClaimed, ItemsCounted, Chunk
  <1>7. QED
    BY <1>1, <1>2, <1>3, <1>5, <1>6 DEF Next, Terminated

\* The job block, the locals read from it and the items run stay in step with
\* the call in progress (threadpool.c:243-275, 478-505).
THEOREM JobCorrect == Spec => [](JobInv /\ ItemInv)
  <1>1. Init => JobInv /\ ItemInv
    BY JobInit
  <1>2. TypeOK /\ GateInv /\ JobInv /\ ItemInv /\ [Next]_vars => (JobInv /\ ItemInv)'
    BY JobNext, ItemNext
  <1>3. QED
    BY <1>1, <1>2, TypeCorrect, GateCorrect, PTL DEF Spec

\* The thread in a chunk serves the call in progress.
LEMMA RunnerServes ==
    ASSUME TypeOK, GateInv, JobInv, ItemInv, NEW t \in Threads, pc[t] = "run"
    PROVE  /\ loc[t].ctx \in Callers /\ loc[t].ctx = pubMtx
           /\ pc[loc[t].ctx] \in Working \ {"close"}
           /\ ep[t] = ep[loc[t].ctx] /\ loc[t].end = args[loc[t].ctx].n
  <1>1. PICK c \in Callers : pc[c] \in Working \ {"close"}
    BY DEF ItemInv, ChunksClaimed
  <1>2. pc[c] \in InPool /\ pubMtx = c
    BY <1>1 DEF Working, GateInv, OnePublisher
  <1>3. loc[t].ctx = c /\ loc[t].end = args[c].n /\ ep[c] = epoch
    BY <1>1 DEF JobInv, LocalsCurrent, PublisherInside, Holding
  <1>4. ep[t] = epoch
    <2>1. CASE t \in Callers
      <3>1. pc[t] \in InPool
        BY DEF InPool, Draining
      <3>2. QED
        BY <1>2, <1>3, <2>1, <3>1, OneInside
    <2>2. CASE t \in Workers
      BY <2>2 DEF JobInv, WorkersCurrent, Admitted, Draining
    <2>3. QED
      BY <2>1, <2>2
  <1>5. QED
    BY <1>1, <1>2, <1>3, <1>4

\* No chunk outlives its call (threadpool.c:264, 499-505).
THEOREM ContextOutlives == Spec => []ContextAlive
  <1>1. TypeOK /\ GateInv /\ JobInv /\ ItemInv => ContextAlive
    <2> SUFFICES ASSUME TypeOK, GateInv, JobInv, ItemInv, NEW t \in Threads, pc[t] = "run"
                 PROVE  LET c == loc[t].ctx
                        IN  /\ c \in Callers /\ c = pubMtx /\ ep[t] = ep[c]
                            /\ loc[t].end = args[c].n /\ inJob
                            /\ pc[c] \notin Rewriting \cup {"close"}
      BY DEF ContextAlive
    <2>1. inJob /\ pc[loc[t].ctx] \notin Rewriting
      BY RunnerServes DEF JobInv, PublisherInside, Working, Unstamped, Rewriting
    <2>2. QED
      BY <2>1, RunnerServes
  <1>2. QED
    BY <1>1, TypeCorrect, GateCorrect, JobCorrect, PTL

\* Every item of a call runs once, and all have run when the call returns
\* (threadpool.c:250-273, 208-233).
THEOREM ItemsRunOnce == Spec => []ExactlyOnce
  <1>1. TypeOK /\ GateInv /\ JobInv /\ ItemInv => ExactlyOnce
    <2> SUFFICES ASSUME TypeOK, GateInv, JobInv, ItemInv PROVE ExactlyOnce
      OBVIOUS
    <2>1. ASSUME NEW t \in Threads, pc[t] = "run"
          PROVE  /\ Chunk(t) # {}
                 /\ Chunk(t) \cap ran[loc[t].ctx] = {}
                 /\ \A u \in Threads \ {t} : pc[u] = "run" => Chunk(t) \cap Chunk(u) = {}
      <3>1. Chunk(t) # {}
        BY <2>1, ChunkFacts
      <3>2. Chunk(t) \cap ran[loc[t].ctx] = {}
        BY <2>1, RunnerServes DEF ItemInv, ItemsCounted
      <3>3. QED
        BY <2>1, <3>1, <3>2 DEF ItemInv, ChunksClaimed
    <2>2. QED
      BY <2>1 DEF ExactlyOnce, ItemInv, ItemsCounted
  <1>2. QED
    BY <1>1, TypeCorrect, GateCorrect, JobCorrect, PTL

-----------------------------------------------------------------------------
(* No lost wakeup of a publisher, and none of a worker.                      *)

\* Items run never exceed the items of the call.
LEMMA DoneWithin ==
    ASSUME TypeOK, GateInv, JobInv, ItemInv, NEW t \in Threads, ChunkDone(t),
           NEW c \in Callers, pc[c] \in Working \ {"close"}
    PROVE  /\ loc[t].end = args[c].n /\ args[c].n \in Nat
           /\ executed' <= args[c].n
  <1>1. cursor.pos \in Nat /\ args[c].n \in Nat /\ cursor.pos <= args[c].n /\ jobEnd = args[c].n
    BY CursorWithin
  <1>2. pc'[c] \in Working /\ cursor' = cursor
    BY DEF ChunkDone, Goto, TypeOK, Working, InPool, Draining, Unstamped
  <1>3. executed' = Cardinality(ran'[c]) /\ ran'[c] \subseteq 0 .. cursor.pos - 1
    BY <1>2, DoneItems DEF ItemInv, ItemsCounted
  <1>4. ran'[c] \in SUBSET (0 .. args[c].n - 1)
    BY <1>1, <1>3
  <1>5. IsFiniteSet(0 .. args[c].n - 1) /\ Cardinality(0 .. args[c].n - 1) = args[c].n
    <2>1. 0 <= args[c].n /\ args[c].n - 0 = args[c].n
      BY <1>1
    <2>2. QED
      BY <1>1, <2>1, IntervalSize
  <1>6. Cardinality(ran'[c]) <= Cardinality(0 .. args[c].n - 1)
    BY <1>4, <1>5, FS_Subset, Zenon
  <1>7. loc[t].end = jobEnd
    BY DEF ChunkDone, JobInv, LocalsCurrent, Holding
  <1>8. QED
    BY <1>1, <1>3, <1>5, <1>6, <1>7

\* A publisher that is about to sleep or asleep holds done_mtx or is in the wait
\* set with done_waiting set, and as long as it sleeps its job is not over or a
\* thread is about to signal.
DoneInv ==
    \A c \in Callers :
        /\ pc[c] \in {"wlock", "wcheck", "wgo", "wsleep"} => doneWaiting
        /\ pc[c] \in {"wcheck", "wgo"} => doneMtx = c
        /\ c \in doneWait => pc[c] = "wsleep"
        /\ pc[c] = "wgo" \/ c \in doneWait =>
              \/ executed < args[c].n
              \/ \E t \in Threads : pc[t] \in {"signal", "bcast"}

\* The thread that runs the last items of a job is about to signal.
LEMMA ChunkDoneDone ==
    ASSUME TypeOK, GateInv, JobInv, ItemInv, DoneInv, NEW t \in Threads, ChunkDone(t)
    PROVE  DoneInv'
  <1>1. /\ pc[t] = "run" /\ executed' \in Int
        /\ pc' = [pc EXCEPT ![t] = IF executed' = loc[t].end THEN "signal" ELSE "claim"]
        /\ UNCHANGED <<doneWaiting, doneMtx, doneWait, args>>
    BY DEF ChunkDone, Goto, syncVars, lockVars, TypeOK
  <1>2. /\ executed' = loc[t].end => pc'[t] = "signal"
        /\ pc'[t] \in {"signal", "claim"}
        /\ \A u \in Threads \ {t} : pc'[u] = pc[u]
    BY <1>1 DEF TypeOK
  <1>3. ASSUME NEW c \in Callers
        PROVE  /\ pc'[c] \in {"wlock", "wcheck", "wgo", "wsleep"} => doneWaiting'
               /\ pc'[c] \in {"wcheck", "wgo"} => doneMtx' = c
               /\ c \in doneWait' => pc'[c] = "wsleep"
    <2>1. c = t => pc[c] = "run" /\ pc'[c] \in {"signal", "claim"}
      BY <1>1, <1>2
    <2>2. c # t => pc'[c] = pc[c]
      BY <1>2
    <2>3. QED
      BY <1>1, <2>1, <2>2 DEF DoneInv
  <1>4. ASSUME NEW c \in Callers, pc'[c] = "wgo" \/ c \in doneWait'
        PROVE  executed' < args'[c].n \/ \E u \in Threads : pc'[u] \in {"signal", "bcast"}
    <2>1. pc'[c] \in {"wgo", "wsleep"} /\ c # t
      BY <1>2, <1>3, <1>4
    <2>2. pc[c] \in Working \ {"close"}
      BY <1>2, <2>1 DEF Working, InPool, Unstamped, Draining
    <2>3. loc[t].end = args[c].n /\ args[c].n \in Nat /\ executed' <= args[c].n
      BY <2>2, DoneWithin
    <2>4. QED
      BY <1>1, <1>2, <2>3
  <1>5. QED
    BY <1>3, <1>4, Zenon DEF DoneInv

LEMMA OwnerDone ==
    ASSUME TypeOK, GateInv, JobInv, ItemInv, DoneInv, Owner
    PROVE  DoneInv'
  <1>0. LabelsSplit /\ OnePublisher /\ DoneInv
    BY DEF GateInv
  <1> USE DEF TypeOK, ownerVars, syncVars, jobVars, lockVars, Goto, InPool, Unstamped, Rewriting,
         Admitted, Counted, Draining, Working, Stored, Holding, LabelsSplit, OnePublisher,
         CallerLabels, WorkerLabels, DoneInv
  <1>1. CASE Spawn
    <2>1. /\ started \in Workers /\ pc' = [pc EXCEPT ![started] = "spin"]
          /\ \A d \in Callers : pc'[d] = pc[d]
      BY <1>1 DEF Spawn
    <2>2. \A t \in Threads : pc[t] \in {"signal", "bcast"} => pc'[t] = pc[t]
      <3>1. pc[started] = "unborn"
        BY SMTT(30), <1>1, <2>1 DEF GateInv, Spawned
      <3>2. QED
        BY <2>1, <3>1
    <2>3. UNCHANGED <<doneWaiting, doneMtx, doneWait, executed, args>>
      BY <1>1 DEF Spawn
    <2>4. QED
      BY <1>0, <2>1, <2>2, <2>3
  <1>2. CASE SpawnFails
    BY <1>2, <1>0 DEF SpawnFails
  <1>3. CASE Created
    BY <1>3, <1>0 DEF Created
  <1>4. CASE Destroy
    BY <1>4, <1>0 DEF Destroy
  <1>5. CASE ShutdownBroadcast
    BY <1>5, <1>0 DEF ShutdownBroadcast
  <1>6. CASE Unwound
    BY <1>6, <1>0 DEF Unwound
  <1>7. CASE Freed
    BY <1>7, <1>0 DEF Freed
  <1>8. CASE JoinsAgain
    BY <1>8, <1>0 DEF JoinsAgain
  <1> QED
    BY <1>1, <1>2, <1>3, <1>4, <1>5, <1>6, <1>7, <1>8 DEF Owner

LEMMA CallerDone ==
    ASSUME TypeOK, GateInv, JobInv, ItemInv, DoneInv,
           NEW c \in Callers, Call(c) \/ Publish(c) \/ Await(c)
    PROVE  DoneInv'
  <1>0. LabelsSplit /\ OnePublisher /\ DoneInv
    BY DEF GateInv
  <1> USE DEF TypeOK, ownerVars, syncVars, jobVars, lockVars, Goto, InPool, Unstamped, Rewriting,
         Admitted, Counted, Draining, Working, Stored, Holding, LabelsSplit, OnePublisher,
         CallerLabels, WorkerLabels, DoneInv
  <1>1. CASE Call(c)
    BY SMTT(30), <1>1, <1>0 DEF Call
  <1>2. CASE CallInline(c)
    BY <1>2, <1>0 DEF CallInline
  <1>3. CASE InlineDone(c)
    <2>1. /\ pc[c] = "inline" /\ pc' = [pc EXCEPT ![c] = "return"]
          /\ UNCHANGED <<ownerVars, syncVars, jobVars, lockVars, ep, args, loc, snap>>
      BY <1>3 DEF InlineDone
    <2>2. QED
      BY <1>0, <2>1
  <1>4. CASE CallPool(c)
    BY <1>4, <1>0 DEF CallPool
  <1>5. CASE PubLock(c)
    BY <1>5, <1>0 DEF PubLock
  <1>6. CASE PubGate(c)
    BY <1>6, <1>0 DEF PubGate
  <1>7. CASE PubRetired(c)
    BY <1>7, <1>0 DEF PubRetired
  <1>8. CASE PubRetiredEarly(c)
    BY <1>8, <1>0 DEF PubRetiredEarly
  <1>9. CASE PubFields(c)
    BY <1>9, <1>0 DEF PubFields
  <1>10. CASE PubCursor(c)
    BY <1>10, <1>0 DEF PubCursor
  <1>11. CASE PubStamp(c)
    BY <1>11, <1>0 DEF PubStamp
  <1>12. CASE PubWake(c)
    BY <1>12, <1>0 DEF PubWake
  <1>13. CASE WaitSpins(c)
    BY <1>13, <1>0 DEF WaitSpins
  <1>14. CASE WaitParks(c)
    BY <1>14, <1>0 DEF WaitParks
  <1>15. CASE WaitLocks(c)
    BY <1>15, <1>0 DEF WaitLocks
  <1>16. CASE WaitOver(c)
    BY <1>16, <1>0 DEF WaitOver
  <1>17. CASE WaitShort(c)
    BY <1>17, <1>0 DEF WaitShort, Complete
  <1>18. CASE WaitSleeps(c)
    BY <1>18, <1>0 DEF WaitSleeps
  <1>19. CASE PubClose(c)
    BY <1>19, <1>0 DEF PubClose
  <1>20. CASE Return(c)
    BY <1>20, <1>0 DEF Return
  <1> QED
    BY <1>1, <1>2, <1>3, <1>4, <1>5, <1>6, <1>7, <1>8, <1>9, <1>10, <1>11, <1>12, <1>13, <1>14,
           <1>15, <1>16, <1>17, <1>18, <1>19, <1>20 DEF Publish, Await

LEMMA CallerDrainDone ==
    ASSUME TypeOK, GateInv, JobInv, ItemInv, DoneInv,
           NEW t \in Callers, Drain(t)
    PROVE  DoneInv'
  <1>0. LabelsSplit /\ OnePublisher /\ DoneInv
    BY DEF GateInv
  <1> USE DEF TypeOK, ownerVars, syncVars, jobVars, lockVars, Goto, InPool, Unstamped, Rewriting,
         Admitted, Counted, Draining, Working, Stored, Holding, LabelsSplit, OnePublisher,
         CallerLabels, WorkerLabels, DoneInv
  <1>1. CASE DrainEnter(t)
    <2>1. CASE Mine(t)
      BY <1>1, <1>0, <2>1 DEF DrainEnter
    <2>2. CASE ~Mine(t)
      BY <1>1, <1>0, <2>2 DEF DrainEnter, AfterDrain
    <2> QED
      BY <2>1, <2>2
  <1>2. CASE DrainLoad(t)
    BY <1>2, <1>0 DEF DrainLoad
  <1>3. CASE DrainLeave(t)
    BY <1>3, <1>0 DEF DrainLeave, AfterDrain
  <1>4. CASE CasClaims(t)
    BY <1>4, <1>0 DEF CasClaims
  <1>5. CASE CasFails(t)
    BY <1>5, <1>0 DEF CasFails
  <1>6. CASE ChunkDone(t)
    BY <1>6, ChunkDoneDone
  <1>7. CASE Signal(t)
    BY <1>7, <1>0 DEF Signal
  <1>8. CASE DoneBroadcast(t)
    BY <1>8, <1>0 DEF DoneBroadcast
  <1> QED
    BY <1>1, <1>2, <1>3, <1>4, <1>5, <1>6, <1>7, <1>8 DEF Drain

LEMMA WorkerDrainDone ==
    ASSUME TypeOK, GateInv, JobInv, ItemInv, DoneInv,
           NEW t \in Workers, Drain(t)
    PROVE  DoneInv'
  <1>0. LabelsSplit /\ OnePublisher /\ DoneInv
    BY DEF GateInv
  <1> USE DEF TypeOK, ownerVars, syncVars, jobVars, lockVars, Goto, InPool, Unstamped, Rewriting,
         Admitted, Counted, Draining, Working, Stored, Holding, LabelsSplit, OnePublisher,
         CallerLabels, WorkerLabels, DoneInv
  <1>1. CASE DrainEnter(t)
    <2>1. CASE Mine(t)
      BY <1>1, <1>0, <2>1 DEF DrainEnter
    <2>2. CASE ~Mine(t)
      BY <1>1, <1>0, <2>2 DEF DrainEnter, AfterDrain
    <2> QED
      BY <2>1, <2>2
  <1>2. CASE DrainLoad(t)
    BY <1>2, <1>0 DEF DrainLoad
  <1>3. CASE DrainLeave(t)
    BY <1>3, <1>0 DEF DrainLeave, AfterDrain
  <1>4. CASE CasClaims(t)
    BY <1>4, <1>0 DEF CasClaims
  <1>5. CASE CasFails(t)
    BY <1>5, <1>0 DEF CasFails
  <1>6. CASE ChunkDone(t)
    BY <1>6, ChunkDoneDone
  <1>7. CASE Signal(t)
    BY <1>7, <1>0 DEF Signal
  <1>8. CASE DoneBroadcast(t)
    BY <1>8, <1>0 DEF DoneBroadcast
  <1> QED
    BY <1>1, <1>2, <1>3, <1>4, <1>5, <1>6, <1>7, <1>8 DEF Drain

LEMMA WorkerDone ==
    ASSUME TypeOK, GateInv, JobInv, ItemInv, DoneInv,
           NEW w \in Workers, Work(w)
    PROVE  DoneInv'
  <1>0. LabelsSplit /\ OnePublisher /\ DoneInv
    BY DEF GateInv
  <1> USE DEF TypeOK, ownerVars, syncVars, jobVars, lockVars, Goto, InPool, Unstamped, Rewriting,
         Admitted, Counted, Draining, Working, Stored, Holding, LabelsSplit, OnePublisher,
         CallerLabels, WorkerLabels, DoneInv
  <1>1. CASE SpinSees(w)
    BY <1>1, <1>0 DEF SpinSees
  <1>2. CASE SpinQuits(w)
    BY <1>2, <1>0 DEF SpinQuits
  <1>3. CASE SpinGivesUp(w)
    BY <1>3, <1>0 DEF SpinGivesUp
  <1>4. CASE Park(w)
    BY <1>4, <1>0 DEF Park
  <1>5. CASE Unpark(w)
    BY <1>5, <1>0 DEF Unpark
  <1>6. CASE ParkShort(w)
    BY <1>6, <1>0 DEF ParkShort
  <1>7. CASE ParkSleeps(w)
    BY <1>7, <1>0 DEF ParkSleeps
  <1>8. CASE ParkWakes(w)
    BY <1>8, <1>0 DEF ParkWakes
  <1>9. CASE Activate(w)
    BY <1>9, <1>0 DEF Activate
  <1>10. CASE GateCheck(w)
    BY <1>10, <1>0 DEF GateCheck
  <1>11. CASE JobCheck(w)
    BY <1>11, <1>0 DEF JobCheck
  <1>12. CASE Retire(w)
    BY <1>12, <1>0 DEF Retire
  <1> QED
    BY <1>1, <1>2, <1>3, <1>4, <1>5, <1>6, <1>7, <1>8, <1>9, <1>10, <1>11, <1>12 DEF Work

\* The workers that count in parked.
Asleep       == {"pcheck", "pgo", "asleep"}
ParkedSet    == {w \in Workers : pc[w] \in Asleep}
ParkedCounts == parked = Cardinality(ParkedSet)

\* A worker about to sleep holds wake_mtx, and one that is to be woken by a
\* signal has seen every job and no shutdown but one that is being announced.
Sleepers ==
    \A w \in Workers :
        /\ pc[w] \in {"pcheck", "pgo"} => wakeMtx = w
        /\ w \in wakeWait => pc[w] = "asleep"
        /\ pc[w] = "pgo" \/ w \in wakeWait =>
              epoch = ep[w] /\ (shutdown => life \in {"failing", "closing"})

WakeInv == ParkedCounts /\ Sleepers

\* Nobody parks and nobody unparks.
ParkersStay == /\ parked' = parked
               /\ \A w \in Workers : pc'[w] \in Asleep <=> pc[w] \in Asleep

LEMMA ParkedSetFinite == IsFiniteSet(ParkedSet) /\ IsFiniteSet(ParkedSet')
  BY WorkersFinite, FS_Subset DEF ParkedSet

LEMMA SameParked == ASSUME WakeInv, ParkersStay PROVE ParkedCounts'
  <1>1. ParkedSet' = ParkedSet
    BY DEF ParkedSet, ParkersStay
  <1>2. QED
    BY <1>1 DEF WakeInv, ParkedCounts, ParkersStay

LEMMA OwnerWake ==
    ASSUME TypeOK, GateInv, WakeInv, Owner
    PROVE  Sleepers' /\ ParkersStay
  <1>0. LabelsSplit /\ OnePublisher /\ WakeInv
    BY DEF GateInv
  <1> USE DEF TypeOK, ownerVars, syncVars, jobVars, lockVars, Goto, InPool, Unstamped, Rewriting,
         Admitted, Counted, Draining, Working, Stored, Holding, LabelsSplit, OnePublisher,
         CallerLabels, WorkerLabels, WakeInv, Sleepers, ParkersStay, Asleep
  <1>1. CASE Spawn
    <2>1. started \in Workers /\ pc' = [pc EXCEPT ![started] = "spin"]
      BY <1>1 DEF Spawn
    <2>2. pc[started] = "unborn"
      BY <1>1, <2>1 DEF GateInv, Spawned
    <2>3. UNCHANGED <<life, wakeMtx, wakeWait, parked, epoch, ep, shutdown>>
      BY <1>1 DEF Spawn
    <2>4. QED
      BY <1>0, <2>1, <2>2, <2>3
  <1>2. CASE SpawnFails
    BY <1>2, <1>0 DEF SpawnFails
  <1>3. CASE Created
    BY <1>3, <1>0 DEF Created
  <1>4. CASE Destroy
    BY <1>4, <1>0 DEF Destroy
  <1>5. CASE ShutdownBroadcast
    BY <1>5, <1>0 DEF ShutdownBroadcast
  <1>6. CASE Unwound
    BY <1>6, <1>0 DEF Unwound
  <1>7. CASE Freed
    BY <1>7, <1>0 DEF Freed
  <1>8. CASE JoinsAgain
    BY <1>8, <1>0 DEF JoinsAgain
  <1> QED
    BY <1>1, <1>2, <1>3, <1>4, <1>5, <1>6, <1>7, <1>8 DEF Owner

LEMMA CallerWake ==
    ASSUME TypeOK, GateInv, WakeInv,
           NEW c \in Callers, Call(c) \/ Publish(c) \/ Await(c)
    PROVE  Sleepers' /\ ParkersStay
  <1>0. LabelsSplit /\ OnePublisher /\ WakeInv
    BY DEF GateInv
  <1> USE DEF TypeOK, ownerVars, syncVars, jobVars, lockVars, Goto, InPool, Unstamped, Rewriting,
         Admitted, Counted, Draining, Working, Stored, Holding, LabelsSplit, OnePublisher,
         CallerLabels, WorkerLabels, WakeInv, Sleepers, ParkersStay, Asleep
  <1>1. CASE Call(c)
    BY <1>1, <1>0 DEF Call
  <1>2. CASE CallInline(c)
    BY <1>2, <1>0 DEF CallInline
  <1>3. CASE InlineDone(c)
    <2>1. /\ pc[c] = "inline" /\ pc' = [pc EXCEPT ![c] = "return"]
          /\ UNCHANGED <<ownerVars, syncVars, jobVars, lockVars, ep, args, loc, snap>>
      BY <1>3 DEF InlineDone
    <2>2. QED
      BY <1>0, <2>1
  <1>4. CASE CallPool(c)
    BY <1>4, <1>0 DEF CallPool
  <1>5. CASE PubLock(c)
    BY <1>5, <1>0 DEF PubLock
  <1>6. CASE PubGate(c)
    BY <1>6, <1>0 DEF PubGate
  <1>7. CASE PubRetired(c)
    BY <1>7, <1>0 DEF PubRetired
  <1>8. CASE PubRetiredEarly(c)
    BY <1>8, <1>0 DEF PubRetiredEarly
  <1>9. CASE PubFields(c)
    BY <1>9, <1>0 DEF PubFields
  <1>10. CASE PubCursor(c)
    BY <1>10, <1>0 DEF PubCursor
  <1>11. CASE PubStamp(c)
    BY <1>11, <1>0 DEF PubStamp
  <1>12. CASE PubWake(c)
    <2>1. wakeWait' = {}
      <3>1. CASE parked > 0
        BY <1>12, <3>1 DEF PubWake
      <3>2. CASE ~(parked > 0)
        <4>1. ParkedSet = {}
          BY <3>2, ParkedSetFinite, FS_EmptySet, FS_CardinalityType DEF ParkedCounts
        <4>2. wakeWait = {}
          BY <1>0, <4>1 DEF ParkedSet
        <4>3. QED
          BY <1>12, <4>2 DEF PubWake
      <3>3. QED
        BY <3>1, <3>2
    <2>2. \A w \in Workers : pc'[w] = pc[w] /\ pc[w] \notin {"pcheck", "pgo"}
      BY <1>12, <1>0 DEF PubWake
    <2>3. wakeMtx' = wakeMtx /\ parked' = parked
      BY <1>12 DEF PubWake
    <2>4. QED
      BY <2>1, <2>2, <2>3
  <1>13. CASE WaitSpins(c)
    BY <1>13, <1>0 DEF WaitSpins
  <1>14. CASE WaitParks(c)
    BY <1>14, <1>0 DEF WaitParks
  <1>15. CASE WaitLocks(c)
    BY <1>15, <1>0 DEF WaitLocks
  <1>16. CASE WaitOver(c)
    BY <1>16, <1>0 DEF WaitOver
  <1>17. CASE WaitShort(c)
    BY <1>17, <1>0 DEF WaitShort
  <1>18. CASE WaitSleeps(c)
    BY <1>18, <1>0 DEF WaitSleeps
  <1>19. CASE PubClose(c)
    BY <1>19, <1>0 DEF PubClose
  <1>20. CASE Return(c)
    BY <1>20, <1>0 DEF Return
  <1> QED
    BY <1>1, <1>2, <1>3, <1>4, <1>5, <1>6, <1>7, <1>8, <1>9, <1>10, <1>11, <1>12, <1>13, <1>14,
           <1>15, <1>16, <1>17, <1>18, <1>19, <1>20 DEF Publish, Await

LEMMA CallerDrainWake ==
    ASSUME TypeOK, GateInv, WakeInv,
           NEW t \in Callers, Drain(t)
    PROVE  Sleepers' /\ ParkersStay
  <1>0. LabelsSplit /\ OnePublisher /\ WakeInv
    BY DEF GateInv
  <1> USE DEF TypeOK, ownerVars, syncVars, jobVars, lockVars, Goto, InPool, Unstamped, Rewriting,
         Admitted, Counted, Draining, Working, Stored, Holding, LabelsSplit, OnePublisher,
         CallerLabels, WorkerLabels, WakeInv, Sleepers, ParkersStay, Asleep
  <1>1. CASE DrainEnter(t)
    <2>1. CASE Mine(t)
      BY <1>1, <1>0, <2>1 DEF DrainEnter
    <2>2. CASE ~Mine(t)
      BY <1>1, <1>0, <2>2 DEF DrainEnter, AfterDrain
    <2> QED
      BY <2>1, <2>2
  <1>2. CASE DrainLoad(t)
    BY <1>2, <1>0 DEF DrainLoad
  <1>3. CASE DrainLeave(t)
    BY <1>3, <1>0 DEF DrainLeave, AfterDrain
  <1>4. CASE CasClaims(t)
    BY <1>4, <1>0 DEF CasClaims
  <1>5. CASE CasFails(t)
    BY <1>5, <1>0 DEF CasFails
  <1>6. CASE ChunkDone(t)
    BY <1>6, <1>0 DEF ChunkDone
  <1>7. CASE Signal(t)
    BY <1>7, <1>0 DEF Signal
  <1>8. CASE DoneBroadcast(t)
    BY <1>8, <1>0 DEF DoneBroadcast
  <1> QED
    BY <1>1, <1>2, <1>3, <1>4, <1>5, <1>6, <1>7, <1>8 DEF Drain

LEMMA WorkerDrainWake ==
    ASSUME TypeOK, GateInv, WakeInv,
           NEW t \in Workers, Drain(t)
    PROVE  Sleepers' /\ ParkersStay
  <1>0. LabelsSplit /\ OnePublisher /\ WakeInv
    BY DEF GateInv
  <1> USE DEF TypeOK, ownerVars, syncVars, jobVars, lockVars, Goto, InPool, Unstamped, Rewriting,
         Admitted, Counted, Draining, Working, Stored, Holding, LabelsSplit, OnePublisher,
         CallerLabels, WorkerLabels, WakeInv, Sleepers, ParkersStay, Asleep
  <1>1. CASE DrainEnter(t)
    <2>1. CASE Mine(t)
      BY <1>1, <1>0, <2>1 DEF DrainEnter
    <2>2. CASE ~Mine(t)
      BY <1>1, <1>0, <2>2 DEF DrainEnter, AfterDrain
    <2> QED
      BY <2>1, <2>2
  <1>2. CASE DrainLoad(t)
    BY <1>2, <1>0 DEF DrainLoad
  <1>3. CASE DrainLeave(t)
    BY <1>3, <1>0 DEF DrainLeave, AfterDrain
  <1>4. CASE CasClaims(t)
    BY <1>4, <1>0 DEF CasClaims
  <1>5. CASE CasFails(t)
    BY <1>5, <1>0 DEF CasFails
  <1>6. CASE ChunkDone(t)
    BY <1>6, <1>0 DEF ChunkDone
  <1>7. CASE Signal(t)
    BY <1>7, <1>0 DEF Signal
  <1>8. CASE DoneBroadcast(t)
    BY <1>8, <1>0 DEF DoneBroadcast
  <1> QED
    BY <1>1, <1>2, <1>3, <1>4, <1>5, <1>6, <1>7, <1>8 DEF Drain

LEMMA WorkerWake ==
    ASSUME TypeOK, GateInv, WakeInv,
           NEW w \in Workers, SpinSees(w) \/ SpinQuits(w) \/ SpinGivesUp(w) \/ ParkShort(w) \/
               ParkSleeps(w) \/ ParkWakes(w) \/ Activate(w) \/ GateCheck(w) \/ JobCheck(w) \/
               Retire(w)
    PROVE  Sleepers' /\ ParkersStay
  <1>0. LabelsSplit /\ OnePublisher /\ WakeInv
    BY DEF GateInv
  <1> USE DEF TypeOK, ownerVars, syncVars, jobVars, lockVars, Goto, InPool, Unstamped, Rewriting,
         Admitted, Counted, Draining, Working, Stored, Holding, LabelsSplit, OnePublisher,
         CallerLabels, WorkerLabels, WakeInv, Sleepers, ParkersStay, Asleep
  <1>1. CASE SpinSees(w)
    BY <1>1, <1>0 DEF SpinSees
  <1>2. CASE SpinQuits(w)
    BY <1>2, <1>0 DEF SpinQuits
  <1>3. CASE SpinGivesUp(w)
    BY <1>3, <1>0 DEF SpinGivesUp
  <1>4. CASE ParkShort(w)
    BY <1>4, <1>0 DEF ParkShort
  <1>5. CASE ParkSleeps(w)
    BY <1>5, <1>0 DEF ParkSleeps
  <1>6. CASE ParkWakes(w)
    BY <1>6, <1>0 DEF ParkWakes
  <1>7. CASE Activate(w)
    BY <1>7, <1>0 DEF Activate
  <1>8. CASE GateCheck(w)
    BY <1>8, <1>0 DEF GateCheck
  <1>9. CASE JobCheck(w)
    BY <1>9, <1>0 DEF JobCheck
  <1>10. CASE Retire(w)
    BY <1>10, <1>0 DEF Retire
  <1> QED
    BY <1>1, <1>2, <1>3, <1>4, <1>5, <1>6, <1>7, <1>8, <1>9, <1>10 DEF Asleep

LEMMA WorkerSleepers ==
    ASSUME TypeOK, GateInv, WakeInv,
           NEW w \in Workers, Park(w) \/ Unpark(w)
    PROVE  Sleepers'
  <1>0. LabelsSplit /\ OnePublisher /\ WakeInv
    BY DEF GateInv
  <1> USE DEF TypeOK, ownerVars, syncVars, jobVars, lockVars, Goto, InPool, Unstamped, Rewriting,
         Admitted, Counted, Draining, Working, Stored, Holding, LabelsSplit, OnePublisher,
         CallerLabels, WorkerLabels, WakeInv, Sleepers, ParkersStay, Asleep
  <1>1. CASE Park(w)
    BY <1>1, <1>0 DEF Park
  <1>2. CASE Unpark(w)
    BY <1>2, <1>0 DEF Unpark
  <1> QED
    BY <1>1, <1>2 DEF Asleep

\* parked counts the worker that goes to sleep or comes back.
LEMMA ParkCounts ==
    ASSUME TypeOK, WakeInv, NEW w \in Workers, Park(w) \/ Unpark(w)
    PROVE  ParkedCounts'
  <1>1. CASE Park(w)
    <2>1. pc[w] = "park" /\ pc' = [pc EXCEPT ![w] = "pcheck"] /\ parked' = parked + 1
      BY <1>1 DEF Park, Goto
    <2>2. w \notin ParkedSet /\ ParkedSet' = ParkedSet \cup {w}
      BY <2>1 DEF ParkedSet, TypeOK, Asleep
    <2>3. Cardinality(ParkedSet') = Cardinality(ParkedSet) + 1
      BY <2>2, ParkedSetFinite, FS_AddElement
    <2>4. QED
      BY <2>1, <2>3 DEF WakeInv, ParkedCounts
  <1>2. CASE Unpark(w)
    <2>1. /\ pc[w] = "pcheck" /\ parked' = parked - 1
          /\ \E l \in {"activate", "exited"} : pc' = [pc EXCEPT ![w] = l]
      BY <1>2 DEF Unpark, Goto
    <2>2. w \in ParkedSet /\ ParkedSet' = ParkedSet \ {w}
      BY <2>1 DEF ParkedSet, TypeOK, Asleep
    <2>3. Cardinality(ParkedSet') = Cardinality(ParkedSet) - 1
      BY <2>2, ParkedSetFinite, FS_RemoveElement
    <2>4. QED
      BY <2>1, <2>3 DEF WakeInv, ParkedCounts
  <1>3. QED
    BY <1>1, <1>2

LEMMA WakeNext == ASSUME TypeOK, GateInv, WakeInv, [Next]_vars PROVE WakeInv'
  <1>0. ParkedCounts' /\ Sleepers' => WakeInv'
    BY DEF ParkedCounts, Sleepers, WakeInv
  <1>1. CASE Owner
    BY <1>0, <1>1, OwnerWake, SameParked
  <1>2. ASSUME NEW c \in Callers, Call(c) \/ Publish(c) \/ Await(c) PROVE WakeInv'
    BY <1>0, <1>2, CallerWake, SameParked
  <1>3. ASSUME NEW c \in Callers, Drain(c) PROVE WakeInv'
    BY <1>0, <1>3, CallerDrainWake, SameParked
  <1>4. ASSUME NEW w \in Workers, Drain(w) PROVE WakeInv'
    BY <1>0, <1>4, WorkerDrainWake, SameParked
  <1>5. ASSUME NEW w \in Workers, Work(w) PROVE WakeInv'
    <2>1. CASE Park(w) \/ Unpark(w)
      BY <1>0, <2>1, WorkerSleepers, ParkCounts
    <2>2. CASE ~(Park(w) \/ Unpark(w))
      BY <1>0, <1>5, <2>2, WorkerWake, SameParked DEF Work
    <2>3. QED
      BY <2>1, <2>2
  <1>6. CASE SpuriousWakeup
    <2>1. /\ UNCHANGED <<ownerVars, syncVars, wakeMtx, pc, ep>>
          /\ \A w \in Workers : w \in wakeWait' => w \in wakeWait
      BY <1>6 DEF SpuriousWakeup
    <2>2. Sleepers'
      BY <2>1 DEF WakeInv, Sleepers, ownerVars, syncVars
    <2>3. ParkedCounts'
      BY <2>1, SameParked DEF syncVars, ParkersStay
    <2>4. QED
      BY <1>0, <2>2, <2>3
  <1>7. CASE UNCHANGED vars
    <2>1. ParkedCounts'
      BY <1>7, SameParked DEF vars, syncVars, ParkersStay
    <2>2. Sleepers'
      BY <1>7 DEF WakeInv, Sleepers, vars, ownerVars, syncVars, lockVars
    <2>3. QED
      BY <1>0, <2>1, <2>2
  <1>8. QED
    BY <1>1, <1>2, <1>3, <1>4, <1>5, <1>6, <1>7 DEF Next, Terminated

LEMMA DoneNext == ASSUME TypeOK, GateInv, JobInv, ItemInv, DoneInv, [Next]_vars PROVE DoneInv'
  <1>1. CASE Owner
    BY <1>1, OwnerDone
  <1>2. ASSUME NEW c \in Callers, Call(c) \/ Publish(c) \/ Await(c) PROVE DoneInv'
    BY <1>2, CallerDone
  <1>3. ASSUME NEW c \in Callers, Drain(c) PROVE DoneInv'
    BY <1>3, CallerDrainDone
  <1>4. ASSUME NEW w \in Workers, Drain(w) PROVE DoneInv'
    BY <1>4, WorkerDrainDone
  <1>5. ASSUME NEW w \in Workers, Work(w) PROVE DoneInv'
    BY <1>5, WorkerDone
  <1>6. CASE SpuriousWakeup
    <2>1. /\ UNCHANGED <<doneWaiting, executed, doneMtx, pc, args>>
          /\ \A c \in Callers : c \in doneWait' => c \in doneWait
      BY <1>6 DEF SpuriousWakeup, syncVars, jobVars
    <2>2. QED
      BY <2>1 DEF DoneInv
  <1>7. CASE UNCHANGED vars
    BY <1>7 DEF DoneInv, vars, syncVars, jobVars, lockVars
  <1>8. QED
    BY <1>1, <1>2, <1>3, <1>4, <1>5, <1>6, <1>7 DEF Next, Terminated

\* A publisher asleep will be woken (threadpool.c:200-231).
THEOREM DoneNotLost == Spec => []NoLostDone
  <1>1. Init => DoneInv
    BY DEF Init, DoneInv
  <1>2. TypeOK /\ GateInv /\ (JobInv /\ ItemInv) /\ DoneInv /\ [Next]_vars => DoneInv'
    BY DoneNext
  <1>3. TypeOK /\ DoneInv => NoLostDone
    BY DEF TypeOK, DoneInv, NoLostDone
  <1>4. QED
    BY <1>1, <1>2, <1>3, TypeCorrect, GateCorrect, JobCorrect, PTL DEF Spec

\* A worker asleep misses no job and no shutdown (threadpool.c:174-198, 493-497, 419-422).
THEOREM WakeNotLost == Spec => []NoLostWake
  <1>1. Init => WakeInv
    <2> SUFFICES ASSUME Init PROVE WakeInv
      OBVIOUS
    <2>1. \A w \in Workers : pc[w] = "unborn"
      BY DEF Init
    <2>2. ParkedSet = {}
      BY <2>1 DEF ParkedSet, Asleep
    <2>3. parked = 0 /\ wakeWait = {}
      BY DEF Init
    <2>4. QED
      BY <2>1, <2>2, <2>3, FS_EmptySet DEF WakeInv, ParkedCounts, Sleepers
  <1>2. TypeOK /\ GateInv /\ WakeInv /\ [Next]_vars => WakeInv'
    BY WakeNext
  <1>3. TypeOK /\ WakeInv => NoLostWake
    BY DEF TypeOK, WakeInv, Sleepers, NoLostWake
  <1>4. QED
    BY <1>1, <1>2, <1>3, TypeCorrect, GateCorrect, PTL DEF Spec

-----------------------------------------------------------------------------
(* The pool implements its contract: ParallelFor with todoOf and flightOf.   *)

\* The arguments of a call are there while it runs.
ArgsInv == \A c \in Callers : IF pc[c] = "idle" THEN args[c].n = 0 ELSE args[c].n \in ItemCounts

\* Items of a call of k items not run and in nobody's flight.
TodoIn(k, r, f, c) ==
    {i \in (0 .. k - 1) \ r : \A t \in Threads : f[t] = None \/ f[t].job # c \/ i \notin f[t].items}

\* The refinement mapping at one call and at one thread.
LEMMA TodoAt == /\ todoOf = [c \in Callers |-> TodoIn(args[c].n, ran[c], flightOf, c)]
                /\ todoOf' = [c \in Callers |-> TodoIn(args'[c].n, ran'[c], flightOf', c)]
  <1>1. todoOf = [c \in Callers |-> TodoIn(args[c].n, ran[c], flightOf, c)]
    BY Zenon DEF todoOf, TodoIn, Threads, Workers
  <1>2. todoOf' = [c \in Callers |-> TodoIn(args'[c].n, ran'[c], flightOf', c)]
    BY Zenon DEF todoOf, TodoIn, Threads, Workers
  <1>3. QED
    BY <1>1, <1>2

LEMMA FlightAt ==
    ASSUME NEW t \in Threads
    PROVE  /\ pc[t] = "run" => flightOf[t] = [job |-> loc[t].ctx, items |-> Chunk(t)]
           /\ pc[t] = "inline" => flightOf[t] = [job |-> t, items |-> 0 .. args[t].n - 1]
           /\ pc[t] \notin {"run", "inline"} => flightOf[t] = None
           /\ pc'[t] = "run" => flightOf'[t] = [job |-> loc'[t].ctx, items |-> Chunk(t)']
           /\ pc'[t] = "inline" => flightOf'[t] = [job |-> t, items |-> 0 .. args'[t].n - 1]
           /\ pc'[t] \notin {"run", "inline"} => flightOf'[t] = None
  BY DEF flightOf

LEMMA FlightFun == /\ flightOf = [u \in Threads |-> flightOf[u]]
                   /\ flightOf' = [u \in Threads |-> flightOf'[u]]
  BY DEF flightOf

\* Only callers run inline.
LEMMA InlineCaller ==
    ASSUME GateInv
    PROVE  \A t \in Threads : pc[t] = "inline" => t \in Callers
  BY DEF GateInv, LabelsSplit, WorkerLabels, Counted, Admitted, Draining

\* A thread that starts and ends no chunk.
LEMMA SameFlight ==
    ASSUME NEW t \in Threads,
           pc'[t] = "run" <=> pc[t] = "run",
           pc'[t] = "inline" <=> pc[t] = "inline",
           pc[t] = "run" => loc'[t] = loc[t] /\ snap'[t] = snap[t],
           pc[t] = "inline" => args'[t].n = args[t].n
    PROVE  flightOf'[t] = flightOf[t]
  <1>1. CASE pc[t] = "run"
    <2>1. Chunk(t)' = Chunk(t)
      BY <1>1 DEF Chunk
    <2>2. flightOf[t] = [job |-> loc[t].ctx, items |-> Chunk(t)]
      BY <1>1, FlightAt, Zenon
    <2>3. pc'[t] = "run" /\ loc'[t] = loc[t]
      BY <1>1
    <2>4. flightOf'[t] = [job |-> loc'[t].ctx, items |-> Chunk(t)']
      BY <2>3, FlightAt, Zenon
    <2>5. QED
      BY <2>1, <2>2, <2>3, <2>4, Zenon
  <1>2. CASE pc[t] = "inline"
    <2>1. flightOf[t] = [job |-> t, items |-> 0 .. args[t].n - 1]
      BY <1>2, FlightAt, Zenon
    <2>2. pc'[t] = "inline" /\ args'[t].n = args[t].n
      BY <1>2
    <2>3. flightOf'[t] = [job |-> t, items |-> 0 .. args'[t].n - 1]
      BY <2>2, FlightAt, Zenon
    <2>4. QED
      BY <2>1, <2>2, <2>3, Zenon
  <1>3. CASE pc[t] \notin {"run", "inline"}
    BY <1>3, FlightAt
  <1>4. QED
    BY <1>1, <1>2, <1>3

\* No call and no chunk starts or ends.
ChunksStay ==
    /\ ran' = ran /\ \A c \in Callers : args'[c].n = args[c].n
    /\ \A t \in Threads : /\ pc'[t] = "run" <=> pc[t] = "run"
                          /\ pc'[t] = "inline" <=> pc[t] = "inline"
                          /\ pc[t] = "run" => loc'[t] = loc[t] /\ snap'[t] = snap[t]

\* Such a step leaves the contract's state alone.
LEMMA StillPF ==
    ASSUME TypeOK, GateInv, ChunksStay
    PROVE  UNCHANGED PF!vars
  <1> USE DEF ChunksStay
  <1>1. \A t \in Threads : flightOf'[t] = flightOf[t]
    BY InlineCaller, SameFlight
  <1>2. flightOf' = flightOf
    BY <1>1, FlightFun
  <1>3. todoOf' = todoOf
    BY <1>2, TodoAt
  <1>4. QED
    BY <1>2, <1>3 DEF PF!vars

\* The steps that are none of the contract's.
LEMMA OwnerStill ==
    ASSUME TypeOK, GateInv, Owner
    PROVE  ChunksStay
  <1>0. LabelsSplit
    BY DEF GateInv
  <1> USE DEF TypeOK, ownerVars, syncVars, jobVars, lockVars, Goto, InPool, Unstamped, Rewriting,
         Admitted, Counted, Draining, Working, Stored, Holding, LabelsSplit, CallerLabels,
         WorkerLabels, ChunksStay
  <1>1. CASE Spawn
    <2>1. started \in Workers /\ pc' = [pc EXCEPT ![started] = "spin"]
      BY <1>1 DEF Spawn
    <2>2. pc[started] = "unborn"
      BY <1>1, <2>1 DEF GateInv, Spawned
    <2>3. UNCHANGED <<ran, args, loc, snap>>
      BY <1>1 DEF Spawn
    <2>4. QED
      BY <1>0, <2>1, <2>2, <2>3
  <1>2. CASE SpawnFails
    BY <1>2, <1>0 DEF SpawnFails
  <1>3. CASE Created
    BY <1>3, <1>0 DEF Created
  <1>4. CASE Destroy
    BY <1>4, <1>0 DEF Destroy
  <1>5. CASE ShutdownBroadcast
    BY <1>5, <1>0 DEF ShutdownBroadcast
  <1>6. CASE Unwound
    BY <1>6, <1>0 DEF Unwound
  <1>7. CASE Freed
    BY <1>7, <1>0 DEF Freed
  <1>8. CASE JoinsAgain
    BY <1>8, <1>0 DEF JoinsAgain
  <1> QED
    BY <1>1, <1>2, <1>3, <1>4, <1>5, <1>6, <1>7, <1>8 DEF Owner

LEMMA CallerStill ==
    ASSUME TypeOK, GateInv,
           NEW c \in Callers, CallPool(c) \/ PubLock(c) \/ PubGate(c) \/ PubRetired(c) \/
               PubRetiredEarly(c) \/ PubFields(c) \/ PubCursor(c) \/ PubStamp(c) \/ PubWake(c) \/
               WaitSpins(c) \/ WaitParks(c) \/ WaitLocks(c) \/ WaitOver(c) \/ WaitShort(c) \/
               WaitSleeps(c) \/ PubClose(c)
    PROVE  ChunksStay
  <1>0. LabelsSplit
    BY DEF GateInv
  <1> USE DEF TypeOK, ownerVars, syncVars, jobVars, lockVars, Goto, InPool, Unstamped, Rewriting,
         Admitted, Counted, Draining, Working, Stored, Holding, LabelsSplit, CallerLabels,
         WorkerLabels, ChunksStay
  <1>1. CASE CallPool(c)
    BY <1>1, <1>0 DEF CallPool
  <1>2. CASE PubLock(c)
    BY <1>2, <1>0 DEF PubLock
  <1>3. CASE PubGate(c)
    BY <1>3, <1>0 DEF PubGate
  <1>4. CASE PubRetired(c)
    BY <1>4, <1>0 DEF PubRetired
  <1>5. CASE PubRetiredEarly(c)
    BY <1>5, <1>0 DEF PubRetiredEarly
  <1>6. CASE PubFields(c)
    BY <1>6, <1>0 DEF PubFields
  <1>7. CASE PubCursor(c)
    BY <1>7, <1>0 DEF PubCursor
  <1>8. CASE PubStamp(c)
    BY <1>8, <1>0 DEF PubStamp
  <1>9. CASE PubWake(c)
    BY <1>9, <1>0 DEF PubWake
  <1>10. CASE WaitSpins(c)
    BY <1>10, <1>0 DEF WaitSpins
  <1>11. CASE WaitParks(c)
    BY <1>11, <1>0 DEF WaitParks
  <1>12. CASE WaitLocks(c)
    BY <1>12, <1>0 DEF WaitLocks
  <1>13. CASE WaitOver(c)
    BY <1>13, <1>0 DEF WaitOver
  <1>14. CASE WaitShort(c)
    BY <1>14, <1>0 DEF WaitShort
  <1>15. CASE WaitSleeps(c)
    BY <1>15, <1>0 DEF WaitSleeps
  <1>16. CASE PubClose(c)
    BY <1>16, <1>0 DEF PubClose
  <1> QED
    BY <1>1, <1>2, <1>3, <1>4, <1>5, <1>6, <1>7, <1>8, <1>9, <1>10, <1>11, <1>12, <1>13, <1>14,
           <1>15, <1>16 DEF Working

LEMMA DrainStill ==
    ASSUME TypeOK, GateInv,
           NEW t \in Threads, DrainEnter(t) \/ DrainLoad(t) \/ DrainLeave(t) \/ CasFails(t) \/
               Signal(t) \/ DoneBroadcast(t)
    PROVE  ChunksStay
  <1>0. LabelsSplit
    BY DEF GateInv
  <1> USE DEF TypeOK, ownerVars, syncVars, jobVars, lockVars, Goto, InPool, Unstamped, Rewriting,
         Admitted, Counted, Draining, Working, Stored, Holding, LabelsSplit, CallerLabels,
         WorkerLabels, ChunksStay
  <1>1. CASE DrainEnter(t)
    <2>1. CASE Mine(t)
      BY <1>1, <1>0, <2>1 DEF DrainEnter
    <2>2. CASE ~Mine(t)
      BY <1>1, <1>0, <2>2 DEF DrainEnter, AfterDrain
    <2> QED
      BY <2>1, <2>2
  <1>2. CASE DrainLoad(t)
    BY <1>2, <1>0 DEF DrainLoad
  <1>3. CASE DrainLeave(t)
    BY <1>3, <1>0 DEF DrainLeave, AfterDrain
  <1>4. CASE CasFails(t)
    BY <1>4, <1>0 DEF CasFails
  <1>5. CASE Signal(t)
    BY <1>5, <1>0 DEF Signal
  <1>6. CASE DoneBroadcast(t)
    BY <1>6, <1>0 DEF DoneBroadcast
  <1> QED
    BY <1>1, <1>2, <1>3, <1>4, <1>5, <1>6 DEF Working

LEMMA WorkerStill ==
    ASSUME TypeOK, GateInv,
           NEW w \in Workers, Work(w)
    PROVE  ChunksStay
  <1>0. LabelsSplit
    BY DEF GateInv
  <1> USE DEF TypeOK, ownerVars, syncVars, jobVars, lockVars, Goto, InPool, Unstamped, Rewriting,
         Admitted, Counted, Draining, Working, Stored, Holding, LabelsSplit, CallerLabels,
         WorkerLabels, ChunksStay
  <1>1. CASE SpinSees(w)
    BY <1>1, <1>0 DEF SpinSees
  <1>2. CASE SpinQuits(w)
    BY <1>2, <1>0 DEF SpinQuits
  <1>3. CASE SpinGivesUp(w)
    BY <1>3, <1>0 DEF SpinGivesUp
  <1>4. CASE Park(w)
    BY <1>4, <1>0 DEF Park
  <1>5. CASE Unpark(w)
    BY <1>5, <1>0 DEF Unpark
  <1>6. CASE ParkShort(w)
    BY <1>6, <1>0 DEF ParkShort
  <1>7. CASE ParkSleeps(w)
    BY <1>7, <1>0 DEF ParkSleeps
  <1>8. CASE ParkWakes(w)
    BY <1>8, <1>0 DEF ParkWakes
  <1>9. CASE Activate(w)
    BY <1>9, <1>0 DEF Activate
  <1>10. CASE GateCheck(w)
    BY <1>10, <1>0 DEF GateCheck
  <1>11. CASE JobCheck(w)
    BY <1>11, <1>0 DEF JobCheck
  <1>12. CASE Retire(w)
    BY <1>12, <1>0 DEF Retire
  <1> QED
    BY <1>1, <1>2, <1>3, <1>4, <1>5, <1>6, <1>7, <1>8, <1>9, <1>10, <1>11, <1>12 DEF Work

LEMMA ArgsNext == ASSUME TypeOK, GateInv, ArgsInv, [Next]_vars PROVE ArgsInv'
  <1>1. ASSUME UNCHANGED args, \A c \in Callers : pc'[c] = "idle" <=> pc[c] = "idle" PROVE ArgsInv'
    BY <1>1 DEF ArgsInv
  <1>2. CASE Owner
    <2>1. args' = args
      BY <1>2 DEF Owner, Spawn, SpawnFails, Created, Destroy, ShutdownBroadcast, Unwound, Freed, JoinsAgain
    <2>2. pc' = pc \/ Spawn
      BY <1>2 DEF Owner, SpawnFails, Created, Destroy, ShutdownBroadcast, Unwound, Freed, JoinsAgain
    <2>3. \A c \in Callers : pc'[c] = pc[c]
      BY <2>2 DEF Spawn, Goto, TypeOK
    <2>4. QED
      BY <1>1, <2>1, <2>3
  <1>3. ASSUME NEW c \in Callers, Call(c) PROVE ArgsInv'
    BY <1>3 DEF Call, Goto, TypeOK, ArgsInv
  <1>4. ASSUME NEW c \in Callers, Return(c) PROVE ArgsInv'
    BY <1>4 DEF Return, NoArgs, Goto, TypeOK, ArgsInv
  <1>5. ASSUME NEW t \in Threads, NEW l \in Labels \ {"idle"}, pc[t] # "idle", args' = args,
               pc' = [pc EXCEPT ![t] = l]
        PROVE  ArgsInv'
    BY <1>1, <1>5 DEF TypeOK
  <1>6. ASSUME NEW c \in Callers, Publish(c) \/ Await(c), ~Return(c) PROVE ArgsInv'
    <2>1. args' = args /\ pc[c] # "idle" /\ \E l \in Labels \ {"idle"} : pc' = [pc EXCEPT ![c] = l]
      BY <1>6 DEF Publish, Await, Goto, Labels, CallInline, InlineDone, CallPool, PubLock, PubGate,
                  PubRetired, PubRetiredEarly, PubFields, PubCursor, PubStamp, PubWake, WaitSpins,
                  WaitParks, WaitLocks, WaitOver, WaitShort, WaitSleeps, PubClose
    <2>2. QED
      BY <1>5, <2>1
  <1>7. ASSUME NEW t \in Threads, Drain(t) PROVE ArgsInv'
    <2>1. args' = args /\ pc[t] # "idle" /\ \E l \in Labels \ {"idle"} : pc' = [pc EXCEPT ![t] = l]
      BY <1>7 DEF Drain, Goto, Labels, AfterDrain, DrainEnter, DrainLoad, DrainLeave, CasClaims,
                  CasFails, ChunkDone, Signal, DoneBroadcast
    <2>2. QED
      BY <1>5, <2>1
  <1>8. ASSUME NEW w \in Workers, Work(w) PROVE ArgsInv'
    <2>1. args' = args /\ pc[w] # "idle" /\ \E l \in Labels \ {"idle"} : pc' = [pc EXCEPT ![w] = l]
      BY <1>8 DEF Work, Goto, Labels, SpinSees, SpinQuits, SpinGivesUp, Park, Unpark, ParkShort,
                  ParkSleeps, ParkWakes, Activate, GateCheck, JobCheck, Retire
    <2>2. QED
      BY <1>5, <2>1
  <1>9. CASE SpuriousWakeup \/ UNCHANGED vars
    BY <1>1, <1>9 DEF SpuriousWakeup, vars
  <1>10. QED
    BY <1>2, <1>3, <1>4, <1>6, <1>7, <1>8, <1>9 DEF Next, Terminated

\* A chunk is not None.
LEMMA ChunkRecord ==
    ASSUME NEW d \in Callers, NEW S \in SUBSET Nat, NEW x, x = [job |-> d, items |-> S]
    PROVE  x # None /\ x.job = d /\ x.items = S
  <1>1. x \in [job : Callers, items : SUBSET Nat]
    OBVIOUS
  <1>2. QED
    BY <1>1, NoneIsNoChunk

\* What taking a chunk and ending one do to the items to do.
LEMMA TakenTodo ==
    ASSUME NEW t \in Threads, NEW d \in Callers, NEW S \in SUBSET Nat,
           \A u \in Threads \ {t} : flightOf'[u] = flightOf[u],
           flightOf[t] = None, flightOf'[t] = [job |-> d, items |-> S],
           UNCHANGED <<ran, args>>
    PROVE  todoOf' = [todoOf EXCEPT ![d] = @ \ S]
  <1>0. flightOf'[t] # None /\ flightOf'[t].job = d /\ flightOf'[t].items = S
    BY ChunkRecord
  <1>1. ASSUME NEW c \in Callers
        PROVE  TodoIn(args[c].n, ran[c], flightOf', c) =
                  IF c = d THEN TodoIn(args[c].n, ran[c], flightOf, c) \ S
                           ELSE TodoIn(args[c].n, ran[c], flightOf, c)
    <2>1. \A i : i \in TodoIn(args[c].n, ran[c], flightOf', c) <=>
                    i \in TodoIn(args[c].n, ran[c], flightOf, c) /\ (c = d => i \notin S)
      BY <1>0 DEF TodoIn
    <2>2. QED
      BY <2>1
  <1>2. \A c \in Callers : todoOf'[c] = IF c = d THEN todoOf[c] \ S ELSE todoOf[c]
    BY <1>1, TodoAt
  <1>3. QED
    BY <1>2, TodoAt

LEMMA FinishedTodo ==
    ASSUME NEW t \in Threads, NEW d \in Callers, NEW S \in SUBSET Nat,
           \A u \in Threads \ {t} : flightOf'[u] = flightOf[u],
           flightOf[t] = [job |-> d, items |-> S], flightOf'[t] = None,
           \A c \in Callers : ran'[c] = IF c = d THEN ran[c] \cup S ELSE ran[c],
           UNCHANGED args
    PROVE  todoOf' = todoOf
  <1>0. flightOf[t] # None /\ flightOf[t].job = d /\ flightOf[t].items = S
    BY ChunkRecord
  <1>1. ASSUME NEW c \in Callers
        PROVE  TodoIn(args[c].n, ran'[c], flightOf', c) = TodoIn(args[c].n, ran[c], flightOf, c)
    <2>1. ASSUME NEW i
          PROVE  i \in TodoIn(args[c].n, ran'[c], flightOf', c) <=>
                    i \in TodoIn(args[c].n, ran[c], flightOf, c)
      <3> DEFINE Free(f) == \A u \in Threads : f[u] = None \/ f[u].job # c \/ i \notin f[u].items
      <3>1. i \in TodoIn(args[c].n, ran[c], flightOf, c) <=>
                i \in 0 .. args[c].n - 1 /\ i \notin ran[c] /\ Free(flightOf)
        BY DEF TodoIn
      <3>2. i \in TodoIn(args[c].n, ran'[c], flightOf', c) <=>
                i \in 0 .. args[c].n - 1 /\ i \notin ran'[c] /\ Free(flightOf')
        BY DEF TodoIn
      <3>3. Free(flightOf) <=> Free(flightOf') /\ (d # c \/ i \notin S)
        BY <1>0
      <3>4. i \notin ran'[c] <=> i \notin ran[c] /\ (d # c \/ i \notin S)
        OBVIOUS
      <3>5. QED
        BY <3>1, <3>2, <3>3, <3>4
    <2>2. QED
      BY <2>1
  <1>2. \A c \in Callers : todoOf'[c] = todoOf[c]
    BY <1>1, TodoAt
  <1>3. QED
    BY <1>2, TodoAt

\* What the steps of the contract need.
PoolInv == TypeOK /\ GateInv /\ JobInv /\ ItemInv /\ ArgsInv

\* Outside its publication and its inline loop a call has no chunk in flight.
LEMMA NoFlights ==
    ASSUME PoolInv, NEW c \in Callers, pc[c] \notin Working \cup {"inline"}
    PROVE  \A t \in Threads : flightOf[t] = None \/ flightOf[t].job # c
  <1> SUFFICES ASSUME NEW t \in Threads PROVE flightOf[t] = None \/ flightOf[t].job # c
    OBVIOUS
  <1>1. CASE pc[t] = "run"
    <2>1. flightOf[t] = [job |-> loc[t].ctx, items |-> Chunk(t)]
      BY <1>1, FlightAt, Zenon
    <2>2. pc[loc[t].ctx] \in Working
      BY <1>1, RunnerServes DEF PoolInv
    <2>3. flightOf[t].job = loc[t].ctx
      BY <2>1
    <2>4. QED
      BY <2>2, <2>3
  <1>2. CASE pc[t] = "inline"
    <2>1. flightOf[t] = [job |-> t, items |-> 0 .. args[t].n - 1]
      BY <1>2, FlightAt, Zenon
    <2>2. flightOf[t].job = t
      BY <2>1
    <2>3. QED
      BY <1>2, <2>2
  <1>3. CASE pc[t] \notin {"run", "inline"}
    BY <1>3, FlightAt
  <1>4. QED
    BY <1>1, <1>2, <1>3

\* Then what is to do of it is what was not run.
LEMMA TodoRest ==
    ASSUME PoolInv, NEW c \in Callers, pc[c] \notin Working \cup {"inline"}, NEW k, NEW r
    PROVE  TodoIn(k, r, flightOf, c) = (0 .. k - 1) \ r
  BY NoFlights DEF TodoIn

\* The steps that are the contract's, one lemma each.
LEMMA BeginStep ==
    ASSUME PoolInv, NEW c \in Callers, Call(c)
    PROVE  PF!Begin(c)
  <1>1. pc[c] = "idle" /\ pc' = [pc EXCEPT ![c] = "called"] /\ UNCHANGED <<ran, loc, snap>>
    BY DEF Call, Goto
  <1>2. PICK k \in ItemCounts :
            \E us \in Nat \ {0} : args' = [args EXCEPT ![c] = [n |-> k, usable |-> us]]
    <2>1. PICK k \in ItemCounts, m \in MinItems :
              args' = [args EXCEPT ![c] = [n |-> k, usable |-> Usable(k, m)]]
      BY DEF Call
    <2>2. Usable(k, m) \in Nat \ {0}
      BY UsableType DEF PoolInv, TypeOK
    <2>3. QED
      BY <2>1, <2>2
  <1>3. /\ args'[c].n = k /\ k \in Nat /\ args[c].n = 0
        /\ \A d \in Callers \ {c} : args'[d] = args[d]
    BY <1>1, <1>2 DEF PoolInv, TypeOK, ArgsInv
  <1>4. flightOf' = flightOf
    <2>1. \A t \in Threads : flightOf'[t] = flightOf[t]
      <3> SUFFICES ASSUME NEW t \in Threads PROVE flightOf'[t] = flightOf[t]
        OBVIOUS
      <3>1. pc[t] = "inline" => t \in Callers \ {c}
        BY <1>1, InlineCaller DEF PoolInv
      <3>2. (pc'[t] = "run" <=> pc[t] = "run") /\ (pc'[t] = "inline" <=> pc[t] = "inline")
        BY <1>1 DEF PoolInv, TypeOK
      <3>3. QED
        BY <1>1, <1>3, <3>1, <3>2, SameFlight
    <2>2. QED
      BY <2>1, FlightFun
  <1>5. TodoIn(k, ran[c], flightOf, c) = 0 .. k - 1
    <2>1. pc[c] \notin Working \cup {"inline"} /\ ran[c] = {}
      BY <1>1 DEF PoolInv, ItemInv, ItemsCounted, Outside, Working, InPool, Rewriting, Draining
    <2>2. TodoIn(k, ran[c], flightOf, c) = (0 .. k - 1) \ ran[c]
      BY <2>1, TodoRest, Zenon
    <2>3. QED
      BY <2>1, <2>2
  <1>6. todoOf' = [todoOf EXCEPT ![c] = 0 .. k - 1]
    <2>1. todoOf'[c] = 0 .. k - 1
      BY <1>1, <1>3, <1>4, <1>5, TodoAt
    <2>2. \A d \in Callers \ {c} : todoOf'[d] = todoOf[d]
      BY <1>1, <1>3, <1>4, TodoAt
    <2>3. QED
      BY <2>1, <2>2, TodoAt
  <1>7. [d \in Callers |-> args'[d].n] = [[d \in Callers |-> args[d].n] EXCEPT ![c] = k]
    BY <1>3
  <1>8. QED
    BY <1>3, <1>4, <1>6, <1>7 DEF PF!Begin

LEMMA EndStep ==
    ASSUME PoolInv, NEW c \in Callers, Return(c)
    PROVE  PF!End(c)
  <1>1. /\ pc[c] = "return" /\ pc' = [pc EXCEPT ![c] = "idle"] /\ UNCHANGED <<loc, snap>>
        /\ args' = [args EXCEPT ![c] = NoArgs] /\ ran' = [ran EXCEPT ![c] = {}]
    BY DEF Return, Goto
  <1>2. /\ args'[c].n = 0 /\ ran'[c] = {}
        /\ \A d \in Callers \ {c} : args'[d] = args[d] /\ ran'[d] = ran[d]
    BY <1>1 DEF PoolInv, TypeOK, NoArgs
  <1>3. args[c].n # 0 /\ ran[c] = 0 .. args[c].n - 1
    BY <1>1 DEF PoolInv, ArgsInv, ItemInv, ItemsCounted
  <1>4. pc[c] \notin Working \cup {"inline"}
    BY <1>1 DEF Working, InPool, Rewriting, Draining
  <1>5. flightOf' = flightOf
    <2>1. \A t \in Threads : flightOf'[t] = flightOf[t]
      <3> SUFFICES ASSUME NEW t \in Threads PROVE flightOf'[t] = flightOf[t]
        OBVIOUS
      <3>1. pc[t] = "inline" => t \in Callers \ {c}
        BY <1>1, InlineCaller DEF PoolInv
      <3>2. (pc'[t] = "run" <=> pc[t] = "run") /\ (pc'[t] = "inline" <=> pc[t] = "inline")
        BY <1>1 DEF PoolInv, TypeOK
      <3>3. QED
        BY <1>1, <1>2, <3>1, <3>2, SameFlight
    <2>2. QED
      BY <2>1, FlightFun
  <1>6. todoOf[c] = {} /\ todoOf'[c] = {}
    <2>1. TodoIn(args[c].n, ran[c], flightOf, c) = {}
      <3>1. TodoIn(args[c].n, ran[c], flightOf, c) = (0 .. args[c].n - 1) \ ran[c]
        BY <1>4, TodoRest, Zenon
      <3>2. QED
        BY <1>3, <3>1
    <2>2. TodoIn(0, {}, flightOf, c) = {}
      BY <1>4, TodoRest
    <2>3. QED
      BY <1>2, <1>5, <2>1, <2>2, TodoAt
  <1>7. todoOf' = todoOf
    <2>1. \A d \in Callers : todoOf'[d] = todoOf[d]
      BY <1>2, <1>5, <1>6, TodoAt
    <2>2. QED
      BY <2>1, TodoAt
  <1>8. [d \in Callers |-> args'[d].n] = [[d \in Callers |-> args[d].n] EXCEPT ![c] = 0]
    BY <1>2
  <1>9. QED
    BY <1>3, <1>4, <1>5, <1>6, <1>7, <1>8, NoFlights DEF PF!End

LEMMA InlineStep ==
    ASSUME PoolInv, NEW c \in Callers, CallInline(c)
    PROVE  PF!Take(c, c)
  <1> DEFINE items == 0 .. args[c].n - 1
  <1>1. pc[c] = "called" /\ pc' = [pc EXCEPT ![c] = "inline"] /\ UNCHANGED <<ran, args, loc, snap>>
    BY DEF CallInline, Goto
  <1>2. args[c].n \in Nat \ {0} /\ ran[c] = {} /\ pc[c] \notin Working \cup {"inline"}
    BY <1>1 DEF PoolInv, ArgsInv, ItemInv, ItemsCounted, Outside, Working, InPool, Rewriting,
           Draining
  <1>3. pc'[c] = "inline" /\ \A t \in Threads \ {c} : pc'[t] = pc[t]
    BY <1>1 DEF PoolInv, TypeOK
  <1>4. flightOf[c] = None /\ flightOf'[c] = [job |-> c, items |-> items]
    <2>1. flightOf[c] = None
      BY <1>1, FlightAt
    <2>2. flightOf'[c] = [job |-> c, items |-> 0 .. args'[c].n - 1]
      BY <1>3, FlightAt, Zenon
    <2>3. QED
      BY <1>1, <2>1, <2>2, Zenon
  <1>5. \A t \in Threads \ {c} : flightOf'[t] = flightOf[t]
    BY <1>1, <1>3, InlineCaller, SameFlight DEF PoolInv
  <1>6. flightOf' = [flightOf EXCEPT ![c] = [job |-> c, items |-> items]]
    BY <1>4, <1>5, FlightFun, Zenon
  <1>7. items \in SUBSET Nat /\ items # {}
    <2>1. 0 \in items
      BY <1>2
    <2>2. QED
      BY <1>2, <2>1
  <1> HIDE DEF items
  <1>8. todoOf[c] = items
    <2>0. pc[c] \notin Working \cup {"inline"}
      BY <1>2
    <2>1. TodoIn(args[c].n, ran[c], flightOf, c) = (0 .. args[c].n - 1) \ ran[c]
      BY <2>0, TodoRest, Zenon
    <2>2. QED
      BY <1>2, <2>1, TodoAt DEF items
  <1>9. todoOf' = [todoOf EXCEPT ![c] = @ \ items]
    BY <1>1, <1>4, <1>5, <1>7, TakenTodo
  <1>10. items \in (SUBSET todoOf[c]) \ {{}}
    BY <1>7, <1>8
  <1>11. QED
    <2>1. [d \in Callers |-> args'[d].n] = [d \in Callers |-> args[d].n]
      BY <1>1
    <2>2. QED
      BY <1>4, <1>6, <1>9, <1>10, <2>1, Zenon DEF PF!Take

LEMMA TakeStep ==
    ASSUME PoolInv, NEW t \in Threads, CasClaims(t)
    PROVE  \E c \in Callers : PF!Take(t, c)
  <1>1. /\ pc[t] = "cas" /\ pc' = [pc EXCEPT ![t] = "run"] /\ UNCHANGED <<ran, args, loc, snap>>
        /\ cursor.pos = snap[t].pos
    BY DEF CasClaims, Goto
  <1>2. PICK c \in Callers : pc[c] \in Working \ {"close"}
    BY ClaimServesCall DEF PoolInv
  <1>3. loc[t].ctx = c /\ loc[t].end = args[c].n
    BY <1>1, <1>2 DEF PoolInv, JobInv, LocalsCurrent, PublisherInside, Holding
  <1>4. pc'[t] = "run" /\ \A u \in Threads \ {t} : pc'[u] = pc[u]
    BY <1>1 DEF PoolInv, TypeOK
  <1>5. flightOf[t] = None /\ flightOf'[t] = [job |-> c, items |-> Chunk(t)]
    <2>1. flightOf[t] = None
      BY <1>1, FlightAt
    <2>2. flightOf'[t] = [job |-> loc'[t].ctx, items |-> Chunk(t)']
      BY <1>4, FlightAt, Zenon
    <2>3. Chunk(t)' = Chunk(t)
      BY <1>1 DEF Chunk
    <2>4. QED
      BY <1>1, <1>3, <2>1, <2>2, <2>3, Zenon
  <1>6. \A u \in Threads \ {t} : flightOf'[u] = flightOf[u]
    BY <1>1, <1>4, InlineCaller, SameFlight DEF PoolInv
  <1>7. flightOf' = [flightOf EXCEPT ![t] = [job |-> c, items |-> Chunk(t)]]
    BY <1>5, <1>6, FlightFun, Zenon
  <1>8. /\ snap[t].pos \in Nat /\ snap[t].next \in Nat /\ snap[t].pos < snap[t].next
        /\ snap[t].next <= args[c].n /\ args[c].n \in Nat
    BY <1>1, <1>3 DEF PoolInv, TypeOK, JobInv, LocalsCurrent
  <1>9. /\ \A i \in Chunk(t) : i \in 0 .. args[c].n - 1 /\ cursor.pos <= i
        /\ Chunk(t) \in SUBSET Nat /\ Chunk(t) # {}
    <2>1. snap[t].pos \in Chunk(t)
      BY <1>8 DEF Chunk
    <2>2. QED
      BY <1>1, <1>8, <2>1 DEF Chunk
  <1>10. Chunk(t) \subseteq todoOf[c]
    <2> SUFFICES ASSUME NEW i \in Chunk(t) PROVE i \in TodoIn(args[c].n, ran[c], flightOf, c)
      BY TodoAt
    <2>1. i \in 0 .. args[c].n - 1 /\ cursor.pos <= i /\ i \in Nat /\ cursor.pos \in Nat
      BY <1>8, <1>9 DEF PoolInv, TypeOK
    <2>2. i \notin ran[c]
      <3>1. ran[c] \subseteq 0 .. cursor.pos - 1
        BY <1>2 DEF PoolInv, ItemInv, ItemsCounted
      <3>2. QED
        BY <2>1, <3>1
    <2>3. ASSUME NEW u \in Threads
          PROVE  flightOf[u] = None \/ flightOf[u].job # c \/ i \notin flightOf[u].items
      <3>1. CASE pc[u] = "run"
        <4>1. Chunk(u) \subseteq 0 .. snap[u].next - 1 /\ snap[u].next <= cursor.pos
          BY <3>1, ChunkFacts DEF PoolInv, ItemInv, ChunksClaimed
        <4>2. snap[u].next \in Nat
          BY DEF PoolInv, TypeOK
        <4>3. i \notin Chunk(u)
          BY <2>1, <4>1, <4>2
        <4>4. flightOf[u] = [job |-> loc[u].ctx, items |-> Chunk(u)]
          BY <3>1, FlightAt, Zenon
        <4>5. flightOf[u].items = Chunk(u)
          BY <4>4
        <4>6. QED
          BY <4>3, <4>5
      <3>2. CASE pc[u] = "inline"
        <4>1. u # c
          BY <1>2, <3>2 DEF Working, InPool, Rewriting, Draining
        <4>2. flightOf[u] = [job |-> u, items |-> 0 .. args[u].n - 1]
          BY <3>2, FlightAt, Zenon
        <4>3. flightOf[u].job = u
          BY <4>2
        <4>4. QED
          BY <4>1, <4>3
      <3>3. CASE pc[u] \notin {"run", "inline"}
        BY <3>3, FlightAt
      <3>4. QED
        BY <3>1, <3>2, <3>3
    <2>4. QED
      BY <2>1, <2>2, <2>3 DEF TodoIn
  <1>11. todoOf' = [todoOf EXCEPT ![c] = @ \ Chunk(t)]
    BY <1>1, <1>5, <1>6, <1>9, TakenTodo
  <1>12. Chunk(t) \in (SUBSET todoOf[c]) \ {{}}
    BY <1>9, <1>10
  <1>13. QED
    <2>1. [d \in Callers |-> args'[d].n] = [d \in Callers |-> args[d].n]
      BY <1>1
    <2>2. QED
      BY <1>5, <1>7, <1>11, <1>12, <2>1, Zenon DEF PF!Take

LEMMA FinishInlineStep ==
    ASSUME PoolInv, NEW c \in Callers, InlineDone(c)
    PROVE  PF!Finish(c)
  <1> DEFINE items == 0 .. args[c].n - 1
  <1>1. /\ pc[c] = "inline" /\ pc' = [pc EXCEPT ![c] = "return"] /\ UNCHANGED <<args, loc, snap>>
        /\ ran' = [ran EXCEPT ![c] = items]
    BY DEF InlineDone, Goto
  <1>2. ran[c] = {}
    BY <1>1 DEF PoolInv, ItemInv, ItemsCounted, Outside
  <1>3. pc'[c] = "return" /\ \A t \in Threads \ {c} : pc'[t] = pc[t]
    BY <1>1 DEF PoolInv, TypeOK
  <1>4. flightOf[c] = [job |-> c, items |-> items] /\ flightOf'[c] = None
    <2>1. flightOf[c] = [job |-> c, items |-> items]
      BY <1>1, FlightAt, Zenon
    <2>2. flightOf'[c] = None
      BY <1>3, FlightAt
    <2>3. QED
      BY <2>1, <2>2
  <1>5. \A t \in Threads \ {c} : flightOf'[t] = flightOf[t]
    BY <1>1, <1>3, InlineCaller, SameFlight DEF PoolInv
  <1>6. flightOf' = [flightOf EXCEPT ![c] = None]
    BY <1>4, <1>5, FlightFun, Zenon
  <1>7. items \in SUBSET Nat
    BY DEF PoolInv, TypeOK
  <1>8. \A d \in Callers : ran'[d] = IF d = c THEN ran[d] \cup items ELSE ran[d]
    BY <1>1, <1>2 DEF PoolInv, TypeOK
  <1> HIDE DEF items
  <1>9. todoOf' = todoOf
    <2>1. c \in Threads
      OBVIOUS
    <2>2. UNCHANGED args
      BY <1>1
    <2>3. QED
      BY <1>4, <1>5, <1>7, <1>8, <2>1, <2>2, FinishedTodo
  <1>10. QED
    BY <1>1, <1>4, <1>6, <1>7, <1>9, NoneIsNoChunk DEF PF!Finish

LEMMA FinishStep ==
    ASSUME PoolInv, NEW t \in Threads, ChunkDone(t)
    PROVE  PF!Finish(t)
  <1> DEFINE c == loc[t].ctx
  <1>1. /\ pc[t] = "run" /\ \E l \in {"signal", "claim"} : pc' = [pc EXCEPT ![t] = l]
        /\ ran' = [ran EXCEPT ![c] = @ \cup Chunk(t)] /\ UNCHANGED <<args, loc>>
        /\ \A u \in Threads \ {t} : snap'[u] = snap[u]
    BY DEF ChunkDone, Goto, PoolInv, TypeOK
  <1>2. c \in Callers
    BY <1>1, RunnerServes DEF PoolInv
  <1>3. pc'[t] \in {"signal", "claim"} /\ \A u \in Threads \ {t} : pc'[u] = pc[u]
    BY <1>1 DEF PoolInv, TypeOK
  <1>4. flightOf[t] = [job |-> c, items |-> Chunk(t)] /\ flightOf'[t] = None
    <2>1. flightOf[t] = [job |-> c, items |-> Chunk(t)]
      BY <1>1, FlightAt, Zenon
    <2>2. flightOf'[t] = None
      BY <1>3, FlightAt
    <2>3. QED
      BY <2>1, <2>2
  <1>5. \A u \in Threads \ {t} : flightOf'[u] = flightOf[u]
    BY <1>1, <1>3, InlineCaller, SameFlight DEF PoolInv
  <1>6. flightOf' = [flightOf EXCEPT ![t] = None]
    BY <1>4, <1>5, FlightFun, Zenon
  <1>7. Chunk(t) \in SUBSET Nat
    BY DEF PoolInv, TypeOK, Chunk
  <1>8. \A d \in Callers : ran'[d] = IF d = c THEN ran[d] \cup Chunk(t) ELSE ran[d]
    BY <1>1, <1>2 DEF PoolInv, TypeOK
  <1> HIDE DEF c
  <1>9. todoOf' = todoOf
    <2>1. UNCHANGED args
      BY <1>1
    <2>2. \A d \in Callers : ran'[d] = IF d = c THEN ran[d] \cup Chunk(t) ELSE ran[d]
      BY <1>8
    <2> QED
      BY <1>2, <1>4, <1>5, <1>7, <2>1, <2>2, FinishedTodo
  <1>10. QED
    BY <1>1, <1>2, <1>4, <1>6, <1>7, <1>9, NoneIsNoChunk DEF PF!Finish

LEMMA PoolStep == ASSUME PoolInv, [Next]_vars PROVE [PF!Next]_(PF!vars)
  <1>0. TypeOK /\ GateInv
    BY DEF PoolInv
  <1>1. CASE Owner
    BY <1>0, <1>1, OwnerStill, StillPF
  <1>2. ASSUME NEW c \in Callers, Call(c) \/ Publish(c) \/ Await(c) PROVE [PF!Next]_(PF!vars)
    <2>1. CASE Call(c)
      BY <2>1, BeginStep DEF PF!Next
    <2>2. CASE CallInline(c)
      BY <2>2, InlineStep DEF PF!Next
    <2>3. CASE InlineDone(c)
      BY <2>3, FinishInlineStep DEF PF!Next
    <2>4. CASE Return(c)
      BY <2>4, EndStep DEF PF!Next
    <2>5. CASE ~(Call(c) \/ CallInline(c) \/ InlineDone(c) \/ Return(c))
      BY <1>0, <1>2, <2>5, CallerStill, StillPF DEF Publish, Await
    <2>6. QED
      BY <2>1, <2>2, <2>3, <2>4, <2>5
  <1>3. ASSUME NEW t \in Threads, Drain(t) PROVE [PF!Next]_(PF!vars)
    <2>1. CASE CasClaims(t)
      BY <2>1, TakeStep DEF PF!Next
    <2>2. CASE ChunkDone(t)
      BY <2>2, FinishStep DEF PF!Next
    <2>3. CASE ~(CasClaims(t) \/ ChunkDone(t))
      BY <1>0, <1>3, <2>3, DrainStill, StillPF DEF Drain
    <2>4. QED
      BY <2>1, <2>2, <2>3
  <1>4. ASSUME NEW w \in Workers, Work(w) PROVE [PF!Next]_(PF!vars)
    BY <1>0, <1>4, WorkerStill, StillPF
  <1>5. CASE SpuriousWakeup \/ UNCHANGED vars
    <2>1. UNCHANGED <<pc, args, loc, snap, ran>>
      BY <1>5 DEF SpuriousWakeup, vars
    <2>2. QED
      BY <1>0, <2>1, StillPF DEF ChunksStay
  <1>6. QED
    BY <1>1, <1>2, <1>3, <1>4, <1>5 DEF Next, Terminated

\* Every step of the pool is a step of the contract of tpool_parallel_for, or
\* leaves it alone.
THEOREM PoolImplementsParallelFor == Spec => ImplementsParallelFor
  <1>1. Init => PF!Init
    <2> SUFFICES ASSUME Init PROVE PF!Init
      OBVIOUS
    <2>1. \A t \in Threads : flightOf[t] = None
      <3>1. \A t \in Threads : pc[t] \in {"idle", "unborn"}
        BY DEF Init
      <3>2. QED
        BY <3>1, FlightAt
    <2>2. flightOf = [t \in Threads |-> None]
      BY <2>1, FlightFun
    <2>3. \A c \in Callers : args[c].n = 0
      BY DEF Init, NoArgs
    <2>4. todoOf = [c \in Callers |-> {}]
      BY <2>3, TodoAt DEF TodoIn
    <2>5. [c \in Callers |-> args[c].n] = [c \in Callers |-> 0]
      BY <2>3
    <2>6. QED
      BY <2>2, <2>4, <2>5 DEF PF!Init
  <1>2. Init => ArgsInv
    BY DEF Init, ArgsInv, NoArgs
  <1>3. TypeOK /\ GateInv /\ ArgsInv /\ [Next]_vars => ArgsInv'
    BY ArgsNext
  <1>4. TypeOK /\ GateInv /\ (JobInv /\ ItemInv) /\ ArgsInv /\ [Next]_vars => [PF!Next]_(PF!vars)
    BY PoolStep DEF PoolInv
  <1>5. QED
    BY <1>1, <1>2, <1>3, <1>4, TypeCorrect, GateCorrect, JobCorrect, PTL
       DEF Spec, ImplementsParallelFor, PF!Spec
=============================================================================
