----------------------------- MODULE ThreadPool -----------------------------
(***************************************************************************)
(* The data-parallel thread pool of src/src/threadpool.c: tpool_create,    *)
(* tpool_parallel_for, the worker loop and tpool_destroy.                  *)
(*                                                                         *)
(* A step of this module is one access to shared memory: one atomic load,  *)
(* store or read-modify-write, or one critical section whose inside no     *)
(* other thread can observe.  Accesses are interleaved sequentially        *)
(* consistently, except the one pair the code leaves unordered: the        *)
(* release store of pub_gate may become visible after the acquire load of  *)
(* active_workers that follows it (action PubRetiredEarly).                *)
(***************************************************************************)
EXTENDS Integers, FiniteSets

CONSTANTS
    Callers,            \* threads that call tpool_parallel_for
    NThreads,           \* threads asked of tpool_create, the caller included
    ItemCounts,         \* values of n_items
    MinItems,           \* values of min_items_per_thread
    MinChunksPerThread, \* TPOOL_MIN_CHUNKS_PER_THREAD (32 in the code)
    GuidedDivisor,      \* TPOOL_GUIDED_DIVISOR (4 in the code)
    MaxEpoch,           \* bound: no call starts once this many jobs were published
    None                \* no owner, no job function

ASSUME ConstantsAssumption ==
    /\ NThreads \in Nat \ {0}
    /\ ItemCounts \subseteq Nat \ {0}
    /\ MinItems \subseteq Nat \ {0}
    /\ MinChunksPerThread \in Nat \ {0}
    /\ GuidedDivisor \in Nat \ {0}
    /\ MaxEpoch \in Nat
    /\ \A c \in Callers : c \notin Nat
    /\ None \notin Callers
    /\ None \notin Nat

\* None is no chunk either (flightOf below).
ASSUME NoneIsNoChunk == None \notin [job : Callers, items : SUBSET Nat]

\* Worker i is the thread whose tid is i; a caller drains with tid 0.
Workers == 1 .. NThreads - 1
Threads == Callers \cup Workers

VARIABLES
    life,       \* where the owner is in tpool_create / tpool_destroy
    started,    \* threads created so far, the caller counted as one
    nThreads,   \* tpool.n_threads
    \* tpool_sync_block
    epoch, parked, shutdown, pubGate, active, inJob, doneWaiting,
    \* tpool_job_block
    jobEnd, chunkSize, jobCtx, executed, cursor, nWorkers, jobEpoch,
    \* mutexes (their owner, or None) and condition variables (their waiters)
    pubMtx, wakeMtx, doneMtx, wakeWait, doneWait,
    \* locals of the threads
    pc,         \* next step of each thread
    ep,         \* new_epoch / expected_epoch (a worker's last_seen too)
    args,       \* a caller's n_items and usable
    loc,        \* the job fields tpool_drain_work has loaded
    snap,       \* the chunk [pos, next) a thread tries to claim or runs
                \* (locals go back to their initial value when they die)
    \* history
    ran         \* items of each caller's current call already executed

ownerVars == <<life, started, nThreads>>
syncVars  == <<epoch, parked, shutdown, pubGate, active, inJob, doneWaiting>>
jobVars   == <<jobEnd, chunkSize, jobCtx, executed, cursor, nWorkers, jobEpoch>>
lockVars  == <<pubMtx, wakeMtx, doneMtx, wakeWait, doneWait>>
vars == <<ownerVars, syncVars, jobVars, lockVars, pc, ep, args, loc, snap, ran>>

Goto(t, l) == pc' = [pc EXCEPT ![t] = l]

AtLeast(a, b) == IF a < b THEN b ELSE a
AtMost(a, b)  == IF a > b THEN b ELSE a

\* How many threads a call may use, and the least size of a claimed chunk.
Usable(n, m)    == AtMost(AtLeast(n \div m, 1), nThreads)
\* Fault: a small loop gets chunks of no items.
MinChunkUnclamped(n, us) == n \div (us * MinChunksPerThread)

MinChunk(n, us) == AtLeast(n \div (us * MinChunksPerThread), 1)

\* Where the chunk claimed at position pos ends (guided self-scheduling).
ChunkEnd(l, pos) ==
    AtMost(pos + AtLeast((l.end - pos) \div (GuidedDivisor * l.nActive), l.chunk),
           l.end)

NoLoc  == [ctx |-> None, end |-> 0, chunk |-> 1, nActive |-> 1]
NoSnap == [pos |-> 0, next |-> 0]
NoArgs == [n |-> 0, usable |-> 1]

Init ==
    /\ life = "creating" /\ started = 1 /\ nThreads = NThreads
    /\ epoch = 0 /\ parked = 0 /\ shutdown = FALSE /\ pubGate = 0
    /\ active = 0 /\ inJob = FALSE /\ doneWaiting = FALSE
    /\ jobEnd = 0 /\ chunkSize = 1 /\ jobCtx = None /\ executed = 0
    /\ cursor = [ep |-> 0, pos |-> 0] /\ nWorkers = 0 /\ jobEpoch = 0
    /\ pubMtx = None /\ wakeMtx = None /\ doneMtx = None
    /\ wakeWait = {} /\ doneWait = {}
    /\ pc = [t \in Threads |-> IF t \in Callers THEN "idle" ELSE "unborn"]
    /\ ep = [t \in Threads |-> 0]
    /\ args = [c \in Callers |-> NoArgs]
    /\ loc = [t \in Threads |-> NoLoc]
    /\ snap = [t \in Threads |-> NoSnap]
    /\ ran = [c \in Callers |-> {}]

-----------------------------------------------------------------------------
(* tpool_create and tpool_destroy, run by the owner of the pool.           *)

Exited(ws) == \A w \in ws : pc[w] = "exited"

Spawn ==
    /\ life = "creating" /\ started < NThreads
    /\ Goto(started, "spin")
    /\ started' = started + 1
    /\ UNCHANGED <<life, nThreads, syncVars, jobVars, lockVars, ep, args, loc, snap, ran>>

\* pthread_create fails: the workers already started are told to leave.
SpawnFails ==
    /\ life = "creating" /\ started < NThreads
    /\ shutdown' = TRUE
    /\ life' = "failing"
    /\ UNCHANGED <<started, nThreads, epoch, parked, pubGate, active, inJob, doneWaiting,
                   jobVars, lockVars, pc, ep, args, loc, snap, ran>>

Created ==
    /\ life = "creating" /\ started = NThreads
    /\ life' = "live"
    /\ UNCHANGED <<started, nThreads, syncVars, jobVars, lockVars,
                   pc, ep, args, loc, snap, ran>>

\* Callers stop before the pool's owner destroys it.
Destroy ==
    /\ life = "live"
    /\ \A c \in Callers : pc[c] = "idle"
    /\ shutdown' = TRUE
    /\ life' = "closing"
    /\ UNCHANGED <<started, nThreads, epoch, parked, pubGate, active, inJob, doneWaiting,
                   jobVars, lockVars, pc, ep, args, loc, snap, ran>>

\* Fault: the shutdown is broadcast without wake_mtx.
ShutdownBroadcastUnlocked ==
    /\ life \in {"failing", "closing"}
    /\ wakeWait' = {}
    /\ life' = IF life = "failing" THEN "unwinding" ELSE "joining"
    /\ UNCHANGED <<started, nThreads, syncVars, jobVars, pubMtx, wakeMtx, doneMtx, doneWait,
                   pc, ep, args, loc, snap, ran>>

ShutdownBroadcast ==
    /\ life \in {"failing", "closing"}
    /\ wakeMtx = None
    /\ wakeWait' = {}
    /\ life' = IF life = "failing" THEN "unwinding" ELSE "joining"
    /\ UNCHANGED <<started, nThreads, syncVars, jobVars, pubMtx, wakeMtx, doneMtx, doneWait,
                   pc, ep, args, loc, snap, ran>>

\* The failed creation joins the workers it started, and still returns a pool:
\* one whose n_threads counts those workers, although they have left.
Unwound ==
    /\ life = "unwinding"
    /\ Exited(1 .. started - 1)
    /\ nThreads' = started
    /\ shutdown' = FALSE
    /\ life' = "live"
    /\ UNCHANGED <<started, epoch, parked, pubGate, active, inJob, doneWaiting,
                   jobVars, lockVars, pc, ep, args, loc, snap, ran>>

\* The threads tpool_destroy joins that were joined before, by the creation
\* that failed.
JoinedBefore == {w \in 1 .. nThreads - 1 : started < NThreads}

Freed ==
    /\ life = "joining" /\ JoinedBefore = {}
    /\ Exited(1 .. nThreads - 1)
    /\ life' = "freed"
    /\ UNCHANGED <<started, nThreads, syncVars, jobVars, lockVars,
                   pc, ep, args, loc, snap, ran>>

\* To join a thread a second time is undefined: pthread_join may return an
\* error, which nobody looks at, or the process crashes or hangs.
JoinsAgain ==
    /\ life = "joining" /\ JoinedBefore # {}
    /\ life' \in {"freed", "undefined"}
    /\ UNCHANGED <<started, nThreads, syncVars, jobVars, lockVars,
                   pc, ep, args, loc, snap, ran>>

Owner == \/ Spawn \/ SpawnFails \/ Created \/ Destroy
         \/ ShutdownBroadcast \/ Unwound \/ Freed \/ JoinsAgain

-----------------------------------------------------------------------------
(* tpool_parallel_for up to the publication of the job.                    *)

Call(c) ==
    /\ life = "live" /\ pc[c] = "idle"
    /\ epoch < MaxEpoch
    /\ \E n \in ItemCounts, m \in MinItems :
           args' = [args EXCEPT ![c] = [n |-> n, usable |-> Usable(n, m)]]
    /\ Goto(c, "called")
    /\ UNCHANGED <<ownerVars, syncVars, jobVars, lockVars, ep, loc, snap, ran>>

\* A job is running (this call may be nested in it) or one thread is enough.
CallInline(c) ==
    /\ pc[c] = "called"
    /\ inJob \/ args[c].usable <= 1
    /\ Goto(c, "inline")
    /\ UNCHANGED <<ownerVars, syncVars, jobVars, lockVars, ep, args, loc, snap, ran>>

InlineDone(c) ==
    /\ pc[c] = "inline"
    /\ ran' = [ran EXCEPT ![c] = 0 .. args[c].n - 1]
    /\ Goto(c, "return")
    /\ UNCHANGED <<ownerVars, syncVars, jobVars, lockVars, ep, args, loc, snap>>

CallPool(c) ==
    /\ pc[c] = "called"
    /\ ~inJob /\ args[c].usable > 1
    /\ Goto(c, "lock")
    /\ UNCHANGED <<ownerVars, syncVars, jobVars, lockVars, ep, args, loc, snap, ran>>

PubLock(c) ==
    /\ pc[c] = "lock"
    /\ pubMtx = None
    /\ pubMtx' = c
    /\ ep' = [ep EXCEPT ![c] = epoch + 1]
    /\ Goto(c, "gate")
    /\ UNCHANGED <<ownerVars, syncVars, jobVars, wakeMtx, doneMtx, wakeWait, doneWait,
                   args, loc, snap, ran>>

\* Fault: in_job is left clear.
PubGateForgetsInJob(c) ==
    /\ pc[c] \in {"gate", "early"}
    /\ pubGate' = ep[c]
    /\ Goto(c, IF pc[c] = "gate" THEN "gated" ELSE "store")
    /\ UNCHANGED <<ownerVars, epoch, parked, shutdown, active, inJob, doneWaiting, jobVars,
                   lockVars, ep, args, loc, snap, ran>>

\* Close the gate to the workers of earlier epochs ...
PubGate(c) ==
    /\ pc[c] \in {"gate", "early"}
    /\ pubGate' = ep[c]
    /\ inJob' = TRUE
    /\ Goto(c, IF pc[c] = "gate" THEN "gated" ELSE "store")
    /\ UNCHANGED <<ownerVars, epoch, parked, shutdown, active, doneWaiting, jobVars,
                   lockVars, ep, args, loc, snap, ran>>

\* Fault: the publisher does not wait for the retired workers.
PubRetiredAtOnce(c) ==
    /\ pc[c] = "gated"
    /\ Goto(c, "store")
    /\ UNCHANGED <<ownerVars, syncVars, jobVars, lockVars, ep, args, loc, snap, ran>>

\* ... and wait for the last of them to leave the job block.
PubRetired(c) ==
    /\ pc[c] = "gated"
    /\ active = 0
    /\ Goto(c, "store")
    /\ UNCHANGED <<ownerVars, syncVars, jobVars, lockVars, ep, args, loc, snap, ran>>

\* The load of active_workers is satisfied while the store of pub_gate is
\* still in the store buffer: release/acquire does not order the two.
PubRetiredEarly(c) ==
    /\ pc[c] = "gate"
    /\ active = 0
    /\ Goto(c, "early")
    /\ UNCHANGED <<ownerVars, syncVars, jobVars, lockVars, ep, args, loc, snap, ran>>

PubFields(c) ==
    /\ pc[c] = "store"
    /\ jobEnd' = args[c].n
    /\ chunkSize' = MinChunk(args[c].n, args[c].usable)
    /\ jobCtx' = c
    /\ executed' = 0
    /\ Goto(c, "cursor")
    /\ UNCHANGED <<ownerVars, syncVars, cursor, nWorkers, jobEpoch, lockVars,
                   ep, args, loc, snap, ran>>

PubCursor(c) ==
    /\ pc[c] = "cursor"
    /\ cursor' = [ep |-> ep[c], pos |-> 0]
    /\ Goto(c, "stamp")
    /\ UNCHANGED <<ownerVars, syncVars, jobEnd, chunkSize, jobCtx, executed, nWorkers,
                   jobEpoch, lockVars, ep, args, loc, snap, ran>>

PubStamp(c) ==
    /\ pc[c] = "stamp"
    /\ nWorkers' = args[c].usable - 1
    /\ jobEpoch' = ep[c]
    /\ Goto(c, "wake")
    /\ UNCHANGED <<ownerVars, syncVars, jobEnd, chunkSize, jobCtx, executed, cursor,
                   lockVars, ep, args, loc, snap, ran>>

\* Fault: the epoch is stored and broadcast without wake_mtx.
PubWakeUnlocked(c) ==
    /\ pc[c] = "wake"
    /\ epoch' = ep[c]
    /\ wakeWait' = IF parked > 0 THEN {} ELSE wakeWait
    /\ Goto(c, "drain")
    /\ UNCHANGED <<ownerVars, parked, shutdown, pubGate, active, inJob, doneWaiting, jobVars,
                   pubMtx, wakeMtx, doneMtx, doneWait, ep, args, loc, snap, ran>>

\* The epoch changes under wake_mtx, so no worker sleeps through the change.
PubWake(c) ==
    /\ pc[c] = "wake"
    /\ wakeMtx = None
    /\ epoch' = ep[c]
    /\ wakeWait' = IF parked > 0 THEN {} ELSE wakeWait
    /\ Goto(c, "drain")
    /\ UNCHANGED <<ownerVars, parked, shutdown, pubGate, active, inJob, doneWaiting, jobVars,
                   pubMtx, wakeMtx, doneMtx, doneWait, ep, args, loc, snap, ran>>

-----------------------------------------------------------------------------
(* tpool_drain_work and tpool_signal_done, run by the publisher and workers. *)

AfterDrain(t) == IF t \in Callers THEN "wait" ELSE "retire"

Mine(t) == jobEpoch = ep[t] /\ jobCtx # None

\* The test of job_epoch and job_fn never refuses a thread that came through
\* the gate; it is the code's second line of defence.
DrainEnter(t) ==
    /\ pc[t] = "drain"
    /\ loc' = IF Mine(t)
              THEN [loc EXCEPT ![t] = [ctx |-> jobCtx, end |-> jobEnd, chunk |-> chunkSize,
                                       nActive |-> nWorkers + 1]]
              ELSE loc
    /\ Goto(t, IF Mine(t) THEN "claim" ELSE AfterDrain(t))
    /\ UNCHANGED <<ownerVars, syncVars, jobVars, lockVars, ep, args, snap, ran>>

Exhausted(t) == cursor.ep # ep[t] \/ cursor.pos >= loc[t].end

DrainLoad(t) ==
    /\ pc[t] = "claim" /\ ~Exhausted(t)
    /\ snap' = [snap EXCEPT ![t] = [pos |-> cursor.pos, next |-> ChunkEnd(loc[t], cursor.pos)]]
    /\ Goto(t, "cas")
    /\ UNCHANGED <<ownerVars, syncVars, jobVars, lockVars, ep, args, loc, ran>>

DrainLeave(t) ==
    /\ pc[t] = "claim" /\ Exhausted(t)
    /\ loc' = [loc EXCEPT ![t] = NoLoc]
    /\ Goto(t, AfterDrain(t))
    /\ UNCHANGED <<ownerVars, syncVars, jobVars, lockVars, ep, args, snap, ran>>

\* Fault: the cursor is stored without comparing it to the snapshot.
CasClaimsBlindly(t) ==
    /\ pc[t] = "cas"
    /\ cursor.ep = ep[t]
    /\ cursor' = [ep |-> ep[t], pos |-> snap[t].next]
    /\ Goto(t, "run")
    /\ UNCHANGED <<ownerVars, syncVars, jobEnd, chunkSize, jobCtx, executed, nWorkers,
                   jobEpoch, lockVars, ep, args, loc, snap, ran>>

CasClaims(t) ==
    /\ pc[t] = "cas"
    /\ cursor = [ep |-> ep[t], pos |-> snap[t].pos]
    /\ cursor' = [ep |-> ep[t], pos |-> snap[t].next]
    /\ Goto(t, "run")
    /\ UNCHANGED <<ownerVars, syncVars, jobEnd, chunkSize, jobCtx, executed, nWorkers,
                   jobEpoch, lockVars, ep, args, loc, snap, ran>>

\* Another thread moved the cursor, or the weak exchange fails spuriously.
CasFails(t) ==
    /\ pc[t] = "cas"
    /\ snap' = [snap EXCEPT ![t] = NoSnap]
    /\ Goto(t, "claim")
    /\ UNCHANGED <<ownerVars, syncVars, jobVars, lockVars, ep, args, loc, ran>>

Chunk(t) == snap[t].pos .. snap[t].next - 1

\* fn returns and its items are added to executed.
ChunkDone(t) ==
    /\ pc[t] = "run"
    /\ LET done == executed + (snap[t].next - snap[t].pos)
       IN  /\ executed' = done
           /\ Goto(t, IF done = loc[t].end THEN "signal" ELSE "claim")
    /\ ran' = [ran EXCEPT ![loc[t].ctx] = @ \cup Chunk(t)]
    /\ snap' = [snap EXCEPT ![t] = NoSnap]
    /\ UNCHANGED <<ownerVars, syncVars, jobEnd, chunkSize, jobCtx, cursor, nWorkers, jobEpoch,
                   lockVars, ep, args, loc>>

Signal(t) ==
    /\ pc[t] = "signal"
    /\ Goto(t, IF doneWaiting THEN "bcast" ELSE "claim")
    /\ UNCHANGED <<ownerVars, syncVars, jobVars, lockVars, ep, args, loc, snap, ran>>

\* Fault: done_cv is signalled without done_mtx.
DoneBroadcastUnlocked(t) ==
    /\ pc[t] = "bcast"
    /\ doneWait' = {}
    /\ Goto(t, "claim")
    /\ UNCHANGED <<ownerVars, syncVars, jobVars, pubMtx, wakeMtx, doneMtx, wakeWait,
                   ep, args, loc, snap, ran>>

DoneBroadcast(t) ==
    /\ pc[t] = "bcast"
    /\ doneMtx = None
    /\ doneWait' = {}
    /\ Goto(t, "claim")
    /\ UNCHANGED <<ownerVars, syncVars, jobVars, pubMtx, wakeMtx, doneMtx, wakeWait,
                   ep, args, loc, snap, ran>>

Drain(t) == \/ DrainEnter(t) \/ DrainLoad(t) \/ DrainLeave(t)
            \/ CasClaims(t) \/ CasFails(t) \/ ChunkDone(t)
            \/ Signal(t) \/ DoneBroadcast(t)

-----------------------------------------------------------------------------
(* tpool_wait_done and the end of tpool_parallel_for.                      *)

\* Fault: the publisher leaves one item early.
CompleteEarly(c) == executed + 1 >= args[c].n

Complete(c) == executed >= args[c].n

WaitSpins(c) ==
    /\ pc[c] = "wait" /\ Complete(c)
    /\ Goto(c, "close")
    /\ UNCHANGED <<ownerVars, syncVars, jobVars, lockVars, ep, args, loc, snap, ran>>

\* The time budget of the spin is over; the last load of executed was short,
\* but the job may have completed since.
WaitParks(c) ==
    /\ pc[c] = "wait"
    /\ doneWaiting' = TRUE
    /\ Goto(c, "wlock")
    /\ UNCHANGED <<ownerVars, epoch, parked, shutdown, pubGate, active, inJob,
                   jobVars, lockVars, ep, args, loc, snap, ran>>

WaitLocks(c) ==
    /\ pc[c] \in {"wlock", "wsleep"}
    /\ c \notin doneWait
    /\ doneMtx = None
    /\ doneMtx' = c
    /\ Goto(c, "wcheck")
    /\ UNCHANGED <<ownerVars, syncVars, jobVars, pubMtx, wakeMtx, wakeWait, doneWait,
                   ep, args, loc, snap, ran>>

WaitOver(c) ==
    /\ pc[c] = "wcheck" /\ Complete(c)
    /\ doneMtx' = None
    /\ doneWaiting' = FALSE
    /\ Goto(c, "close")
    /\ UNCHANGED <<ownerVars, epoch, parked, shutdown, pubGate, active, inJob, jobVars,
                   pubMtx, wakeMtx, wakeWait, doneWait, ep, args, loc, snap, ran>>

WaitShort(c) ==
    /\ pc[c] = "wcheck" /\ ~Complete(c)
    /\ Goto(c, "wgo")
    /\ UNCHANGED <<ownerVars, syncVars, jobVars, lockVars, ep, args, loc, snap, ran>>

WaitSleeps(c) ==
    /\ pc[c] = "wgo"
    /\ doneMtx' = None
    /\ doneWait' = doneWait \cup {c}
    /\ Goto(c, "wsleep")
    /\ UNCHANGED <<ownerVars, syncVars, jobVars, pubMtx, wakeMtx, wakeWait,
                   ep, args, loc, snap, ran>>

PubClose(c) ==
    /\ pc[c] = "close"
    /\ pubGate' = 0
    /\ inJob' = FALSE
    /\ pubMtx' = None
    /\ Goto(c, "return")
    /\ UNCHANGED <<ownerVars, epoch, parked, shutdown, active, doneWaiting, jobVars,
                   wakeMtx, doneMtx, wakeWait, doneWait, ep, args, loc, snap, ran>>

Return(c) ==
    /\ pc[c] = "return"
    /\ Goto(c, "idle")
    /\ args' = [args EXCEPT ![c] = NoArgs]
    /\ ran' = [ran EXCEPT ![c] = {}]
    /\ UNCHANGED <<ownerVars, syncVars, jobVars, lockVars, ep, loc, snap>>

Publish(c) == \/ CallInline(c) \/ InlineDone(c) \/ CallPool(c) \/ PubLock(c)
              \/ PubGate(c) \/ PubRetired(c) \/ PubRetiredEarly(c) \/ PubFields(c)
              \/ PubCursor(c) \/ PubStamp(c) \/ PubWake(c)
Await(c) == \/ WaitSpins(c) \/ WaitParks(c) \/ WaitLocks(c) \/ WaitOver(c) \/ WaitShort(c)
            \/ WaitSleeps(c) \/ PubClose(c) \/ Return(c)

-----------------------------------------------------------------------------
(* tpool_worker_main and tpool_wait_epoch; ep[w] is the worker's last_seen. *)

SpinSees(w) ==
    /\ pc[w] = "spin" /\ epoch # ep[w]
    /\ ep' = [ep EXCEPT ![w] = epoch]
    /\ Goto(w, "activate")
    /\ UNCHANGED <<ownerVars, syncVars, jobVars, lockVars, args, loc, snap, ran>>

SpinQuits(w) ==
    /\ pc[w] = "spin" /\ epoch = ep[w] /\ shutdown
    /\ Goto(w, "exited")
    /\ UNCHANGED <<ownerVars, syncVars, jobVars, lockVars, ep, args, loc, snap, ran>>

\* The spin budget is over.
SpinGivesUp(w) ==
    /\ pc[w] = "spin"
    /\ Goto(w, "park")
    /\ UNCHANGED <<ownerVars, syncVars, jobVars, lockVars, ep, args, loc, snap, ran>>

Park(w) ==
    /\ pc[w] = "park"
    /\ wakeMtx = None
    /\ wakeMtx' = w
    /\ parked' = parked + 1
    /\ Goto(w, "pcheck")
    /\ UNCHANGED <<ownerVars, epoch, shutdown, pubGate, active, inJob, doneWaiting, jobVars,
                   pubMtx, doneMtx, wakeWait, doneWait, ep, args, loc, snap, ran>>

\* Leave the wait: with a new epoch, or with the old one at shutdown.
Unpark(w) ==
    /\ pc[w] = "pcheck"
    /\ epoch # ep[w] \/ shutdown
    /\ parked' = parked - 1
    /\ wakeMtx' = None
    /\ ep' = [ep EXCEPT ![w] = epoch]
    /\ Goto(w, IF epoch # ep[w] THEN "activate" ELSE "exited")
    /\ UNCHANGED <<ownerVars, epoch, shutdown, pubGate, active, inJob, doneWaiting, jobVars,
                   pubMtx, doneMtx, wakeWait, doneWait, args, loc, snap, ran>>

ParkShort(w) ==
    /\ pc[w] = "pcheck" /\ epoch = ep[w] /\ ~shutdown
    /\ Goto(w, "pgo")
    /\ UNCHANGED <<ownerVars, syncVars, jobVars, lockVars, ep, args, loc, snap, ran>>

ParkSleeps(w) ==
    /\ pc[w] = "pgo"
    /\ wakeMtx' = None
    /\ wakeWait' = wakeWait \cup {w}
    /\ Goto(w, "asleep")
    /\ UNCHANGED <<ownerVars, syncVars, jobVars, pubMtx, doneMtx, doneWait,
                   ep, args, loc, snap, ran>>

\* Woken, the worker takes the mutex back and looks again.
ParkWakes(w) ==
    /\ pc[w] = "asleep" /\ w \notin wakeWait
    /\ wakeMtx = None
    /\ wakeMtx' = w
    /\ Goto(w, "pcheck")
    /\ UNCHANGED <<ownerVars, syncVars, jobVars, pubMtx, doneMtx, wakeWait, doneWait,
                   ep, args, loc, snap, ran>>

Activate(w) ==
    /\ pc[w] = "activate"
    /\ active' = active + 1
    /\ Goto(w, "gatecheck")
    /\ UNCHANGED <<ownerVars, epoch, parked, shutdown, pubGate, inJob, doneWaiting, jobVars,
                   lockVars, ep, args, loc, snap, ran>>

GateCheck(w) ==
    /\ pc[w] = "gatecheck"
    /\ Goto(w, IF pubGate = ep[w] THEN "jobcheck" ELSE "retire")
    /\ UNCHANGED <<ownerVars, syncVars, jobVars, lockVars, ep, args, loc, snap, ran>>

JobCheck(w) ==
    /\ pc[w] = "jobcheck"
    /\ Goto(w, IF jobEpoch = ep[w] /\ w <= nWorkers THEN "drain" ELSE "retire")
    /\ UNCHANGED <<ownerVars, syncVars, jobVars, lockVars, ep, args, loc, snap, ran>>

\* Fault: a worker that was refused never uncounts itself.
RetireForgets(w) ==
    /\ pc[w] = "retire"
    /\ active' = IF pubGate = ep[w] THEN active - 1 ELSE active
    /\ Goto(w, "spin")
    /\ UNCHANGED <<ownerVars, epoch, parked, shutdown, pubGate, inJob, doneWaiting, jobVars,
                   lockVars, ep, args, loc, snap, ran>>

Retire(w) ==
    /\ pc[w] = "retire"
    /\ active' = active - 1
    /\ Goto(w, "spin")
    /\ UNCHANGED <<ownerVars, epoch, parked, shutdown, pubGate, inJob, doneWaiting, jobVars,
                   lockVars, ep, args, loc, snap, ran>>

Work(w) == \/ SpinSees(w) \/ SpinQuits(w) \/ SpinGivesUp(w) \/ Park(w) \/ Unpark(w)
           \/ ParkShort(w) \/ ParkSleeps(w) \/ ParkWakes(w)
           \/ Activate(w) \/ GateCheck(w) \/ JobCheck(w) \/ Retire(w)

\* pthread_cond_wait may return without a signal.
SpuriousWakeup ==
    /\ \E t \in wakeWait \cup doneWait :
           /\ wakeWait' = wakeWait \ {t}
           /\ doneWait' = doneWait \ {t}
    /\ UNCHANGED <<ownerVars, syncVars, jobVars, pubMtx, wakeMtx, doneMtx,
                   pc, ep, args, loc, snap, ran>>

-----------------------------------------------------------------------------
Terminated == life \in {"freed", "undefined"} /\ UNCHANGED vars

Next == \/ Owner
        \/ \E c \in Callers : Call(c) \/ Publish(c) \/ Await(c) \/ Drain(c)
        \/ \E w \in Workers : Work(w) \/ Drain(w)
        \/ SpuriousWakeup
        \/ Terminated

Spec == Init /\ [][Next]_vars

\* The scheduler runs every thread that can run (fn returns, spins end their
\* time budget); a mutex is not kept from one waiter forever, and the weak
\* compare-exchange does not fail forever.  Nobody has to call or destroy.
CallerLocks(c) == PubLock(c) \/ PubWake(c) \/ WaitLocks(c) \/ DoneBroadcast(c)
WorkerLocks(w) == Park(w) \/ ParkWakes(w) \/ DoneBroadcast(w)

Fairness ==
    /\ WF_vars(Spawn \/ Created \/ Unwound \/ Freed \/ JoinsAgain)
    /\ SF_vars(ShutdownBroadcast)
    /\ \A c \in Callers : /\ WF_vars(Publish(c) \/ Await(c) \/ Drain(c))
                         /\ SF_vars(CallerLocks(c))
                         /\ SF_vars(CasClaims(c))
    /\ \A w \in Workers : /\ WF_vars(Work(w) \/ Drain(w))
                         /\ SF_vars(WorkerLocks(w))
                         /\ SF_vars(CasClaims(w))

FairSpec == Spec /\ Fairness

-----------------------------------------------------------------------------
(* Properties.                                                             *)

Labels ==
    {"idle", "called", "inline", "lock", "gate", "early", "gated", "store", "cursor", "stamp",
     "wake", "drain", "claim", "cas", "run", "signal", "bcast", "wait", "wlock", "wcheck",
     "wgo", "wsleep", "close", "return", "unborn", "spin", "park", "pcheck", "pgo", "asleep",
     "activate", "gatecheck", "jobcheck", "retire", "exited"}

TypeOK ==
    /\ life \in {"creating", "failing", "unwinding", "live", "closing", "joining", "freed",
                "undefined"}
    /\ started \in 1 .. NThreads /\ nThreads \in 1 .. NThreads
    /\ epoch \in Nat /\ parked \in Int /\ shutdown \in BOOLEAN /\ pubGate \in Nat
    /\ active \in Int /\ inJob \in BOOLEAN /\ doneWaiting \in BOOLEAN
    /\ jobEnd \in Nat /\ chunkSize \in Nat \ {0} /\ jobCtx \in Callers \cup {None}
    /\ executed \in Int /\ cursor \in [ep : Nat, pos : Nat]
    /\ nWorkers \in Nat /\ jobEpoch \in Nat
    /\ pubMtx \in Callers \cup {None}
    /\ wakeMtx \in Workers \cup {None}
    /\ doneMtx \in Callers \cup {None}
    /\ wakeWait \subseteq Workers /\ doneWait \subseteq Callers
    /\ pc \in [Threads -> Labels]
    /\ ep \in [Threads -> Nat]
    /\ args \in [Callers -> [n : Nat, usable : Nat \ {0}]]
    /\ loc \in [Threads -> [ctx : Callers \cup {None}, end : Nat, chunk : Nat \ {0},
                            nActive : Nat \ {0}]]
    /\ snap \in [Threads -> [pos : Nat, next : Nat]]
    /\ ran \in [Callers -> SUBSET Nat]

Draining  == {"drain", "claim", "cas", "run", "signal", "bcast"}
Admitted  == Draining \cup {"jobcheck"}
Counted   == Admitted \cup {"gatecheck", "retire"}
Rewriting == {"early", "store", "cursor", "stamp"}
InPool    == Rewriting \cup Draining \cup
             {"gate", "gated", "wake", "wait", "wlock", "wcheck", "wgo", "wsleep", "close"}

\* While a publisher rewrites the job block no worker is past the gate: the
\* fields tpool_drain_work loads one by one always belong to one job
\* (pub_gate / active_workers, threadpool.c:475-489 against 288-302).
NoTornJob ==
    \A c \in Callers : pc[c] \in Rewriting => \A w \in Workers : pc[w] \notin Admitted

\* The inductive invariant behind NoTornJob, in parts: active_workers counts
\* the workers between its increment and decrement; one publisher at a time
\* holds pub_mtx; the gate is 0, or the epoch of the publisher inside; and no
\* worker is ahead of the epoch or counts itself before the first one.
CallerLabels == {"idle", "called", "inline", "lock", "return"} \cup InPool
WorkerLabels == {"unborn", "spin", "park", "pcheck", "pgo", "asleep", "activate", "exited"}
                    \cup Counted
ActiveSet    == {w \in Workers : pc[w] \in Counted}
Unstamped    == {"gate", "early", "gated", "store", "cursor", "stamp", "wake"}

ActiveCounts == active = Cardinality(ActiveSet)
OnePublisher == \A c \in Callers : pc[c] \in InPool <=> pubMtx = c
GateValue ==
    /\ pubMtx = None => pubGate = 0
    /\ \A c \in Callers :
           /\ pc[c] \in {"gate", "early"} => pubGate = 0
           /\ pc[c] \in Unstamped => ep[c] = epoch + 1
           /\ pc[c] \in Unstamped \ {"gate", "early"} => pubGate = ep[c]
EpochOrder ==
    \A w \in Workers : /\ ep[w] <= epoch
                       /\ pc[w] \in Counted \cup {"activate"} => ep[w] # 0
LabelsSplit == /\ \A c \in Callers : pc[c] \in CallerLabels
               /\ \A w \in Workers : pc[w] \in WorkerLabels

Spawned == \A w \in Workers : w >= started => pc[w] = "unborn"

GateInv == /\ LabelsSplit /\ Spawned /\ ActiveCounts /\ OnePublisher /\ GateValue /\ EpochOrder
           /\ NoTornJob

\* A thread that runs a chunk does so with the fields of the job in progress,
\* whose publisher is still inside tpool_parallel_for: fn's ctx, on that
\* caller's stack, outlives the chunk.  (A worker may hold stale fields after
\* the call returned, but its exchange on the cursor then fails.)  And a chunk
\* that itself calls tpool_parallel_for finds in_job set: it runs the nested
\* loop inline and never blocks on the pub_mtx its own job holds.
ContextAlive ==
    \A t \in Threads :
        pc[t] = "run" =>
            LET c == loc[t].ctx
            IN  /\ c \in Callers /\ c = pubMtx /\ ep[t] = ep[c]
                /\ loc[t].end = args[c].n /\ inJob
                /\ pc[c] \notin Rewriting \cup {"close"}

\* No item is claimed by two threads, none is run a second time, and when
\* tpool_parallel_for returns every item of the call was run.
ExactlyOnce ==
    /\ \A t \in Threads : pc[t] = "run" =>
           /\ Chunk(t) # {}
           /\ Chunk(t) \cap ran[loc[t].ctx] = {}
           /\ \A u \in Threads \ {t} : pc[u] = "run" => Chunk(t) \cap Chunk(u) = {}
    /\ \A c \in Callers : pc[c] \in {"close", "return"} => ran[c] = 0 .. args[c].n - 1

\* A publisher asleep on done_cv has an unfinished job, or the thread that
\* finished it is still on its way to the broadcast.
NoLostDone ==
    \A c \in doneWait :
        executed < args[c].n \/ \E t \in Threads : pc[t] \in {"signal", "bcast"}

\* A worker asleep on wake_cv has seen the current epoch, and the shutdown
\* broadcast is still to come if the pool is shutting down.
NoLostWake ==
    \A w \in wakeWait :
        /\ epoch = ep[w]
        /\ shutdown => life \in {"failing", "closing"}

\* tpool_destroy and the unwinding of a failed tpool_create end: every worker,
\* spinning or asleep, sees the shutdown and leaves.  Nothing is promised when
\* the pool of a failed creation is destroyed while it counts workers: they are
\* joined twice (JoinsAgain).
ShutdownEnds ==
    /\ life = "closing" /\ JoinedBefore = {} ~> life = "freed"
    /\ life = "failing" ~> life = "live"

-----------------------------------------------------------------------------
(* The pool implements ParallelFor.                                        *)

flightOf == [t \in Threads |->
    CASE pc[t] = "run"    -> [job |-> loc[t].ctx, items |-> Chunk(t)]
      [] pc[t] = "inline" -> [job |-> t, items |-> 0 .. args[t].n - 1]
      [] OTHER            -> None]

todoOf == [c \in Callers |->
    {i \in (0 .. args[c].n - 1) \ ran[c] :
        \A t \in Threads : flightOf[t] = None \/ flightOf[t].job # c
                                              \/ i \notin flightOf[t].items}]

PF == INSTANCE ParallelFor
        WITH n <- [c \in Callers |-> args[c].n], todo <- todoOf, flight <- flightOf

\* Every step of the pool is a step of ParallelFor or changes nothing of it:
\* no item is lost, none runs twice, and no call returns early, whichever
\* threads take part (the contract of tpool_parallel_for).
ImplementsParallelFor == PF!Spec

\* Every call of tpool_parallel_for returns: no wakeup of the publisher is
\* lost and no publisher waits forever for retired workers.
CallsReturn == PF!CallsEnd

=============================================================================
