---------------------------- MODULE OpenAiServer ----------------------------
(***************************************************************************)
(* The request scheduler of src/src/server/openai.c.                       *)
(*                                                                         *)
(* Three kinds of threads meet here: one thread per connection runs the    *)
(* request handlers, the worker admits jobs to session slots and runs them *)
(* as tasks that yield to it, and the main thread stops and frees the      *)
(* server.  The worker and its tasks never run at the same time, so they   *)
(* are one process.  A step is one access to state another thread uses, or *)
(* one critical section of sch_mtx or of a request's q_mtx, with the local *)
(* work around it.                                                         *)
(*                                                                         *)
(* A request stands for its req_ctx, its oa_job and its oa_task.           *)
(***************************************************************************)
EXTENDS Integers, Sequences, FiniteSets

CONSTANTS
    Requests,       \* the POST requests clients may send
    Streaming,      \* those that ask for "stream": true
    SlotsCap,       \* --slots
    MaxTokens,      \* max_tokens of every request
    PrefillChunks,  \* chunks the longest prompt is fed in
    None,
    Worker, Main    \* owners of sch_mtx

ASSUME ServerAssumption ==
    /\ Streaming \subseteq Requests
    /\ SlotsCap \in Nat \ {0}
    /\ MaxTokens \in Nat \ {0}
    /\ PrefillChunks \in Nat \ {0}
    /\ None \notin Requests \cup Nat
    /\ Worker \notin {None, Main} /\ Main # None

Slots == 1 .. SlotsCap

VARIABLES
    \* openai_state
    shutting,       \* shutting_down
    queue,          \* q_head .. q_tail
    schMtx,         \* sch_mtx: its owner where a thread is seen to hold it
    nSlots,         \* n_slots
    busy,           \* oa_slot.busy
    interrupt,      \* oa_slot.sess.interrupt
    tasks,          \* tasks[0 .. n_tasks - 1], as the requests they run
    \* per request
    rc,             \* req_ctx with its oa_gen
    task,           \* oa_task
    \* program counters and locals
    job,            \* where the holder of a request's job is
    conn,           \* where the connection thread is
    live,           \* was_in_flight
    worker, idx, hand,
    main, cancel,
    \* history
    reply,          \* how the connection is being closed
    got,            \* the last SSE frame the client was handed
    work            \* what the tasks computed, for a client that left too

stateVars == <<shutting, queue, schMtx, nSlots, busy, interrupt, tasks>>
connVars  == <<conn, live, reply, got>>
wVars     == <<worker, idx, hand>>
mVars     == <<main, cancel>>
vars == <<stateVars, rc, task, job, connVars, wVars, mVars, work>>

\* A context before its request is posted, and after its last reference went.
NoContext == [refs |-> 0, genDone |-> FALSE, gone |-> FALSE, producerDone |-> FALSE,
              frames |-> <<>>, generated |-> 0, sctx |-> None, sentAny |-> FALSE]
NoTask == [slot |-> None, left |-> 0, pending |-> FALSE, status |-> "ok"]

\* History of a request: the tokens the batches computed for it, those of
\* them computed after its client was marked gone, whether its task computed
\* anything after the connection had stored its interrupt, and whether
\* run_generation cleared that interrupt before the generation began.
NoWork == [decoded |-> 0, late |-> 0, told |-> FALSE, wiped |-> FALSE]

Init ==
    /\ shutting = FALSE /\ queue = <<>> /\ schMtx = None
    /\ nSlots = 1 /\ busy = [s \in Slots |-> FALSE] /\ interrupt = [s \in Slots |-> FALSE]
    /\ tasks = <<>>
    /\ rc = [r \in Requests |-> NoContext]
    /\ task = [r \in Requests |-> NoTask]
    /\ job = [r \in Requests |-> "none"]
    /\ conn = [r \in Requests |-> "none"]
    /\ live = [r \in Requests |-> FALSE]
    /\ worker = "look" /\ idx = 1 /\ hand = None
    /\ main = "up" /\ cancel = None
    /\ reply = [r \in Requests |-> "none"]
    /\ got = [r \in Requests |-> "none"]
    /\ work = [r \in Requests |-> NoWork]

One(held) == IF held THEN 1 ELSE 0

Conn(r, l) == conn' = [conn EXCEPT ![r] = l]
Job(r, l)  == job' = [job EXCEPT ![r] = l]

\* rc_unref: the last reference frees the context.
Unref(r) ==
    rc' = IF rc[r].refs = 1 THEN [rc EXCEPT ![r] = NoContext] ELSE [rc EXCEPT ![r].refs = @ - 1]

\* Fault: only a shutdown counts.
DeadIgnoresClient(r) == shutting

\* gen_dead: nobody will read the answer.
Dead(r) == rc[r].gone \/ shutting

\* The connection of r is through gen_mark_client_gone.
Departed(r) == conn[r] \in {"free", "closed"}

\* A chunk of the prompt of r is computed.
PromptWork(r) == work' = [work EXCEPT ![r].told = @ \/ Departed(r)]

\* pthread_cond_signal and pthread_cond_broadcast: sch_cv has one waiter.
Signalled == IF worker = "asleep" THEN "look" ELSE worker

-----------------------------------------------------------------------------
(* Connection threads: handle_post, sse_read_cb, request_completed.        *)

\* The body is complete and valid: the context holds the connection's
\* reference and the job's.
Post(r) ==
    /\ conn[r] = "none" /\ main \in {"up", "stopping", "cancelling", "draining"}
    /\ rc' = [rc EXCEPT ![r].refs = 2]
    /\ Conn(r, "push")
    /\ UNCHANGED <<stateVars, task, job, live, reply, got, wVars, mVars, work>>

\* Fault: the job is linked in at the head of the queue.
PushedFirst(r) ==
    /\ conn[r] = "push" /\ schMtx = None /\ ~shutting
    /\ queue' = <<r>> \o queue
    /\ Job(r, "queued")
    /\ Conn(r, IF r \in Streaming THEN "respond" ELSE "wait")

Pushed(r) ==
    /\ conn[r] = "push" /\ schMtx = None /\ ~shutting
    /\ queue' = Append(queue, r)
    /\ Job(r, "queued")
    /\ Conn(r, IF r \in Streaming THEN "respond" ELSE "wait")

\* Fault: the worker is not signalled.
PushSilently(r) ==
    /\ Pushed(r)
    /\ UNCHANGED <<shutting, schMtx, nSlots, busy, interrupt, tasks, rc, task,
                   live, reply, got, wVars, mVars, work>>

\* job_push
Push(r) ==
    /\ Pushed(r)
    /\ worker' = Signalled
    /\ UNCHANGED <<shutting, schMtx, nSlots, busy, interrupt, tasks, rc, task,
                   live, reply, got, idx, hand, mVars, work>>

PushRefused(r) ==
    /\ conn[r] = "push" /\ schMtx = None /\ shutting
    /\ Unref(r)
    /\ reply' = [reply EXCEPT ![r] = "unavailable"]
    /\ Conn(r, "mark")
    /\ UNCHANGED <<stateVars, task, job, live, got, wVars, mVars, work>>

\* Fault: the SSE response borrows the connection's reference.
RespondUncounted(r) ==
    /\ conn[r] = "respond"
    /\ Conn(r, "stream")
    /\ UNCHANGED <<stateVars, rc, task, job, live, reply, got, wVars, mVars, work>>

\* The SSE response takes a reference of its own.
Respond(r) ==
    /\ conn[r] = "respond"
    /\ rc' = [rc EXCEPT ![r].refs = @ + 1]
    /\ Conn(r, "stream")
    /\ UNCHANGED <<stateVars, task, job, live, reply, got, wVars, mVars, work>>

\* No response can be created: the reference is given back.  The handler
\* marks the client gone, which request_completed does in any case.
RespondFails(r) ==
    /\ conn[r] = "respond"
    /\ reply' = [reply EXCEPT ![r] = "none sent"]
    /\ Conn(r, "mark")
    /\ UNCHANGED <<stateVars, rc, task, job, live, got, wVars, mVars, work>>

\* job_wait_done: client_gone is set by this thread alone, and later.
WaitDone(r) ==
    /\ conn[r] = "wait" /\ rc[r].genDone
    /\ reply' = [reply EXCEPT ![r] = IF rc[r].generated < 0 THEN "failed" ELSE "ok"]
    /\ Conn(r, "mark")
    /\ UNCHANGED <<stateVars, rc, task, job, live, got, wVars, mVars, work>>

\* sse_read_cb; the wait polls, so a shutdown is seen without a signal.
ReadFrame(r) ==
    /\ conn[r] = "stream" /\ rc[r].frames # <<>>
    /\ got' = [got EXCEPT ![r] = Head(rc[r].frames)]
    /\ rc' = [rc EXCEPT ![r].frames = Tail(@)]
    /\ UNCHANGED <<stateVars, task, job, conn, live, reply, wVars, mVars, work>>

ReadEnd(r) ==
    /\ conn[r] = "stream" /\ rc[r].frames = <<>>
    /\ rc[r].producerDone \/ Dead(r)
    /\ reply' = [reply EXCEPT ![r] = IF rc[r].producerDone THEN "ended" ELSE "broken"]
    /\ Conn(r, "mark")
    /\ UNCHANGED <<stateVars, rc, task, job, live, got, wVars, mVars, work>>

\* The client goes away, or the write to it times out.
Disconnect(r) ==
    /\ conn[r] = "stream"
    /\ reply' = [reply EXCEPT ![r] = "left"]
    /\ Conn(r, "mark")
    /\ UNCHANGED <<stateVars, rc, task, job, live, got, wVars, mVars, work>>

\* Fault: every connection that closes interrupts the session.
MarkGoneAlways(r) ==
    /\ conn[r] = "mark"
    /\ live' = [live EXCEPT ![r] = TRUE]
    /\ rc' = [rc EXCEPT ![r].gone = TRUE]
    /\ Conn(r, "store")
    /\ UNCHANGED <<stateVars, task, job, reply, got, wVars, mVars, work>>

\* gen_mark_client_gone, inside q_mtx ...
MarkGone(r) ==
    /\ conn[r] = "mark"
    /\ live' = [live EXCEPT ![r] = ~rc[r].genDone]
    /\ rc' = [rc EXCEPT ![r].gone = TRUE]
    /\ Conn(r, "store")
    /\ UNCHANGED <<stateVars, task, job, reply, got, wVars, mVars, work>>

\* ... and after it; then request_completed drops the reference.
StoreInterrupt(r) ==
    /\ conn[r] = "store"
    /\ interrupt' = IF live[r] /\ rc[r].sctx # None
                    THEN [interrupt EXCEPT ![rc[r].sctx] = TRUE]
                    ELSE interrupt
    /\ Unref(r)
    /\ live' = [live EXCEPT ![r] = FALSE]
    /\ got' = [got EXCEPT ![r] = "none"]
    /\ Conn(r, IF reply[r] \in {"ended", "broken", "left"} THEN "free" ELSE "closed")
    /\ reply' = [reply EXCEPT ![r] = "none"]
    /\ UNCHANGED <<shutting, queue, schMtx, nSlots, busy, tasks, task, job,
                   wVars, mVars, work>>

\* sse_free_cb.  The library may call it before request_completed: the count
\* is the only thing it touches.
FreeResponse(r) ==
    /\ conn[r] = "free"
    /\ Unref(r)
    /\ Conn(r, "closed")
    /\ UNCHANGED <<stateVars, task, job, live, reply, got, wVars, mVars, work>>

Serve(r) == \/ Push(r) \/ PushRefused(r) \/ Respond(r) \/ RespondFails(r) \/ WaitDone(r)
            \/ ReadFrame(r) \/ ReadEnd(r) \/ MarkGone(r) \/ StoreInterrupt(r) \/ FreeResponse(r)

-----------------------------------------------------------------------------
(* The end of a job, run by the task, by the worker or by the main thread: *)
(* fail_job, and sse_finish_stream with its three queue operations.        *)

Runs(r) == worker = "run" /\ tasks[idx] = r

\* The thread that holds the job of r is at it.
AtIt(r) == Runs(r) \/ (worker \in {"failStart", "failBack"} /\ hand = r) \/ cancel = r

FailJob(r) ==
    /\ job[r] = "fail" /\ AtIt(r)
    /\ rc' = [rc EXCEPT ![r].generated = -1, ![r].genDone = TRUE]
    /\ Job(r, "finish")
    /\ UNCHANGED <<stateVars, task, connVars, wVars, mVars, work>>

Preamble(r) == IF rc[r].sentAny THEN <<>> ELSE <<"preamble">>

\* Fault: the stream is declared complete with its finish chunk.
FinishChunkLast(r) ==
    /\ job[r] = "finish" /\ AtIt(r)
    /\ IF Dead(r)
       THEN /\ Job(r, "producer")
            /\ UNCHANGED rc
       ELSE /\ Job(r, "last")
            /\ rc' = [rc EXCEPT ![r].frames = @ \o Preamble(r) \o <<"finish">>,
                                ![r].sentAny = TRUE, ![r].producerDone = TRUE]
    /\ UNCHANGED <<stateVars, task, connVars, wVars, mVars, work>>

FinishChunk(r) ==
    /\ job[r] = "finish" /\ AtIt(r)
    /\ IF Dead(r)
       THEN /\ Job(r, "producer")
            /\ UNCHANGED rc
       ELSE /\ Job(r, "last")
            /\ rc' = [rc EXCEPT ![r].frames = @ \o Preamble(r) \o <<"finish">>,
                                ![r].sentAny = TRUE]
    /\ UNCHANGED <<stateVars, task, connVars, wVars, mVars, work>>

LastFrame(r) ==
    /\ job[r] = "last" /\ AtIt(r)
    /\ rc' = IF Dead(r) THEN rc ELSE [rc EXCEPT ![r].frames = Append(@, "[DONE]")]
    /\ Job(r, "producer")
    /\ UNCHANGED <<stateVars, task, connVars, wVars, mVars, work>>

QueueDone(r) ==
    /\ job[r] = "producer" /\ AtIt(r)
    /\ rc' = [rc EXCEPT ![r].producerDone = TRUE]
    /\ Job(r, "release")
    /\ UNCHANGED <<stateVars, task, connVars, wVars, mVars, work>>

EndJob(r) == FailJob(r) \/ FinishChunk(r) \/ LastFrame(r) \/ QueueDone(r)

-----------------------------------------------------------------------------
(* A task: run_generation on its slot, until it yields or ends.            *)

Slot(r) == task[r].slot

\* The task gives way to worker_main, which resumes the next one.
Yield == worker' = "round" /\ idx' = idx + 1 /\ UNCHANGED hand

\* A request that is dead before it begins is not generated.
Begin(r) ==
    /\ job[r] = "begin" /\ Runs(r)
    /\ rc' = [rc EXCEPT ![r].sctx = Slot(r)]
    /\ Job(r, IF Dead(r) THEN "done" ELSE "setup")
    /\ UNCHANGED <<stateVars, task, connVars, wVars, mVars, work>>

\* Counters and flags are reset; the prompt needs some number of chunks.
Setup(r) ==
    /\ job[r] = "setup" /\ Runs(r)
    /\ rc' = [rc EXCEPT ![r].genDone = FALSE, ![r].generated = 0, ![r].sentAny = FALSE]
    /\ interrupt' = [interrupt EXCEPT ![Slot(r)] = FALSE]
    /\ work' = [work EXCEPT ![r].wiped = Departed(r)]
    /\ \E n \in 1 .. PrefillChunks : task' = [task EXCEPT ![r].left = n]
    /\ Job(r, "prefill")
    /\ UNCHANGED <<shutting, queue, schMtx, nSlots, busy, tasks, connVars, wVars, mVars>>

PrefillInterrupted(r) ==
    /\ job[r] = "prefill" /\ Runs(r)
    /\ interrupt[Slot(r)]
    /\ Job(r, "clear")
    /\ UNCHANGED <<stateVars, rc, task, connVars, wVars, mVars, work>>

\* The template, the prompt's length or a kernel fails.
PrefillFails(r) ==
    /\ job[r] = "prefill" /\ Runs(r)
    /\ rc' = [rc EXCEPT ![r].generated = -1]
    /\ Job(r, "clear")
    /\ UNCHANGED <<stateVars, task, connVars, wVars, mVars, work>>

PrefillYields(r) ==
    /\ job[r] = "prefill" /\ Runs(r)
    /\ ~interrupt[Slot(r)] /\ task[r].left > 1
    /\ task' = [task EXCEPT ![r].left = @ - 1]
    /\ PromptWork(r)
    /\ Yield
    /\ UNCHANGED <<stateVars, rc, job, connVars, mVars>>

PrefillDone(r) ==
    /\ job[r] = "prefill" /\ Runs(r)
    /\ ~interrupt[Slot(r)] /\ task[r].left = 1
    /\ task' = [task EXCEPT ![r].left = 0]
    /\ PromptWork(r)
    /\ Job(r, "decode")
    /\ UNCHANGED <<stateVars, rc, connVars, wVars, mVars>>

\* The chunks a piece of text becomes, if it is sent at all.
Delta(r, sent) ==
    IF sent /\ ~Dead(r) /\ r \in Streaming THEN Preamble(r) \o <<"delta">> ELSE <<>>

\* An interrupt, the last token, an end-of-generation token, or the failure
\* of the batch the task waited for.  What the scanner of tool calls held
\* back is sent now.
DecodeStops(r) ==
    /\ job[r] = "decode" /\ Runs(r)
    /\ \E held \in BOOLEAN :
           rc' = [rc EXCEPT ![r].frames = @ \o Delta(r, held),
                           ![r].sentAny = @ \/ Delta(r, held) # <<>>]
    /\ Job(r, "clear")
    /\ UNCHANGED <<stateVars, task, connVars, wVars, mVars, work>>

\* gen_on_token: a piece is sent, held back (a thinking label, a tool call),
\* or completes a stop sequence; a dead request only interrupts itself.
Token(r) ==
    /\ job[r] = "decode" /\ Runs(r)
    /\ task[r].status = "ok" /\ ~interrupt[Slot(r)] /\ rc[r].generated < MaxTokens
    /\ \E piece \in {"send", "hold", "stop"} :
           LET sent == Delta(r, piece = "send")
           IN  /\ rc' = [rc EXCEPT ![r].generated = @ + 1, ![r].frames = @ \o sent,
                                   ![r].sentAny = @ \/ sent # <<>>]
               /\ interrupt' = IF Dead(r) \/ piece = "stop"
                               THEN [interrupt EXCEPT ![Slot(r)] = TRUE]
                               ELSE interrupt
    /\ Job(r, "feed")
    /\ UNCHANGED <<shutting, queue, schMtx, nSlots, busy, tasks, task, connVars, wVars,
                   mVars, work>>

\* task_decode_step: the token waits for the batch of this round.
FeedYields(r) ==
    /\ job[r] = "feed" /\ Runs(r)
    /\ ~Dead(r)
    /\ task' = [task EXCEPT ![r].pending = TRUE]
    /\ Job(r, "decode")
    /\ Yield
    /\ UNCHANGED <<stateVars, rc, connVars, mVars, work>>

\* The request is dead, or the context is full.
FeedStops(r) ==
    /\ job[r] = "feed" /\ Runs(r)
    /\ \E held \in BOOLEAN :
           rc' = [rc EXCEPT ![r].frames = @ \o Delta(r, held),
                           ![r].sentAny = @ \/ Delta(r, held) # <<>>]
    /\ Job(r, "clear")
    /\ UNCHANGED <<stateVars, task, connVars, wVars, mVars, work>>

ClearInterrupt(r) ==
    /\ job[r] = "clear" /\ Runs(r)
    /\ interrupt' = [interrupt EXCEPT ![Slot(r)] = FALSE]
    /\ Job(r, "done")
    /\ UNCHANGED <<shutting, queue, schMtx, nSlots, busy, tasks, rc, task, connVars, wVars,
                   mVars, work>>

GenerationDone(r) ==
    /\ job[r] = "done" /\ Runs(r)
    /\ rc' = [rc EXCEPT ![r].genDone = TRUE]
    /\ Job(r, IF r \in Streaming \/ Dead(r) THEN "finish" ELSE "release")
    /\ UNCHANGED <<stateVars, task, connVars, wVars, mVars, work>>

\* The last task takes the place of the one that ended.
Without(ts, i) ==
    [k \in 1 .. Len(ts) - 1 |-> IF k = i THEN ts[Len(ts)] ELSE ts[k]]

\* The end of task_main, and task_finish in the same round.
TaskEnds(r) ==
    /\ job[r] = "release" /\ Runs(r)
    /\ busy' = [busy EXCEPT ![Slot(r)] = FALSE]
    /\ Unref(r)
    /\ tasks' = Without(tasks, idx)
    /\ task' = [task EXCEPT ![r] = NoTask]
    /\ work' = [work EXCEPT ![r] = NoWork]
    /\ Job(r, "over")
    /\ worker' = "round"
    /\ UNCHANGED <<shutting, queue, schMtx, nSlots, interrupt, connVars, idx, hand, mVars>>

Generate(r) == \/ Begin(r) \/ Setup(r) \/ PrefillInterrupted(r) \/ PrefillFails(r)
               \/ PrefillYields(r) \/ PrefillDone(r) \/ DecodeStops(r) \/ Token(r)
               \/ FeedYields(r) \/ FeedStops(r) \/ ClearInterrupt(r) \/ GenerationDone(r)
               \/ TaskEnds(r)

-----------------------------------------------------------------------------
(* worker_main, admit_jobs, task_start, run_decode_step.                   *)

\* With sch_mtx held: is there anything to do?
WorkerLooks ==
    /\ worker = "look" /\ schMtx = None
    /\ IF queue # <<>> \/ tasks # <<>> \/ shutting
       THEN worker' = "check" /\ UNCHANGED schMtx
       ELSE worker' = "sleepy" /\ schMtx' = Worker
    /\ UNCHANGED <<shutting, queue, nSlots, busy, interrupt, tasks, rc, task, job,
                   connVars, idx, hand, mVars, work>>

WorkerSleeps ==
    /\ worker = "sleepy"
    /\ schMtx' = None
    /\ worker' = "asleep"
    /\ UNCHANGED <<shutting, queue, nSlots, busy, interrupt, tasks, rc, task, job,
                   connVars, idx, hand, mVars, work>>

WorkerWakes ==
    /\ worker = "asleep"
    /\ worker' = "look"
    /\ UNCHANGED <<stateVars, rc, task, job, connVars, idx, hand, mVars, work>>

WorkerChecks ==
    /\ worker = "check"
    /\ worker' = IF tasks = <<>> /\ shutting THEN "exited" ELSE "admit"
    /\ UNCHANGED <<stateVars, rc, task, job, connVars, idx, hand, mVars, work>>

\* The loop condition of admit_jobs.
AdmitMore ==
    /\ worker = "admit"
    /\ IF Len(tasks) < SlotsCap /\ ~shutting
       THEN worker' = "pop" /\ UNCHANGED idx
       ELSE worker' = "round" /\ idx' = 1
    /\ UNCHANGED <<stateVars, rc, task, job, connVars, hand, mVars, work>>

AdmitPop ==
    /\ worker = "pop" /\ schMtx = None /\ queue # <<>>
    /\ hand' = Head(queue)
    /\ queue' = Tail(queue)
    /\ Job(Head(queue), "held")
    /\ worker' = "start"
    /\ UNCHANGED <<shutting, schMtx, nSlots, busy, interrupt, tasks, rc, task,
                   connVars, idx, mVars, work>>

AdmitNone ==
    /\ worker = "pop" /\ schMtx = None /\ queue = <<>>
    /\ worker' = "round" /\ idx' = 1
    /\ UNCHANGED <<stateVars, rc, task, job, connVars, hand, mVars, work>>

\* Fault: the slots of running tasks are picked too.
PickableBusy == (1 .. nSlots) \cup ((nSlots + 1) .. (nSlots + 1) \cap Slots)

\* job_pick_slot: the session that matches best, a new slot, or the slot
\* used least recently, whichever comes out of the prompts and of the memory
\* that is left; never one that is busy.
Pickable == {s \in 1 .. nSlots : ~busy[s]} \cup ((nSlots + 1) .. (nSlots + 1) \cap Slots)

\* task_start
StartTask ==
    /\ worker = "start"
    /\ \E s \in Pickable :
           /\ nSlots' = IF s > nSlots THEN s ELSE nSlots
           /\ busy' = [busy EXCEPT ![s] = TRUE]
           /\ task' = [task EXCEPT ![hand].slot = s]
    /\ tasks' = Append(tasks, hand)
    /\ Job(hand, "begin")
    /\ worker' = "admit" /\ hand' = None
    /\ UNCHANGED <<shutting, queue, schMtx, interrupt, rc,
                   connVars, idx, mVars, work>>

\* server_task_create fails.
StartFails ==
    /\ worker = "start"
    /\ \E s \in Pickable : nSlots' = IF s > nSlots THEN s ELSE nSlots
    /\ Job(hand, "fail")
    /\ worker' = "failStart"
    /\ UNCHANGED <<shutting, queue, schMtx, busy, interrupt, tasks, rc, task,
                   connVars, idx, hand, mVars, work>>

\* Every slot is busy and there is no memory for another.
StartNoSlot ==
    /\ worker = "start"
    /\ \A s \in 1 .. nSlots : busy[s]
    /\ nSlots < SlotsCap
    /\ worker' = IF tasks # <<>> THEN "putback" ELSE "failStart"
    /\ Job(hand, IF tasks # <<>> THEN "held" ELSE "fail")
    /\ UNCHANGED <<stateVars, rc, task, connVars, idx, hand, mVars, work>>

\* Fault: the job is put back although the server stops.
PutBackUnchecked ==
    /\ worker = "putback" /\ schMtx = None
    /\ queue' = <<hand>> \o queue
    /\ Job(hand, "queued")
    /\ worker' = "round" /\ idx' = 1 /\ hand' = None
    /\ UNCHANGED <<shutting, schMtx, nSlots, busy, interrupt, tasks, rc, task,
                   connVars, mVars, work>>

PutBack ==
    /\ worker = "putback" /\ schMtx = None /\ ~shutting
    /\ queue' = <<hand>> \o queue
    /\ Job(hand, "queued")
    /\ worker' = "round" /\ idx' = 1 /\ hand' = None
    /\ UNCHANGED <<shutting, schMtx, nSlots, busy, interrupt, tasks, rc, task,
                   connVars, mVars, work>>

PutBackLate ==
    /\ worker = "putback" /\ schMtx = None /\ shutting
    /\ Job(hand, "fail")
    /\ worker' = "failBack"
    /\ UNCHANGED <<stateVars, rc, task, connVars, idx, hand, mVars, work>>

\* fail_job is over: the job's reference goes.
FailEnds ==
    /\ worker \in {"failStart", "failBack"} /\ job[hand] = "release"
    /\ Unref(hand)
    /\ Job(hand, "over")
    /\ IF worker = "failStart"
       THEN worker' = "admit" /\ UNCHANGED idx
       ELSE worker' = "round" /\ idx' = 1
    /\ hand' = None
    /\ UNCHANGED <<stateVars, task, connVars, mVars, work>>

\* Each task is resumed once in a round.
Resume ==
    /\ worker = "round" /\ idx <= Len(tasks)
    /\ interrupt' = IF shutting
                    THEN [interrupt EXCEPT ![Slot(tasks[idx])] = TRUE]
                    ELSE interrupt
    /\ worker' = "run"
    /\ UNCHANGED <<shutting, queue, schMtx, nSlots, busy, tasks, rc, task, job,
                   connVars, idx, hand, mVars, work>>

Collected == {r \in Requests : \E i \in 1 .. Len(tasks) : tasks[i] = r /\ task[r].pending}

\* Fault: an interrupted task keeps the status of its last batch.
ResultKeepsStatus(r, batch, bad) ==
    [task[r] EXCEPT !.pending = FALSE,
                    !.status = IF r \notin batch THEN @
                               ELSE IF r \in bad THEN "failed"
                               ELSE "ok"]

\* What decode_batch_collect and the pass leave in the task of r, when the
\* pass fails for the rows of bad.
Result(r, batch, bad) ==
    [task[r] EXCEPT !.pending = FALSE,
                    !.status = IF r \notin batch THEN "interrupted"
                               ELSE IF r \in bad THEN "failed"
                               ELSE "ok"]

\* A pass computes a token of r, and succeeds for it if good.
TokenWork(r, good) ==
    [work[r] EXCEPT !.decoded = @ + One(good), !.late = @ + One(rc[r].gone),
                    !.told = @ \/ Departed(r)]

\* run_decode_step: one forward pass for every token that waits, unless its
\* slot was interrupted.  The pass, or the sampling of some rows, may fail.
DecodeBatch ==
    /\ worker = "round" /\ idx > Len(tasks)
    /\ LET batch == {r \in Collected : ~interrupt[Slot(r)]}
       IN  \E bad \in SUBSET batch :
           /\ task' = [r \in Requests |->
                          IF r \in Collected THEN Result(r, batch, bad) ELSE task[r]]
           /\ work' = [r \in Requests |->
                          IF r \in batch THEN TokenWork(r, r \notin bad) ELSE work[r]]
    /\ worker' = "look"
    /\ UNCHANGED <<stateVars, rc, job, connVars, idx, hand, mVars>>

WorkerStep == \/ WorkerLooks \/ WorkerSleeps \/ WorkerChecks \/ AdmitMore \/ AdmitPop
              \/ AdmitNone \/ StartTask \/ StartFails \/ StartNoSlot \/ PutBack
              \/ PutBackLate \/ FailEnds \/ Resume \/ DecodeBatch

-----------------------------------------------------------------------------
(* openai_stop and openai_free.                                            *)

Stop ==
    /\ main = "up"
    /\ shutting' = TRUE
    /\ main' = "stopping"
    /\ UNCHANGED <<queue, schMtx, nSlots, busy, interrupt, tasks, rc, task, job,
                   connVars, wVars, cancel, work>>

CancelBegins ==
    /\ main = "stopping" /\ schMtx = None
    /\ schMtx' = Main
    /\ main' = "cancelling"
    /\ UNCHANGED <<shutting, queue, nSlots, busy, interrupt, tasks, rc, task, job,
                   connVars, wVars, cancel, work>>

\* jobs_cancel, with sch_mtx held throughout.
CancelNext ==
    /\ main = "cancelling" /\ cancel = None /\ queue # <<>>
    /\ cancel' = Head(queue)
    /\ queue' = Tail(queue)
    /\ Job(Head(queue), "fail")
    /\ UNCHANGED <<shutting, schMtx, nSlots, busy, interrupt, tasks, rc, task,
                   connVars, wVars, main, work>>

CancelEnds ==
    /\ cancel # None /\ job[cancel] = "release"
    /\ Unref(cancel)
    /\ Job(cancel, "over")
    /\ cancel' = None
    /\ UNCHANGED <<stateVars, task, connVars, wVars, main, work>>

\* Fault: the worker is not told.
CancelOverSilently ==
    /\ main = "cancelling" /\ cancel = None /\ queue = <<>>
    /\ schMtx' = None
    /\ main' = "draining"
    /\ UNCHANGED <<shutting, queue, nSlots, busy, interrupt, tasks, rc, task, job,
                   connVars, wVars, cancel, work>>

CancelOver ==
    /\ main = "cancelling" /\ cancel = None /\ queue = <<>>
    /\ worker' = Signalled
    /\ schMtx' = None
    /\ main' = "draining"
    /\ UNCHANGED <<shutting, queue, nSlots, busy, interrupt, tasks, rc, task, job,
                   connVars, idx, hand, cancel, work>>

\* MHD_stop_daemon returns when every connection was completed.
DaemonStopped ==
    /\ main = "draining"
    /\ \A r \in Requests : conn[r] \in {"none", "closed"}
    /\ main' = "joining"
    /\ UNCHANGED <<stateVars, rc, task, job, connVars, wVars, cancel, work>>

\* The worker is joined; slots and state are freed.
Free ==
    /\ main = "joining" /\ worker = "exited"
    /\ main' = "freed"
    /\ UNCHANGED <<stateVars, rc, task, job, connVars, wVars, cancel, work>>

Closing == CancelBegins \/ CancelNext \/ CancelEnds \/ CancelOver \/ DaemonStopped \/ Free

Terminated == main = "freed" /\ UNCHANGED vars

Next == \/ \E r \in Requests : Post(r) \/ Disconnect(r) \/ Serve(r) \/ Generate(r) \/ EndJob(r)
        \/ WorkerStep \/ WorkerWakes
        \/ Stop \/ Closing
        \/ Terminated

Spec == Init /\ [][Next]_vars

\* Every thread runs: a connection's, the worker's (with the task it resumed)
\* and the main thread's once it stops the server.  sch_mtx is held for a
\* bounded number of steps and pthread_cond_wait does not return spuriously
\* for ever, so weak fairness is enough.  Nobody has to send a request, to
\* disconnect or to stop.
Fairness ==
    /\ \A r \in Requests : WF_vars(Serve(r))
    /\ WF_vars(WorkerStep \/ \E r \in Requests : Generate(r) \/ (cancel # r /\ EndJob(r)))
    /\ WF_vars(Closing \/ \E r \in Requests : (cancel = r /\ EndJob(r)))
    /\ <>[][~WorkerWakes]_vars

FairSpec == Spec /\ Fairness

-----------------------------------------------------------------------------
(* Properties.                                                             *)

ConnLabels == {"none", "push", "respond", "wait", "stream", "mark", "store", "free", "closed"}
JobLabels  == {"none", "queued", "held", "fail", "begin", "setup", "prefill", "decode", "feed",
               "clear", "done", "finish", "last", "producer", "release", "over"}
WorkerLabels == {"look", "sleepy", "asleep", "check", "admit", "pop", "start", "putback",
                 "failStart", "failBack", "round", "run", "exited"}
MainLabels == {"up", "stopping", "cancelling", "draining", "joining", "freed"}
Frames     == {"preamble", "delta", "finish", "[DONE]"}
Replies    == {"none", "none sent", "ok", "failed", "unavailable", "ended", "broken", "left"}
SlotOrNone == Slots \cup {None}

TypeOK ==
    /\ shutting \in BOOLEAN /\ queue \in Seq(Requests) /\ schMtx \in {None, Worker, Main}
    /\ nSlots \in Slots /\ busy \in [Slots -> BOOLEAN] /\ interrupt \in [Slots -> BOOLEAN]
    /\ tasks \in Seq(Requests)
    /\ rc \in [Requests -> [refs : Nat, genDone : BOOLEAN, gone : BOOLEAN,
                            producerDone : BOOLEAN, frames : Seq(Frames),
                            generated : Nat \cup {-1}, sctx : SlotOrNone, sentAny : BOOLEAN]]
    /\ task \in [Requests -> [slot : SlotOrNone, left : 0 .. PrefillChunks, pending : BOOLEAN,
                              status : {"ok", "interrupted", "failed"}]]
    /\ job \in [Requests -> JobLabels] /\ conn \in [Requests -> ConnLabels]
    /\ live \in [Requests -> BOOLEAN]
    /\ worker \in WorkerLabels /\ idx \in Nat \ {0} /\ hand \in Requests \cup {None}
    /\ main \in MainLabels /\ cancel \in Requests \cup {None}
    /\ reply \in [Requests -> Replies] /\ got \in [Requests -> Frames \cup {"none"}]
    /\ work \in [Requests -> [decoded : Nat, late : Nat, told : BOOLEAN, wiped : BOOLEAN]]

InQueue == {queue[i] : i \in 1 .. Len(queue)}
InTasks == {tasks[i] : i \in 1 .. Len(tasks)}

\* Where the SSE response holds its reference.
HasResponse(r) ==
    \/ conn[r] \in {"stream", "free"}
    \/ conn[r] \in {"mark", "store"} /\ reply[r] \in {"ended", "broken", "left"}

\* A req_ctx is freed by its last holder and by nobody before: its count is
\* the number of holders, the connection, the SSE response and the job
\* (rc_ref, rc_unref and the five places that drop a reference).
RefsCountHolders ==
    \A r \in Requests :
        rc[r].refs = One(conn[r] \notin {"none", "free", "closed"}) + One(HasResponse(r))
                     + One(conn[r] = "push" \/ job[r] \notin {"none", "over"})

\* A session slot serves one request at a time: the busy slots are those of
\* the running tasks, no two tasks share one, the task array never overflows,
\* and a generation uses the context of its own slot (slot_pick_chat,
\* slot_pick_text, task_start, task_finish).
SlotsExclusive ==
    /\ Len(tasks) <= SlotsCap
    /\ \A i, j \in 1 .. Len(tasks) : i # j => Slot(tasks[i]) # Slot(tasks[j])
    /\ {s \in Slots : busy[s]} = {Slot(r) : r \in InTasks}
    /\ \A s \in Slots : busy[s] => s <= nSlots
    /\ \A r \in InTasks : job[r] # "begin" => rc[r].sctx = Slot(r)

\* An accepted job is always in exactly one place until it is over, and when
\* the worker has left and the queue was cancelled no job is left, so no
\* connection waits for an answer that nobody will give (admit_jobs puts a
\* job back while openai_stop cancels the queue); the server's state is freed
\* after every request context.
NoneLeftBehind ==
    /\ \A r \in Requests :
           One(r \in InQueue) + One(r = hand) + One(r = cancel) + One(r \in InTasks)
               = One(job[r] \notin {"none", "over"})
    /\ worker = "exited" /\ main \in {"draining", "joining", "freed"} =>
           \A r \in Requests : job[r] \in {"none", "over"}
    /\ main = "freed" => \A r \in Requests : rc[r].refs = 0

\* Once its client is marked gone, a request costs at most one more token.
\* From the moment its connection has stored the interrupt it costs nothing at
\* all, neither a token nor a chunk of its prompt, unless run_generation
\* clears that interrupt as the generation begins: then the prompt may still
\* be fed, but no token follows it (gen_mark_client_gone, run_generation, and
\* gen_dead in gen_on_token and task_decode_step).
AbandonedStops ==
    \A r \in Requests :
        /\ work[r].late <= 1
        /\ work[r].told => work[r].wiped /\ work[r].late = 0

\* What a client reads is a preamble, deltas, a finish chunk and [DONE], in
\* this order; and a stream that ends without an error was complete, unless
\* the server is shutting down (sse_ensure_preamble, sse_finish_stream,
\* sse_read_cb).
Follows == {<<"none", "preamble">>, <<"preamble", "delta">>, <<"delta", "delta">>,
            <<"preamble", "finish">>, <<"delta", "finish">>, <<"finish", "[DONE]">>}
StreamsWellFormed ==
    \A r \in Streaming :
        LET sent == <<got[r]>> \o rc[r].frames
        IN  /\ conn[r] \notin {"free", "closed"} =>
                   \A i \in 1 .. Len(sent) - 1 : <<sent[i], sent[i + 1]>> \in Follows
            /\ reply[r] = "ended" /\ ~shutting => got[r] = "[DONE]"

\* Closing a connection that was answered leaves the slot of its request,
\* by then perhaps another request's, alone (was_in_flight in
\* gen_mark_client_gone).
AnsweredLeavesSlot ==
    \A r \in Requests :
        conn[r] = "store" /\ reply[r] \in {"ok", "failed", "ended", "unavailable"} =>
            ~(live[r] /\ rc[r].sctx # None)

\* A task is never resumed while its token waits, and it goes on to sample
\* exactly if the last token it generated was computed: the status it finds is
\* that of the batch it waited for, also when it was left out of that batch,
\* and never the one of an earlier batch (decode_batch_collect,
\* run_decode_step, task_decode_step).
ResumedWithResult ==
    \A r \in Requests : Runs(r) =>
        /\ ~task[r].pending
        /\ job[r] = "decode" => (task[r].status = "ok" <=> work[r].decoded = rc[r].generated)

\* Every request that reaches job_push is answered and its connection closed.
EveryRequestEnds == \A r \in Requests : conn[r] = "push" ~> conn[r] = "closed"

\* openai_stop and openai_free end: the worker wakes, finishes its tasks and
\* leaves, and no connection thread is left waiting.
StopEnds == shutting ~> main = "freed"

-----------------------------------------------------------------------------
(* The server implements RequestService.  A job is in line until it starts *)
(* or its failure is complete, so taking it from the queue and putting it  *)
(* back at the head are steps RequestService does not see.                 *)

Held(x) == IF x = None THEN <<>> ELSE <<x>>

RS == INSTANCE RequestService
        WITH Cap <- SlotsCap, waiting <- Held(hand) \o Held(cancel) \o queue,
             running <- InTasks, ended <- {r \in Requests : job[r] = "over"},
             stopped <- shutting

\* Requests start in the order they were accepted, at most --slots at a time,
\* and each ends once.
ImplementsRequestService == RS!Spec

=============================================================================
