# A verification of kappai

kappai (`src/`, C) runs language models locally: a terminal chat, an
OpenAI-compatible server and an image generator share one inference engine.
This directory holds TLA+ modules that model the engine's concurrent and
stateful parts, the TLC runs that check them on small instances, and TLAPS
proofs of the results that matter most.  Paths below are relative to the
repository; `src/src` is the program.

## Inventory

| part | state it keeps | operations | who it talks to | what is hard |
|---|---|---|---|---|
| **thread pool** `threadpool.c` | job block (function, ctx, bounds, cursor, executed), epoch, gate, counters, three mutexes, two condition variables | `tpool_create`, `tpool_parallel_for`, worker loop, `tpool_destroy` | every kernel and loader calls it | lock-free publication, wakeups, nested calls, chunks outliving the caller, failed creation, shutdown |
| **server scheduler** `server/openai.c` | request contexts (reference counted), job queue, session slots, running tasks, decode batch, shutdown flag | request handlers (one thread per connection), admission, task rounds, batched decode, stop, free | libmicrohttpd calls it; it drives contexts and tasks | connection threads race the scheduler; client gone; cancel; put-back; shutdown; stale interrupts; freed requests |
| **server tasks** `server/task.c` | running/done flags, mutex, condition variable (or a ucontext) | create, resume, yield, join | scheduler and generation code alternate through it | strict alternation without lost wakeups |
| **MoE expert cache** `moe/moe_stream.c`, `moe_exec.c`, `moe_common.c` | per layer: slots with their buffers, generations and use counts, maps from expert to slot, a heap that orders evictions | resolve (hits, misses, reads, commits), release, sweep | the router asks, workers of the thread pool read, the experts' operator releases | a miss takes the slot of another miss of its batch; a read fails; private copies; counts found again by expert id |
| **MoE tiers** `moe/moe_tier.c` | experts on a device, scores | promote, demote, exchange, evict | swept before a batch | an exchange that fails half way |
| **session** `context.c`, `engine.c` | tokens fed, cache length, sync point of the template, poisoned and interrupt flags, logits of host and device, presampled token, idle prefill thread | prefill, decode, warmup, reset, chat turn, completion | terminal chat, server slots | interrupts and failures at every step, prefix reuse, re-encoded text, idle prefill |
| **key/value cache** `kvcache.c`, `backend/cpu/common.*` | rows, their first position, the plan that moves them | put, attend, shift, rewind, reset | context, kernels | sliding windows, rows moved over one another, a first position sessions share |
| **monitor** `monitor.c` | client list, send buffers | poll, emit, free | a socket, the decode loop | slow clients, partial writes |
| **placement** `hcs.c`, `memory.c`, `engine.c` | pools and reservations per device, layer assignment | plan, reserve, fall back | start-up | limits, overflow, fall-back |
| **text side** `toolcall.c`, `tokenizer.c`, `chat_template.c`, `jinja.c`, stop sequences in `openai.c` | scanner state over streamed pieces | feed, finish | server | markers split between pieces |
| **recipes** `recipe/` | operators per layer, graphs, buffers of slots, bindings per device | build, passes, plan, prepare, run a batch | compute; backends run the operators | a buffer shared by slots that are both in use; what crosses from device to device |
| **files** `gguf.c`, `safetensors.c`, `model.c`, `weights.c` | mapped files, tensor tables | open, read | start-up | malformed sizes |
| **backends** `backend/` | device buffers, queues | kernels | compute | driver-side ordering |
| **diffusion, tui, cli, config, log, tests** | - | - | - | sequential or display |

`PROJECT.json` lists every part with its status and, under `hazards`, each
place where this code is hard to test.

What makes each part correct:

* thread pool - every item of a call runs exactly once before the call
  returns; no thread reads the job block while it is rewritten; ctx outlives
  the chunks; nobody sleeps through a wakeup; a nested call does not block.
* server - an accepted request is answered exactly once and its context is
  freed exactly once, by the last holder; a slot serves one request at a time;
  requests start in arrival order; shutdown loses nobody and ends.
* tasks - scheduler and task never run at the same time; resume returns.
* MoE cache - a batch computes with the weights of all experts it asked for;
  no buffer has two owners or is lost to those who use it; use counts fall on the slot they were
  counted on; nothing is left that the next batch would wait for.
* session - what it believes was fed is what the cache holds; the prompt is
  what the template rendered; a token is chosen by logits of exactly the tokens
  before it; the prompt comes back.
* key/value cache - a token attends to exactly its window; rows are only moved
  where they belong.
* recipes - sharing buffers, swapping bindings and moving slots between devices
  change nothing of what operators read.

## Plan

Most important behaviour first; a module is written so that it can be proved
about (constants with assumptions, one action per operation, no recursion).

1. *done* - `ThreadPool` with its contract `ParallelFor` and
   `ThreadPoolProofs`: every other part computes through it.
2. *done* - `OpenAiServer` with its contract `RequestService`,
   `OpenAiServerProofs` and `OpenAiServerRefinement`; `ServerTask` and `ServerTaskProofs`, which justify that `OpenAiServer` runs the worker
   and its tasks as one process.
3. *done* - `Session` and `SessionProofs`: turns, completions, prefill, decoding, idle prefill,
   poisoning, as the terminal and a server slot drive them.
4. *done* - `KvCache` and `KvCacheProofs`: one layer's rows, sliding windows
   and moved rows.
5. *done* - `ExpertCache` and `ExpertCacheProofs`: one layer's experts, on
   memory and a device.
6. *done* - `MemPlan` and `MemPlanProofs`: the buffers of a recipe's slots and a
   batch that runs in them.
7. Not begun: `Monitor` (slow clients, partial sends: at `monitor.c:234` a short write
   counts as the whole frame), and sequential algorithms against reference
   definitions: the stop-sequence window, the tool-call scanner, the arena of
   diffusion graphs (`recipe/plan.c:429`), placement under memory limits (`hcs.c`), the eviction
   score and its heap (`moe_stream.c:1558`).

Theorems still worth proving: `LogitsFresh` of the session where a terminal's device
samples; `CacheHoldsFed` of recurrent layers on the server.

## Modules

### ThreadPool, ParallelFor, MCThreadPool, ThreadPoolProofs

`ThreadPool` is `threadpool.c` at the grain of one shared-memory access per
step: one atomic load, store or read-modify-write, or one critical section
nobody can see the inside of.  State is named after the C fields (`epoch`,
`parked`, `pubGate`, `active`, `inJob`, `doneWaiting`; `jobEnd`, `chunkSize`,
`jobCtx`, `executed`, `cursor`, `nWorkers`, `jobEpoch`); `pc` and the locals
(`ep`, `args`, `loc`, `snap`) are per thread, mutexes hold their owner, and
condition variables the set of threads asleep on them.  `ran` is history.  Each
`Pub*` action is a line of `tpool_parallel_for`, each `Wait*` one of
`tpool_wait_done`, `Drain*`, `Cas*`, `ChunkDone` are the loop of
`tpool_drain_work`, and `Spin*`, `Park*`, `Activate`, `GateCheck`, `JobCheck`,
`Retire` the worker.  Memory is sequentially consistent but for one pair of
accesses the C code leaves unordered: the release store of `pub_gate` (line
476) and the acquire load of `active_workers` (line 478).  `PubRetiredEarly`
lets the load run first; the protocol must not depend on that order, and the
proofs show it does not.  `pthread_cond_wait` may wake for no reason
(`SpuriousWakeup`); spins may give up at any moment, their budget being time.
Identifiers of callers stand for both the calling thread and its ctx.

`ParallelFor` is the contract: items of a call are handed out, each to exactly
one chunk, and the call ends when all chunks have returned.

| run | asks | instance |
|---|---|---|
| `pool` | safety of the whole pool, creation failure and destruction included | 2 callers (symmetric), 2 workers, loops of 1 and 5 items, `min_items_per_thread` 1 and 2, at most 2 published jobs |
| `pool_live` | calls return, destroy of a pool created in full and the unwinding of a failed creation end; every step implements `ParallelFor` | 1 caller, 2 workers, loops of 1 and 3 items, 2 jobs, fair scheduler |

Bounds.  `MaxEpoch` only stops new calls once that many jobs were published;
two jobs are what it takes for a thread of one job to meet the next, which is
the hazard.  Two workers are what it takes for one to be refused while another
is admitted; two callers for one to wait on `pub_mtx` behind the other.
`MinChunksPerThread` is 2 in run `pool` and 1 in `pool_live` instead of 32, and
`GuidedDivisor` is 1 instead of 4, so that loops of a few items are cut into
several chunks of different sizes.

Fairness.  Every thread that can step eventually does (`WF`); a thread that
waits for a mutex that is free again and again gets it (`SF`: the code relies
on pthread mutexes not starving a waiter); the weak exchange that could succeed
again and again eventually does (`SF` on `CasClaims`).  Nobody is obliged to
call or to destroy, and spins may last.

Proofs (`ThreadPoolProofs`).  `TypeCorrect`, `GateCorrect` and `JobNeverTorn`
hold for every number of threads and callers, every set of loop sizes and any
`MaxEpoch`.  `NoTornJob` alone is not inductive: what keeps a late worker out
is that `active` counts exactly the workers between their increment and
decrement (`ActiveCounts`), that one publisher at a time is inside
(`OnePublisher`), that the gate is 0 or that publisher's new epoch
(`GateValue`), and that no worker holds an epoch newer than the published one
(`EpochOrder`): a worker that passes the gate while the block is rewritten
would have to hold an epoch nobody has published yet.  `GateInv` is the
conjunction; `GateNext` proves it step by step, one lemma per group of actions.

What the pool is for rests on that.  `JobCorrect` proves two invariants.
`JobInv`: a publisher inside and every admitted worker hold the published
epoch, and what a thread that drains read from the job block (`loc`) is still
what the block holds, because nobody who has read it is inside when it is
rewritten.  `ItemInv`: the items below the cursor are those run and those in
one thread's chunk, and none twice; `executed` is the number of items run.  So
when `executed` reaches `n_items` all of them ran (a subset of `0 .. n - 1`
with `n` members is all of it), the cursor is at the end and no thread is in a
chunk.  `Exhaustion`, the cursor at the end between jobs, is what keeps a
thread with an old snapshot from claiming anything: its exchange can only
succeed for the call in progress (`ClaimServesCall`).  `ContextOutlives` and
`ItemsRunOnce` follow.

`DoneNotLost` adds `DoneInv`: the last chunk to end either finds the publisher
still before its check of `executed` under `done_mtx` or leaves a thread on its
way to the broadcast.  `WakeNotLost` adds `WakeInv`: `parked` is the number of
workers that count themselves parked, and one that is going to sleep under
`wake_mtx` has compared the epoch after it counted itself, so the publisher
that raised the epoch sees `parked` above 0.

`PoolImplementsParallelFor` is the refinement, for the mapping of
`ThreadPool` (`flightOf`: what each thread runs; `todoOf`: the items neither run nor
in flight).  Call and return begin and end the call, a successful exchange
or the inline path takes a chunk, the end of a chunk finishes it, and
`ChunksStay` says that every other step changes neither.

The assumptions are `ConstantsAssumption` and `NoneIsNoChunk`, which the runs
evaluate.  Only model-checked: liveness, which is beyond the prover.

Left out: statistics, `worker_cleanup`, thread-local buffers,
`tpool_fetch_pool`, and the overflow of `epoch`, an `int`, after 2^31 - 1 jobs.

A failed creation.  The pool that `tpool_create` returns then has `n_threads`
set to the threads that were started, and those it joined (`threadpool.c:364`);
`tpool_destroy` joins them a second time (line 424), which is undefined.
`JoinedBefore` are those threads: where there are any, `Freed` is not possible
and `JoinsAgain` ends in the state `"freed"` or in `"undefined"`.  So
`ShutdownEnds` says that `tpool_destroy` ends for pools that joined nobody
before, and of a failed creation only that `tpool_create` unwinds and returns.

### OpenAiServer, RequestService and their proofs

`OpenAiServer` follows a generation request from the moment its body is
complete to the end of its connection.  One request stands for its `req_ctx`
(`rc`, a record that is reset when the last reference goes), its `oa_job`
(`job` says where its holder is) and its `oa_task` (`task`).  A connection's
thread is `conn`: `handle_post` pushes the job, then either waits
(`job_wait_done`) or lets the library call `sse_read_cb`; the end of the
connection is `request_completed`, that is `MarkGone` and `StoreInterrupt`,
apart because the second happens outside `q_mtx`.  The worker is `worker` with
its locals `idx` (the position in the round) and `hand` (a job taken from the
queue); while `worker = "run"` the steps are those of the task `tasks[idx]`,
and `job` is its program counter through `run_generation`.  The main thread is
`main`, with the job it cancels in `cancel`.  `sch_mtx` has an owner where it is
held over several steps: the worker between its look at the queue and its wait,
the main thread during `jobs_cancel`.

What a prompt or a token is does not matter; what happens because of it does:
a prompt takes one or more chunks, between which the task yields, and may fail;
a token is sent, held back or completes a stop sequence; the batch may fail as
a whole or for some rows.  Which free slot suits a request best depends on
hashes of its messages, so any free slot, or a new one, may be picked, and a
new one may turn out impossible (`StartNoSlot`).  A usage chunk, when asked
for, is part of the finish chunk.  A frame is read whole.  `reply`, `got`
and `work` are history.  `work[r]` is what was computed for a request: `decoded`
tokens of its answer, `late` of them after its context was marked gone, `told`
whether a token or a chunk of its prompt was computed after its connection
had stored the interrupt, and `wiped` whether `run_generation` cleared that
interrupt (`openai.c:1008`).

`RequestService` is the contract: a queue, at most `--slots` running, start in
order, end once.  A job in the worker's hand is still at the head of the line,
so taking it and putting it back change nothing, which is what
`ImplementsRequestService` checks.

| run | asks | instance |
|---|---|---|
| `server` | reference counts, what abandoned requests still cost, order of SSE frames, stale interrupts of answered requests | a streaming and a blocking request, 1 slot, 2 tokens, up to 2 chunks of prompt |
| `server_live` | exclusive slots, no job lost, batch results, implements `RequestService`; requests end, the server stops | 2 blocking requests, 2 slots, 1 token, up to 2 chunks |

Bounds.  Nothing grows without end, so no bound is in a guard: requests are
posted once, and `MaxTokens` is the request's own `max_tokens`.  Two requests
on one slot are what a stale interrupt needs; two on two slots, one of which may
turn out impossible to create, share a decode batch, or let one be put back
while the other runs; two tokens separate "one more" from "all of them", and two chunks a prompt that
is interrupted from one that is fed to its end.  What
three requests could do beyond that, overtake each other, the proofs exclude for
any number.

Fairness.  Every thread that can step does (`WF` for each connection, for the
worker with its task, for the main thread once it stops the server), and
`pthread_cond_wait` does not return spuriously for ever.  No client has to send,
stay or leave, nobody has to stop the server.  The library promises that
`MHD_stop_daemon` returns when all connections are completed
(`DaemonStopped`) and that a stream's callback is called again until it ends.

`AbandonedStops` says what leaving is worth.  Once a client is marked gone, one
more token is computed at most.  Once its connection has stored the interrupt
nothing is, tokens and prompt alike, with one exception the code has: a client
that leaves between the check at `openai.c:975` and `interrupt = 0` at line 1008
has its interrupt wiped, and then its whole prompt is fed, but no token.
`ResumedWithResult` compares the status a task finds when it is resumed with the
batches: it is ok exactly if as many tokens were computed for the task as it
has generated, so a task that was left out of a batch (line 1348) must not find
the status of an earlier one.

What the runs show beyond the properties: a request abandoned in its last
moments can still store its interrupt after the slot's next request cleared the
flag, and then cuts that request short (hazard at `openai.c:609`); and a
stream whose job failed, or that a shutdown cut short, ends like a complete one
(`openai.c:1271`).  No line of the repository excludes either, so
`AnsweredLeavesSlot` and `StreamsWellFormed` state what does hold.  Two things
nearby are plain from the code and not in the model: stop sequences are looked
for only once as much text was generated as the longest one has
(`openai.c:832`), and a slot's `last_ns` is in microseconds until its first use
(`openai.c:1183`).

Left out: parsing and building JSON, routes without a job, authentication,
decision requests (`run_decision`; they use the same queue, slots and waits),
slot matching, sampling.

Proofs, for any number of requests, slots, tokens and chunks, from
`ServerAssumption`, which the runs evaluate.

* `OpenAiServerProofs`: `ContextsCounted` (`RefsCountHolders`),
  `SlotsNeverShared` (`SlotsExclusive`), `NobodyLeft` (`NoneLeftBehind`), and
  the type.  None is inductive alone.  `Places` says where a job is by the label
  its holder is at, which makes "exactly one place" a matter of labels; the
  counts need it to know that a task's end is the job's only end; `Phases` says
  how far the stop has come, and that the main thread owns `sch_mtx` from
  the first job it cancels to the last; the slots need the counts, because a
  task's context must outlive its connection.  `IInv` is the conjunction and
  `ServerInductive` proves it, one lemma per thread and conjunct.  On top of
  it, `AnswersLeaveSlots` (`AnsweredLeavesSlot`) and `StreamsInOrder`
  (`StreamsWellFormed`) need `Told`: what a context says (`gen_done`,
  `producer_done`, `sent_any`) is what the label of its job says, and the frame
  read last with those still queued is one chain, whose end the label tells
  too.  It holds until the connection is closed, which is why the counts are
  needed: the end of a job must not reset a context a connection still reads.
* `OpenAiServerProofs` also has `ResumedTasks` (`ResumedWithResult`) and
  `AbandonedRequests` (`AbandonedStops`).  `Waiting`: in a round the tasks from
  `idx` on do not wait, and the swap in `task_finish` only moves one of them.
  `Marks`: a job whose connection has come to the interrupt or past it is marked
  gone.  `Ready` relates `work` to the place of each job: `Counted`, the tokens
  computed are those generated, or one fewer while the last one waits, was left out
  or failed; `Leaves`, a request whose client has left is interrupted, about to
  be, or had its interrupt wiped before its prompt, and one served once more does
  not wait again.
* `OpenAiServerRefinement`: `ServerImplementsService`.  The line of
  `RequestService` is the job in the worker's hand, then the one being
  cancelled, then the queue; each action maps to a step of it or changes
  nothing.  That a job is put back in front of nobody needs `Places` and that
  no cancel is under way when the worker has `sch_mtx`.

Only model-checked: liveness.

### ServerTask, ServerTaskProofs

`ServerTask` is `task.c` built with threads: `running`, `done` are its fields,
`tpc` and `spc` where a task's thread and the scheduler are, `awake` and
`spcAwake` whether a wait on the condition variable is over, for whatever
reason.  Everything but a task's own function happens inside the task's mutex,
so a critical section is a step.  `resumes`, `stretches`, `result` are history.
The ucontext build has no second thread.

| run | asks | instance |
|---|---|---|
| `task` | alternation, one stretch per resume, resumes return | 2 tasks of up to 3 stretches |

Fairness: scheduler and tasks run (`WF`), and a task's function yields or
returns.  The scheduler need not resume.

Proofs (`ServerTaskProofs`), for any set of tasks and any number of stretches:
`OneRunsAtATime` and `OneStretchPerResume` are not inductive; `Control` adds
that a task's `running` is set only while the scheduler waits for that task and
that its function runs only while it is set, and `Counters` that resumes and
stretches differ by the stretch that is still due (`TaskTypeCorrect` is the
type).  That every resume returns is
liveness and only model-checked.

### Session, MCSession, SessionProofs

`Session` is one session of `context.c` and those who drive it.  A text is a
sequence of characters, a token the characters it stands for, and `Merges` the
pairs a tokenizer joins: enough for text that was fed in pieces to come back
from the template as other tokens, or not at all (`Dropped`).  A row of the
cache is the sequence of tokens it was computed from, so that a row that is
torn, old, or computed after another prefix is told from a good one; `rec` is
the same of recurrent layers.  `fed` and `fedN` are `fed_ids` and its length
(what lies past the length is kept, as in the code), `syncRender` and `syncTok`
the sync point, `turn` the locals of a turn, `pc` and `idlePc` the two threads.

`sure` is history.  An idle prefill that rewinds the session, writes over some of
it and is then interrupted puts the old lengths back over what it wrote
(`context.c:1784`), and the session goes on: rows and tokens past the point it had
rewound to are not each other's any more.  `WroteOver` notes how many tokens are
still sure, and how many the sync point may count to still be that of its
text; a turn that keeps no more than those (`ReusesSure`) cuts the rest off and
leaves the session whole, one that keeps more goes on from rows, logits or a sync
point that are wrong (`Lost`), until the session is reset.  `CacheHoldsFed`,
`PromptSpelled` and `LogitsFresh` are about sessions that are `Whole`: the signal
itself may come at any step of an idle prefill, and they say that a turn
afterwards is right exactly as far as it stays clear of what was written over.

`BeginTurn`, `BeginCompletion`, `Prefill*`, `SampleNext`, `PickOnDevice`,
`Feed*`, `Spec*` (a token fed before it is read), `Redo*` (the host takes over
from a device that failed), `RecordTurn` and the steps after a turn are the
paths of `context.c:580-1500`; `Idle*` the idle prefill thread; `TypeLine`,
`JoinIdle` and `AfterTurn` are `run_interactive` (`engine.c`), `ChatRequest`,
`CompletionRequest` and `RequestEnds` a slot of the server.  A chunk may be fed,
be interrupted half way through its layers, or fail, which poisons the session;
a signal may come at any step (`Signal`).  A warmup feeds the part of the
rendered system prompt that never changes, which may be empty, and nothing when
the prompt does not fit.

| run | asks | instance |
|---|---|---|
| `session` | cache and fed tokens, prompt text, fresh logits, lengths, the prompt comes back | the terminal: 11 positions, chunks of 1, turns of 2 tokens, one typed text, three pieces of which one is dropped and one may merge with the mark before it, all ways to sample, registers that fail to be read after a turn's first token |
| `session_server` | the same, and that a turn is about its request | a server slot: 9 positions, chats and completions, continued, new and repeated |
| `session_completion_chat` | *violated*: the prompt of a chat that follows a completion on its slot | a server slot of 11 positions |

Bounds.  Nothing is counted but positions and the tokens of a turn, which the
code bounds itself (`n_ctx`, `max_tokens`).  11 positions are three short turns, which
is what a sync point that outlives two rewinds takes.  Chunks of one let an idle
prefill be interrupted after every token; a merge across the mark that begins an
answer makes the header of the next turn differ from what was fed, so that it
rewinds before it feeds.  The server's runs have chunks of two.

Fairness.  Both threads run (`WF` of the thread that runs turns and of the idle
prefill).  Nobody has to type, ask or interrupt.

What the runs and their variants show.  A completion replaces the fed tokens
but leaves the sync point (`context.c:656`), so that the next turn of the chat
keeps the completion's first tokens as its own: run `session_completion_chat`.
A request repeated after it got no answer says its last message twice;
`AnswersTheRequest` allows it.  The other instances below are violated too, for
reasons of their own; they are not runs, because they need settings one at a
time that the runs above combine differently:

| constants changed | violated | why |
|---|---|---|
| `session`, each property without its `sure = Whole` | `CacheHoldsFed`, `PromptSpelled`, `LogitsFresh` | SIGINT between two chunks of an idle prefill: the old length is put back, and covers rows and tokens the prefill has written over. (`PromptSpelled` so broken is also what `test_orchestration.c:622` would fail on; the test's turns are not interrupted there.) |
| `session` with `Hybrid = TRUE`, `Modes = HostMode`, `Merges = NoMerges`, `Dropped = NoDrops` | `PromptSpelled` | the idle prefill of a hybrid model does not rewind: the header's rest is fed after the last answer, and the sync point counts the header's tokens instead |
| the same with `Warmup = FALSE` | `CacheHoldsFed` | a turn rewinds the rows to what its prompt shares with the fed tokens; the recurrent layers keep what they have absorbed and absorb the rest again |
| `session_server` with `Pieces = PiecesAT`, `NCtx = 11`, `Warmup = FALSE`, `BatchSamples = TRUE` | `LogitsFresh` | a token sampled with the last row of a request's decode batch is the first of the slot's next answer |
| `session` with `Warmup = FALSE`, `ReadFails = "ever"` | `LogitsFresh` | the host takes over when a turn's first token cannot be read from the device, and samples logits that were never fetched |

Left out: set-up of buffers and devices, decode batches of several sessions
(their scheduling is `OpenAiServer`'s), the monitor's messages, and sampling
itself: any piece may be picked.

Proofs (`SessionProofs`), for any texts, merges, context, chunk size and length
of turns, on the terminal and on the server, from `SessionAssumption`, which the
runs evaluate (characters are strings; two merges never overlap; a model with
recurrent layers samples on the host, a server never pipelines).

| theorem | property | where |
|---|---|---|
| `SessionTypes` | `TypeOK` | everywhere |
| `SessionLengthsAgree` | `LengthsAgree` | everywhere |
| `SessionAnswersTheRequest` | `AnswersTheRequest` | everywhere |
| `SessionCacheHoldsFed` | `CacheHoldsFed` | `~Hybrid` |
| `SessionPromptSpelled` | `PromptSpelled` | `PlainChat` (a server without completions, a terminal whose model has no recurrent layers) |
| `SessionLogitsFresh` | `LogitsFresh` | `HostSamples` (host mode, or a server whose backend samples no rows) |

The restrictions are those of the table of variants above and of run
`session_completion_chat`: `CacheHoldsFed` is false without `~Hybrid`,
`PromptSpelled` without `PlainChat`, and the two variants that break
`LogitsFresh` are among the other ways to sample.  Signals are not restricted; the
last three are, by their properties, about sessions that are `Whole`.

None of the properties is inductive.

* `TypesInv` is the type of every local where the code is, and the sizes: the
  cache is one token ahead of `fed_ids` exactly between a speculative feed and
  its read (`pc = "spec"`), a batch that is under way fits, and an idle prefill
  keeps lengths that are not below those it works with.  `SessionLengthsAgree`
  is a part of it.
* `SureInv`: some tokens are sure and others not only while the terminal rests
  between an idle prefill and the next turn or reset, and a turn that begins then
  either cuts the session back to sure tokens or gives up being `Whole`.
  `SureRows` and `SureSpelled` are what such a session still has: rows computed
  from the sure tokens, and a sync point that counts no others.
* `Sound`: nothing generates in a poisoned session, and an idle prefill that has
  computed something fits.
* `RowsHoldFed`, on top of these: in a `Whole` session that is not poisoned each row
  up to the fed length was computed from the fed tokens up to it; the rows of an
  unfinished batch from those and the batch's own; and an idle prefill that has
  computed nothing has left the rows it will put back.
* `ServerChat`: where each message of the session stands with respect to the
  request and to the chain the slot adopted, at every place of a turn.
* `HostFresh`: the host samples, and the logits are those of the tokens fed whenever a turn may sample,
  which includes a turn that begins with nothing to compute (a prompt that was
  fed to its last token is all that was fed) and a turn after an idle prefill
  that gave up.  After one that wrote over tokens the logits are of those it wrote
  over; a turn that cuts the session back to sure tokens computes new ones, because
  it keeps fewer tokens than it is given.
* `PromptInv`: `SyncSpelled` (the first `syncTok` tokens fed spell `syncRender`,
  and the loop never feeds below them), `PromptFed` (what is fed and what is
  still to feed spell the render), `HeaderFed` (the same of the idle prefill, and
  the sync point it keeps aside is that of tokens it has not touched).

What the steps rest on is proved as lemmas: what `WriteAt`, `CommonLen`,
`Reuse`, `TailEncode`, `NextChunk` and `Computes` return, that `FlattenSeq`
distributes over concatenation, and that `Encode` loses nothing (`EncodeSpells`:
a text's tokens spell the text).  `FlattenSeq` is a recursive function; that it
is defined and what it returns is shown by the least index at which it would go
wrong, from the library's well-founded induction.

Only model-checked: `LogitsFresh` where a terminal's device samples or feeds ahead
or where a server's backend samples rows, and that the prompt comes back
(`LinesEnd`), which is liveness.

### KvCache, MCKvCache, KvCacheProofs

`KvCache` is one layer's memory on the CPU backend.  `Feed` and `Decode` write
a batch through `cpu_kv_put_slot`, which slides the rows down when a position
does not fit, and attend with `cpu_kv_window_to_slots_base`; `attended` keeps
what was read.  `Begin` is `context_reuse_prefix`; `PlanSkip`, `PlanTake` and
`PlanDropped` are the loop of `kv_reuse_plan_build`, one chunk a step;
`ShiftBegins`, `ShiftRow` and `ShiftEnds` are `cpu_kv_shift`, which first reads
all rows of a chunk and then writes them one by one; `Adopt` takes over a chunk
that was moved.  `FeedRefused` and `FeedBreaks` are an interrupt and a failure.
With `Window = NCtx` the layer is a global one.  `Other*` is a second session of
the same backend: its rows are its own, `kv_base_pos` is not.

| run | asks | instance |
|---|---|---|
| `kv` | what a token attends to; where rows go | 7 positions, window 2, slack 1, chunks of 2 and 3, at most 2 chunks moved, every prompt of two tokens after every other |
| `kv_rewind` | *violated*: what a token attends to after a deep rewind | 6 positions, the same otherwise |

Environment.  `DeepRewinds = FALSE` keeps prompts from going back further than
the rows that are kept, and `LongOthers = FALSE` other sessions from being
created or growing past the window while this one has slid.  Both happen in the
program, and both break `WindowRead`: `kv_base_pos` only grows
(`common.h:319`), neither `context_rewind` nor `kvcache_reset` moves it back
(run `kv_rewind`), and it is shared (`common.c:1440`; `kv` with
`LongOthers = TRUE`).  Run `kv` shows that nothing else does.
A layer that keeps all rows is not affected (`WindowsAreRead`, below; TLC agrees
with `Window = NCtx = 5` and both settings `TRUE`).
`CHECK_DEADLOCK FALSE`: a session poisoned after its rows slid is only left
through the deep reset that this environment excludes.

Bounds.  Tokens come from the prompts, of at most `NCtx` tokens.  A window of
two and a slack of one in seven positions slide four times; seven positions hold
two chunks with a gap, which a third could not add to.

Proofs (`KvCacheProofs`), for any tokens, context, window, chunk sizes and limits,
with deep rewinds and other sessions: `PlansAreSafe` (what `PlanSafe` says) and
`PromptsAreFed` (a prefill that succeeds leaves exactly the prompt fed).
`PlanSafe` is not inductive: while the plan is built its heads must lie past
the last chunk and no further than the prompt or the old tokens, and a match
must be the longest one so that a chunk ends where its tokens do.  That longest
matches exist is a least-number argument from the library's well-founded
induction.

`WindowsAreRead` is `WindowRead` under `FirstRowStays`: the layer keeps all rows
(`Cap = NCtx`; then deep rewinds and long sessions do no harm), or neither of the
two happens, as in run `kv`.  Both exceptions are real, so there is no theorem
without it.  It needs `RowsInv`, on top of what `PlansAreSafe` rests on:

* `Based`: the first row that is kept is not past the window of the next token
  (`Kept`), nor of the one a prompt has gone back to, and rows end within the
  layer's memory.  This is what `Fits` and the slack are for: a batch that makes
  rows slide drops none that its first token still reads.
* `FedRows`: each row that is kept is that of the token fed at its position.
* `MovedRows`: while rows are moved, each has been staged or written as the row of
  the prompt's token.  A row whose source is before the first row is garbage, but
  goes to a position further in front, which `cpu_kv_shift` does not write.
* `ChunkRows`: chunks that wait for the gap before them are in memory, and no gap
  makes rows slide before the last chunk is adopted.

`PutFacts` (what `cpu_kv_put_prepare` does to the positions of rows) and
`ReadForFacts` (`cpu_kv_window_to_slots_base` finds a window that is kept) are
lemmas of their own.

Left out: mirrors on several devices, quantised rows, GPU backends.

### ExpertCache, MCExpertCache, ExpertCacheProofs

`ExpertCache` is one layer's cache in `moe_stream.c` and the batch of
`ops_moe.c` that uses it.  `slots`, `nLru`, `lruOf` are `lru_slots` and
`eid_to_lru`; `tier`, `tierOf` the device's places; `bufs` is memory: what a
buffer holds.  `Scan` is `resolve_scan_hits`, `Collect` a step of
`resolve_collect_misses` (a slot is given away, and the buffer of its last
expert with it), `Fetch` a worker's read, in any order, `Commit` one
`miss_commit`, `Resolved` and `Fails` the router's two ends, `Release`
`moe_release_batch_slots`; `Tier*` are the moves of `tier_sweep`.  Which
unused slot is evicted and which expert moves depends on scores: any may.
`gen` counts from the beginning of a batch (the code's counter never goes
back, and is only compared within one batch).  `lost` is history: what failed
batches held.

One thread computes with a model at a time, so one batch at a time uses a
layer; the functions that would take several (`moe_stream_op_*`,
`moe_exec_dispatch`, `moe_exec_gather`) have no caller and are left out, as are
pinned experts, page hints and scores.

| run | asks | instance |
|---|---|---|
| `experts` | right weights, one owner per buffer, use counts, nothing left behind | 4 experts (symmetric), 2 slots, 1 place on the device, 10 buffers, 1 failing batch |

Bounds.  `NBufs` is memory: 10 buffers are the most that slots, reads and
copies of one batch after a failed one take, so that memory never ends
here but for the failed reads that `Fetch` has anyway.  `MaxFails` is the number of
batches that fail.  Two slots for up to four experts make a later miss take the
slot of an earlier one, and find none free.

What the run shows beyond the properties: a batch that fails gives nothing back
(`ops_moe.c:554`), its slots count as used and its private copies stay allocated for the
life of the process.  `InuseCounts` and `BuffersOwned` account for them in
`lost`, as if the failed batch still held them: they say that nothing else is
lost or shared, not that nothing leaks.  Not modelled: with the weights not mapped and a device that fails,
`moe_experts_batch_split` says that it falls back to the CPU, whose path skips
experts without `gate_w` (`ops_moe.c:591`, `moe_stream.c:1004`).

Proofs (`ExpertCacheProofs`), for any finite set of experts, any number of slots,
places, buffers and failures: `BatchesHoldTheirExperts` (`HeldIntact`) and
`BuffersHaveOneOwner` (`BuffersOwned`).  `HeldIntact` is not inductive: that
nobody reads into what a batch holds rests on who owns each buffer
(`Distinct`), on a free buffer having no owner (`NotFree`), and on a held slot
counting as used, so that it is neither given away nor committed to (`HeldOk`);
`Parts` and `Stages` say that an expert of the batch is held, needed or missed.
`Inductive` proves the conjunction, one lemma per stage.  `UsesAreCounted`
(`InuseCounts`) and `BatchesLeaveItSettled` (`Settled`) need more of the state:
that the tables of ids say where an expert is and that it is in one place
(`Mapped`), so that a release, which looks slots up by expert, finds exactly those
it holds (`FoundAgain`); that a slot that is not ready waits for a miss whose
generation it still has (`Reserved`), so that the commits leave every slot ready;
and that a batch holds each slot once (`Counted`, `UsedOnce`).  `Accounted` proves
the conjunction `CInv`.  Assumption: `ExpertAssumption`, which the run evaluates.
All four properties of the run are proved.

### MemPlan, MCMemPlan, MemPlanProofs

`MemPlan` follows a recipe (operators before the layers, of each layer, after
them) from the graphs it is lowered to (`recipe/graph.c`) to the buffers its
slots share (`recipe/plan.c`) and the batches that run in them
(`recipe/scratch.c`, `recipe/exec.c`).  An operator is what `recipe_op_touch`
and `batch_extra_mask` say of it.  `Live` is `graph_value_ranges` without its
arithmetic: the union of the ranges of a slot's values, in the graph of one
layer; `HiddenUse` the spans of `collect_hidden_uses`; `Conflict` the matrix
that all graphs fill in.  `Group` is a turn of `group_slots` (`rep`, `turn`),
`Prepare` binds the slots on every device (`bind`), `Compute` and `Swap` are the
operators of `layer_run_schedule` and `exec_outer_schedule`, `NextLayer` goes to
the next layer, with `part_run_transfer` where the device changes, `LastLayer`
to the operators after the layers, with or without `part_run_gather`, and
`BatchEnds` is the end of a batch, early ones included.  `mem` holds for each
buffer of each device which operator wrote it for which slot.  `ref` is history:
what the slots would hold in buffers of their own on one device.

Assumptions.  `WellFormed` is what the planner and the executor rely on, part of
which the code reports without refusing: operators read what some operator
before them wrote whatever the layers before did (`Defined`; `graph_validate`
logs it), layers take over the same slots (`SameExposed`) and only slots that
are carried (`CrossesCarried`; `part_plan_check_carry` warns), and the carried
slots, `X` and `HC`, are in use together somewhere (`CarriedApart`; `OP_HC_INIT`
reads one and writes the other).  The builders and models in the repository meet
them: layers take over `X`, or `HC` with hyper connections, the operators
after the layers read the same, and swaps exchange `X` and `XB2`.

| run | asks | instance |
|---|---|---|
| `plan` | operators read what they would read without sharing, swapping and moving | 1252 recipes: up to 3 operators for each of 2 layers on 2 devices, over `X`, `HC` and 3 work slots, with swaps, hidden slots, and layers that differ |

Bounds.  Three operators are what it takes for a slot to join a buffer of
two; two layers for a value to go round, two devices for a move there and back.
Every batch is the same, but may end anywhere, so `recipe` is chosen once.

Proof (`MemPlanProofs`), for any slots, order, layers, devices, placement and any
set of recipes that meet `WellFormed`: `SharingIsInvisible` (`OperandsRight`).
The property is not inductive.  `Grouped` and `Bound` say that slots with one
buffer do not conflict and are not swapped, which a swap keeps because it
only touches pinned slots; `Kept` that every slot some later operator of the
whole recipe awaits is intact, `HiddenKept` the same of hidden slots.  The plan
was made from graphs of one layer; `LiveSomewhere` bridges the gap: what a
later layer awaits is live in the running layer's graph, since that layer takes
over the same slot.  `Crossing` shows that only carried slots are awaited
across stages.

Left out: the passes that fuse and coalesce operators before the plan is made
(steps that run several operators at once are taken one by one), the gate-up
slot whose halves are slots too, slots outside the arena (logits, router), sizes,
offsets and layouts by number of rows, and the executor and arena of diffusion
graphs.

## What is not covered

* **Liveness** is checked by TLC under the fairness stated with each module and
  nowhere proved.
* **`monitor.c`, `hcs.c`, `memory.c`, `toolcall.c`**: worth
  modelling, not begun (Plan, 7).
* **Kernels, drivers, tensors** (`backend/`, operators and passes of `recipe/`, `diffusion/`,
  `models/`): numeric or behind driver calls; the greater part of the program's
  lines and out of a model checker's reach.
* **Parsers, templates, tokenizer, `tui/`**: sequential text processing and
  display.
* **Memory order** is sequential consistency, but for the pair of accesses named
  under `ThreadPool`.
