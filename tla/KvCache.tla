------------------------------ MODULE KvCache ------------------------------
(***************************************************************************)
(* The rows of one layer of one session's key/value cache, on the CPU      *)
(* backend: how a prompt reuses rows of the turn before (context.c), how   *)
(* rows are moved to other positions (kvcache_shift, cpu_kv_shift), and    *)
(* how a sliding-window layer keeps only the last Cap rows and slides them *)
(* down when a position past them is written (cpu_kv_put_slot).  A layer   *)
(* whose window is as long as the context keeps all rows: with             *)
(* Window = NCtx this is a global layer.                                   *)
(*                                                                         *)
(* A row is the token it was computed from and the position it is rotated  *)
(* to.  The position of a layer's first row, kv_base_pos, belongs to the   *)
(* backend and not to the session: other sessions use it too.              *)
(***************************************************************************)
EXTENDS Integers, Sequences, FiniteSets

CONSTANTS
    Tokens,
    NCtx,         \* n_ctx
    Window,       \* sliding_window
    Slack,        \* rows kept beyond the window (model_kv_layer_pos_cap)
    ChunkSizes,   \* what context_prefill_chunk_size may return
    MinChunk,     \* KV_SHIFT_MIN_CHUNK
    MaxChunks,    \* KV_SHIFT_MAX_CHUNKS
    CanShift,     \* kvcache_can_shift
    DeepRewinds,  \* prompts may go back further than the rows that are kept
    LongOthers    \* other sessions may move the first row, or forget it

ASSUME KvAssumption ==
    /\ NCtx \in Nat \ {0} /\ Window \in Nat \ {0} /\ Slack \in Nat \ {0}
    /\ ChunkSizes \subseteq Nat \ {0} /\ ChunkSizes # {}
    /\ MinChunk \in Nat \ {0} /\ MaxChunks \in Nat \ {0}
    /\ {CanShift, DeepRewinds, LongOthers} \subseteq BOOLEAN

VARIABLES
    fed,      \* fed_ids; kv.n_pos is its length
    rows,     \* the layer's memory: slot to row
    base,     \* kv_base_pos of the layer
    pc,       \* where the session's thread is
    ids,      \* the prompt
    reuse,    \* how many of its tokens stay where they are
    headC, headP, plan,   \* kv_reuse_plan_build
    staged,   \* rows cpu_kv_shift has read and not yet written
    attended, \* what the last attention has read
    other     \* n_pos of another session, -1 before it exists

cacheVars == <<fed, rows, base>>
planVars == <<ids, reuse, headC, headP, plan, staged>>
vars == <<cacheVars, pc, planVars, attended, other>>

Min2(m, n) == IF m <= n THEN m ELSE n
Max2(m, n) == IF m >= n THEN m ELSE n

\* model_kv_layer_pos_cap
Cap == Min2(Window + Slack, NCtx)
Slots == 0 .. Cap - 1

Row(tok, pos) == <<tok, pos>>
Junk == <<>>      \* never written, torn, or read from outside

NPos == Len(fed)

Prompts == UNION {[1 .. n -> Tokens] : n \in 1 .. NCtx}

-----------------------------------------------------------------------------
(* Writing rows.                                                           *)

\* How far the rows slide down to make room for a position.
Slide(pos) ==
    IF Cap < NCtx /\ pos >= base + Cap THEN Min2(pos - base - Cap + 1, Cap) ELSE 0

\* cpu_kv_put_slot, once they have
SlotOf(pos) ==
    LET first == base + Slide(pos) IN IF pos < first THEN 0 ELSE pos - first

\* cpu_kv_put_prepare and its chunks: room is made for the last row, and the
\* rows end at its slot.
Put(pos, vals) ==
    LET last  == pos + Len(vals) - 1
        down  == Slide(last)
        slot  == SlotOf(last)
        start == IF slot >= Len(vals) - 1 THEN slot - (Len(vals) - 1) ELSE 0
    IN  /\ base' = base + down
        /\ rows' = [s \in Slots |->
               IF s >= start /\ s < start + Len(vals) THEN vals[s - start + 1]
               ELSE IF s + down \in Slots THEN rows[s + down] ELSE rows[s]]

\* The rows of tokens at a position and the positions after it.
RowsFor(pos, toks) == [i \in 1 .. Len(toks) |-> Row(toks[i], pos + i - 1)]

-----------------------------------------------------------------------------
(* Reading them: cpu_attention.                                            *)

\* The rows a position attends to.
WindowOf(toks, pos) ==
    LET n == Min2(pos + 1, Window)
    IN  [i \in 1 .. n |-> Row(toks[pos - n + i + 1], pos - n + i)]

\* cpu_kv_window_to_slots_base: what is read for them.
ReadFor(pos) ==
    LET n     == Min2(pos + 1, Window)
        start == pos + 1 - n
        lost  == IF start < base' THEN base' - start ELSE 0
        first == IF start < base' THEN 0 ELSE start - base'
    IN  [i \in 1 .. Max2(n - lost, 0) |->
            IF first + i - 1 \in Slots THEN rows'[first + i - 1] ELSE Junk]

Attention(pos, toks) ==
    attended' = [toks |-> fed \o toks,
                 read |-> [p \in pos .. pos + Len(toks) - 1 |-> ReadFor(p)]]

Nothing == [toks |-> <<>>, read |-> <<>>]

\* compute_forward(_batch) of tokens at n_pos, and n_pos past them
Forward(toks) ==
    /\ Put(NPos, RowsFor(NPos, toks))
    /\ Attention(NPos, toks)
    /\ fed' = fed \o toks

\* Stopped, or failed, with this layer's rows written, in part or not at all.
Broken(toks) ==
    /\ \/ UNCHANGED <<rows, base>>
       \/ Put(NPos, RowsFor(NPos, toks))
       \/ Put(NPos, [i \in 1 .. Len(toks) |-> Junk])
    /\ attended' = Nothing
    /\ UNCHANGED fed

\* The locals of a turn that is over.
Forgotten ==
    /\ ids' = <<>> /\ reuse' = 0 /\ headC' = 0 /\ headP' = 0
    /\ plan' = <<>> /\ staged' = <<>>

-----------------------------------------------------------------------------
Init ==
    /\ fed = <<>> /\ rows = [s \in Slots |-> Junk] /\ base = 0
    /\ pc = "idle"
    /\ ids = <<>> /\ reuse = 0 /\ headC = 0 /\ headP = 0 /\ plan = <<>> /\ staged = <<>>
    /\ attended = Nothing
    /\ other = -1

\* A position can be fed when all that it attends to is still kept.
Kept(pos) == base <= Max2(0, pos + 1 - Window)

-----------------------------------------------------------------------------
(* A prompt: context_reuse_prefix.                                         *)

\* fed_ids_common_prefix
CommonLen(p) ==
    CHOOSE k \in 0 .. Min2(NPos, Len(p)) :
        /\ \A i \in 1 .. k : fed[i] = p[i]
        /\ k < Min2(NPos, Len(p)) => fed[k + 1] # p[k + 1]

Reused(p) == IF CommonLen(p) = Len(p) /\ Len(p) < NPos THEN Len(p) - 1 ELSE CommonLen(p)

Begin(p) ==
    /\ pc = "idle"
    /\ DeepRewinds \/ Reused(p) >= NPos \/ Kept(Reused(p))
    /\ ids' = p /\ reuse' = Reused(p)
    /\ headC' = Reused(p) /\ headP' = Reused(p) /\ plan' = <<>>
    /\ IF Reused(p) >= NPos
       THEN pc' = "prefill" /\ UNCHANGED fed
       ELSE IF CanShift
       THEN pc' = "plan" /\ UNCHANGED fed
       ELSE pc' = "prefill" /\ fed' = SubSeq(fed, 1, Reused(p))
    /\ attended' = Nothing
    /\ UNCHANGED <<rows, base, staged, other>>

\* How many tokens from headC on are those of the prompt from headP on; its
\* last token is always fed, for its logits.
Matched ==
    CHOOSE k \in 0 .. NPos :
        /\ headC + k <= NPos /\ headP + k <= Len(ids) - 1
        /\ \A i \in 1 .. k : fed[headC + i] = ids[headP + i]
        /\ headC + k < NPos /\ headP + k < Len(ids) - 1 =>
               fed[headC + k + 1] # ids[headP + k + 1]

Planning == headC < NPos /\ headP < Len(ids) - 1 /\ Len(plan) < MaxChunks

\* One turn of kv_reuse_plan_build's loop.
PlanSkip ==
    /\ pc = "plan" /\ Planning /\ Matched < MinChunk
    /\ headC' = headC + 1
    /\ UNCHANGED <<cacheVars, pc, ids, reuse, headP, plan, staged, attended, other>>

\* Fault: the tokens that were matched may match again.
PlanTakeAgain ==
    /\ pc = "plan" /\ Planning /\ Matched >= MinChunk
    /\ plan' = Append(plan, [src |-> headC, dst |-> headP, n |-> Matched])
    /\ headC' = headC + 1 /\ headP' = headP + 1
    /\ UNCHANGED <<cacheVars, pc, ids, reuse, staged, attended, other>>

PlanTake ==
    /\ pc = "plan" /\ Planning /\ Matched >= MinChunk
    /\ plan' = Append(plan, [src |-> headC, dst |-> headP, n |-> Matched])
    /\ headC' = headC + Matched /\ headP' = headP + Matched
    /\ UNCHANGED <<cacheVars, pc, ids, reuse, staged, attended, other>>

Rewound == fed' = SubSeq(fed, 1, reuse)     \* context_rewind

\* Nothing can be moved, or a layer refuses before this one has moved anything.
PlanDropped ==
    /\ pc = "plan" /\ ~Planning
    /\ plan' = <<>>
    /\ Rewound
    /\ pc' = "prefill"
    /\ UNCHANGED <<rows, base, ids, reuse, headC, headP, staged, attended, other>>

\* The positions rows are moved to, and where each comes from.
Goals == UNION {plan[i].dst .. plan[i].dst + plan[i].n - 1 : i \in DOMAIN plan}
ChunkOf(pos) == CHOOSE i \in DOMAIN plan : pos \in plan[i].dst .. plan[i].dst + plan[i].n - 1
Source(pos) == pos + plan[ChunkOf(pos)].src - plan[ChunkOf(pos)].dst

\* A row as cpu_kv_shift reads it, rotated to where it goes; one that the layer
\* does not have is whatever the memory held.
Staged(pos) ==
    LET row == IF Source(pos) - base \in Slots THEN rows[Source(pos) - base] ELSE Junk
    IN  IF row = Junk THEN Junk ELSE Row(row[1], row[2] + pos - Source(pos))

\* kvcache_shift gets to this layer: all rows are read before one is written.
ShiftBegins ==
    /\ pc = "plan" /\ ~Planning /\ plan # <<>>
    /\ staged' = [pos \in Goals |-> Staged(pos)]
    /\ pc' = "shift"
    /\ UNCHANGED <<cacheVars, ids, reuse, headC, headP, plan, attended, other>>

\* ... in the order of their positions; those before the first row are dropped.
ShiftRow ==
    /\ pc = "shift"
    /\ \E pos \in DOMAIN staged :
        /\ \A p \in DOMAIN staged : pos <= p
        /\ IF pos < base THEN UNCHANGED <<rows, base>> ELSE Put(pos, <<staged[pos]>>)
        /\ staged' = [p \in DOMAIN staged \ {pos} |-> staged[p]]
    /\ UNCHANGED <<fed, pc, ids, reuse, headC, headP, plan, attended, other>>

\* Every layer was moved, or one after this refuses and the rows are fed again.
ShiftEnds ==
    /\ pc = "shift" /\ DOMAIN staged = {}
    /\ plan' \in {plan, <<>>}
    /\ Rewound
    /\ staged' = <<>> /\ pc' = "prefill"
    /\ UNCHANGED <<rows, base, ids, reuse, headC, headP, attended, other>>

-----------------------------------------------------------------------------
(* The rest of the prompt: context_prefill_with_plan.                      *)

GapEnd == IF plan = <<>> THEN Len(ids) ELSE Head(plan).dst

Batch(size) == SubSeq(ids, NPos + 1, Min2(NPos + size, GapEnd))

\* Fault: the batch may be longer than the slack.
FitsAnyLength(toks) == TRUE

\* compute_forward_batch: early rows of a longer batch would miss their window.
Fits(toks) == NPos + Len(toks) <= Window + Slack \/ Len(toks) <= Slack + 1

Feed ==
    /\ pc = "prefill" /\ NPos < GapEnd
    /\ \E size \in ChunkSizes : Fits(Batch(size)) /\ Forward(Batch(size))
    /\ UNCHANGED <<pc, planVars, other>>

\* A batch that does not fit counts as a failed one.
FeedRefused ==
    /\ pc = "prefill" /\ NPos < GapEnd
    /\ \E size \in ChunkSizes : ~Fits(Batch(size))
    /\ pc' = "poisoned" /\ attended' = Nothing /\ Forgotten
    /\ UNCHANGED <<cacheVars, other>>

FeedBreaks ==
    /\ pc = "prefill" /\ NPos < GapEnd
    /\ \E size \in ChunkSizes : Fits(Batch(size)) /\ Broken(Batch(size))
    /\ pc' = "poisoned" /\ Forgotten
    /\ UNCHANGED other

\* The rows of a chunk are where they belong: its tokens count as fed.
Adopt ==
    /\ pc = "prefill" /\ plan # <<>> /\ NPos >= Head(plan).dst
    /\ fed' = fed \o SubSeq(ids, Head(plan).dst + 1, Head(plan).dst + Head(plan).n)
    /\ plan' = Tail(plan)
    /\ attended' = Nothing
    /\ UNCHANGED <<rows, base, pc, ids, reuse, headC, headP, staged, other>>

PromptEnds ==
    /\ pc = "prefill" /\ plan = <<>> /\ NPos >= Len(ids)
    /\ pc' = "idle"
    /\ attended' = Nothing /\ Forgotten
    /\ UNCHANGED <<cacheVars, other>>

-----------------------------------------------------------------------------
\* context_feed_token_inner: a token of the answer.
Decode ==
    /\ pc = "idle" /\ NPos < NCtx
    /\ \E tok \in Tokens : Forward(<<tok>>)
    /\ UNCHANGED <<pc, planVars, other>>

\* Interrupted between two layers, the token is not counted.
DecodeStops ==
    /\ pc = "idle" /\ NPos < NCtx
    /\ \E tok \in Tokens : Broken(<<tok>>)
    /\ UNCHANGED <<pc, planVars, other>>

\* context_reset, kvcache_reset: the first row stays where it is.
Reset ==
    /\ pc \in {"idle", "poisoned"}
    /\ DeepRewinds \/ base = 0
    /\ fed' = <<>> /\ pc' = "idle"
    /\ attended' = Nothing
    /\ UNCHANGED <<rows, base, planVars, other>>

-----------------------------------------------------------------------------
(* Another session of the same backend, between two batches of this one.   *)
(* Its rows are its own, kv_base_pos is not.                               *)

Between == pc \in {"idle", "prefill", "poisoned"}

\* context_slot_init, kv_alloc: the first rows of all layers are 0 again.
OtherCreated ==
    /\ Between /\ other = -1
    /\ LongOthers \/ base = 0
    /\ base' = 0 /\ other' = 0
    /\ UNCHANGED <<fed, rows, pc, planVars, attended>>

OtherFeeds ==
    /\ Between /\ other \in 0 .. NCtx - 1
    /\ LongOthers \/ other < Cap
    /\ base' = base + Slide(other) /\ other' = other + 1
    /\ UNCHANGED <<fed, rows, pc, planVars, attended>>

OtherResets ==
    /\ Between /\ other > 0
    /\ other' = 0
    /\ UNCHANGED <<cacheVars, pc, planVars, attended>>

-----------------------------------------------------------------------------
Next ==
    \/ \E p \in Prompts : Begin(p)
    \/ PlanSkip \/ PlanTake \/ PlanDropped \/ ShiftBegins \/ ShiftRow \/ ShiftEnds
    \/ Feed \/ FeedRefused \/ FeedBreaks \/ Adopt \/ PromptEnds
    \/ Decode \/ DecodeStops \/ Reset
    \/ OtherCreated \/ OtherFeeds \/ OtherResets

Spec == Init /\ [][Next]_vars

-----------------------------------------------------------------------------
(* Properties.                                                             *)

\* Whatever a layer keeps, a token attends to the rows of exactly the tokens of
\* its window, each at its own position, as in a cache that keeps all rows.
\* (cpu_kv_put_slot, cpu_kv_window_to_slots_base, cpu_kv_shift, the slack.)
WindowRead ==
    \A pos \in DOMAIN attended.read :
        attended.read[pos] = WindowOf(attended.toks, pos)

\* Chunks are moved towards the front, in order and apart from each other; each
\* holds tokens of the prompt at their place in it, and leaves its last token
\* to be fed.  While gaps are fed and chunks are adopted, all that counts as fed
\* is the prompt, and no chunk that is still to come has been passed.
\* (kv_reuse_plan_build, context_rewind, context_prefill_with_plan.)
PlanSafe ==
    /\ pc \in {"plan", "shift"} =>
           \A i \in DOMAIN plan :
               /\ plan[i].n >= MinChunk /\ reuse <= plan[i].dst /\ plan[i].dst < plan[i].src
               /\ plan[i].src + plan[i].n <= NPos /\ plan[i].dst + plan[i].n < Len(ids)
               /\ \A t \in 1 .. plan[i].n : fed[plan[i].src + t] = ids[plan[i].dst + t]
               /\ \A j \in 1 .. i - 1 : /\ plan[j].dst + plan[j].n <= plan[i].dst
                                        /\ plan[j].src + plan[j].n <= plan[i].src
    /\ pc = "prefill" =>
           /\ NPos <= Len(ids) /\ \A t \in 1 .. NPos : fed[t] = ids[t]
           /\ \A i \in DOMAIN plan : NPos <= plan[i].dst
=============================================================================
