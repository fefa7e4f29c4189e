------------------------------ MODULE Session ------------------------------
(***************************************************************************)
(* One session of src/src/context.c: what it believes it has fed to the    *)
(* model (fed_ids), what the cache holds, what the chat template rendered, *)
(* and the turns, completions, warmups and idle prefills that move them.   *)
(* Two programs drive it: run_interactive (engine.c), whose idle prefill   *)
(* thread works between turns, and a slot of the server (openai.c).        *)
(*                                                                         *)
(* A text is a sequence of characters and a token the sequence of          *)
(* characters it stands for, so that the tokenizer can merge characters in *)
(* one text that were fed one by one in another (a re-encode seam).  A row *)
(* of the cache is the sequence of tokens it was computed from: its own    *)
(* and those before it.  Models whose rows can be moved to other positions *)
(* (kvcache_can_shift) are module KvCache's.                               *)
(***************************************************************************)
EXTENDS Integers, Sequences, SequencesExt, FiniteSets

CONSTANTS
    NCtx,         \* n_ctx
    Chunk,        \* tokens per compute_forward_batch (context_prefill_chunk_size)
    MaxTokens,    \* max_tokens of every turn
    UserTexts,    \* what users write, and prompts of completions
    Pieces,       \* tokens the model produces
    Merges,       \* pairs of characters that are one token
    Dropped,      \* characters the template leaves out (thinking, trimmed space)
    System,       \* the system prompt; <<>> when there is none
    Driver,       \* "interactive" or "server"
    Warmup,       \* --warmup: system prompt and idle prefill
    Hybrid,       \* the model has recurrent layers
    Modes,        \* how tokens are sampled: subset of {"host", "device", "pipelined"}
    BatchSamples, \* the server's backend samples the rows of a decode batch
    ReadFails,    \* reading a token register fails "never", "later" than at a turn's
                  \* first token, or "ever"
    Completions   \* the server also serves /v1/completions

ASSUME SessionAssumption ==
    /\ NCtx \in Nat \ {0} /\ Chunk \in Nat \ {0} /\ MaxTokens \in Nat
    /\ Driver \in {"interactive", "server"}
    /\ {Warmup, Hybrid, BatchSamples, Completions} \subseteq BOOLEAN
    \* a character is a string, a text and a token are sequences of them
    /\ UserTexts \cup Pieces \cup Merges \cup {System} \subseteq Seq(STRING)
    /\ \A x, y \in Merges : Len(x) = 2 /\ x[2] # y[1]
    /\ ReadFails \in {"never", "later", "ever"}
    /\ Modes \subseteq {"host", "device", "pipelined"}
    \* decode_on_device, context_token_regs_usable
    /\ Hybrid => Modes = {"host"}
    /\ Driver = "server" => "pipelined" \notin Modes

VARIABLES
    nPos, rows,     \* kv.n_pos and the cache; rows past nPos may be torn or old
    rec,            \* what the recurrent layers have absorbed
    fed, fedN,      \* fed_ids: its memory and its length
    syncRender, syncTok,   \* sync_render, sync_tok (0: none)
    msgs, lastRender,      \* chat.messages, chat.last_render
    poisoned, interrupt,   \* session_poisoned, interrupt
    hostLogits, devLogits, \* tokens the logits were computed from
    presampled,     \* <<>>, or a token sampled ahead and the tokens it follows
    pc, turn,       \* the thread that runs turns, and its locals
    idlePc, idle,   \* the idle prefill thread, and its locals
    adopted,        \* the slot's n_msgs and full_hash: messages they stand for
    sure            \* history: what no interrupted idle prefill wrote over

cache == <<nPos, rows, rec, fed, fedN, sure>>
chat == <<syncRender, syncTok, msgs, lastRender>>
logits == <<hostLogits, devLogits, presampled>>
vars == <<cache, chat, poisoned, interrupt, logits, pc, turn, idlePc, idle, adopted>>

Bos == <<"^">>
Eog == <<".">>
Torn == <<"?">>     \* computed by some layers only, or not to the end
None == <<>>
Ok == "ok"
Error == "error"
\* How many of the tokens fed are sure to be those the rows were computed from,
\* and how many the sync point may count: all of them; or none, when a turn went
\* on from others.
Whole == [tokens |-> NCtx, sync |-> NCtx]
Lost == [tokens |-> 0, sync |-> 0]
Unheard == <<<<"!">>>>  \* sampled from logits that were never computed

-----------------------------------------------------------------------------
(* Texts and tokens.                                                       *)

Encode(text) ==
    LET merged(i) == i \in 1..Len(text) - 1 /\ SubSeq(text, i, i + 1) \in Merges
    IN  FlattenSeq([i \in DOMAIN text |->
            IF merged(i - 1) THEN <<>>
            ELSE IF merged(i) THEN <<SubSeq(text, i, i + 1)>>
            ELSE <<<<text[i]>>>>])

Spell(ids) == FlattenSeq(ids)

CommonLen(s, t) == Max({k \in 0..Len(s) : IsPrefix(SubSeq(s, 1, k), t)})

\* What the template renders: a mark for each message and what it shows of it,
\* and the mark that asks the model for the next one.
Message(role, text) == [role |-> role, text |-> text]
Shown(text) == FlattenSeq([i \in DOMAIN text |-> IF text[i] \in Dropped THEN <<>> ELSE <<text[i]>>])
Render(ms, prompted) ==
    <<"^">> \o FlattenSeq([i \in DOMAIN ms |-> <<ms[i].role>> \o Shown(ms[i].text)])
            \o (IF prompted THEN <<"A">> ELSE <<>>)

Fed == SubSeq(fed, 1, fedN)
FedSynced == Min({fedN, nPos})     \* fed_ids_sync

\* sync_invariant_ok
SyncOk(render) ==
    /\ syncTok > 0 /\ syncTok <= FedSynced
    /\ IsPrefix(syncRender, render)

\* tail_boundary_is_clean
CleanBoundary(suffix) ==
    LET last == fed[syncTok]
    IN  Encode(last \o suffix) = <<last>> \o Encode(suffix)

\* Fault: all that was fed is taken for the prefix.
TailEncodeAfterAll(render) ==
    LET suffix == SubSeq(render, Len(syncRender) + 1, Len(render))
    IN  IF SyncOk(render) /\ CleanBoundary(suffix)
        THEN SubSeq(fed, 1, FedSynced) \o Encode(suffix)
        ELSE Encode(render)

\* tail_encode_ids, of the text just rendered
TailEncode(render) ==
    LET suffix == SubSeq(render, Len(syncRender) + 1, Len(render))
    IN  IF SyncOk(render) /\ CleanBoundary(suffix)
        THEN SubSeq(fed, 1, syncTok) \o Encode(suffix)
        ELSE Encode(render)

\* Fault: a prompt that is a part of what was fed is not fed at all.
ReuseAll(ids) == CommonLen(SubSeq(fed, 1, FedSynced), ids)

\* context_reuse_prefix: how many tokens of a prompt are kept
Reuse(ids) ==
    LET common == CommonLen(SubSeq(fed, 1, FedSynced), ids)
    IN  IF ids # <<>> /\ common = Len(ids) /\ common < FedSynced THEN common - 1 ELSE common

-----------------------------------------------------------------------------
(* Feeding tokens.  A batch is a record with the tokens (toks) and how many *)
(* of them are computed (off); it begins at nPos.                           *)

WriteAt(s, at, vals) ==
    [i \in 1..Max({Len(s), at + Len(vals)}) |->
        IF i > at /\ i <= at + Len(vals) THEN vals[i - at] ELSE s[i]]

Below(at) == IF at = 0 THEN <<>> ELSE rows[at]
Row(at, toks) == Below(at) \o toks
RowsOf(at, toks) == [i \in DOMAIN toks |-> Row(at, SubSeq(toks, 1, i))]

\* compute_forward(_batch) of some tokens at a position, when it succeeds ...
Computes(at, toks) ==
    /\ rows' = WriteAt(rows, at, RowsOf(at, toks))
    /\ rec' = IF Hybrid THEN (IF at = 0 THEN <<>> ELSE rec) \o toks ELSE rec

\* ... and when it stops half-way, with some layers written.
Tears(at, toks) ==
    /\ rows' = WriteAt(rows, at, [i \in DOMAIN toks |-> <<Torn>>])
    /\ rec' = IF Hybrid THEN Append(rec, Torn) ELSE rec

NextChunk(b) == SubSeq(b.toks, b.off + 1, Min({b.off + Chunk, Len(b.toks)}))
LastChunk(b) == b.off + Len(NextChunk(b)) = Len(b.toks)

\* Fault: one token too many.
RoomForOneMore == nPos <= NCtx

Room == nPos < NCtx

\* kv.n_pos and fed_ids take the first n tokens of a batch.
Counted(b, n) ==
    /\ nPos' = nPos + n
    /\ fed' = WriteAt(SubSeq(fed, 1, Len(fed)), FedSynced, SubSeq(b.toks, 1, n))
    /\ fedN' = FedSynced + n

\* What nobody will look at any more is forgotten: rows past nPos.
Trimmed(n) == rows' = SubSeq(rows, 1, n)

\* context_feed_tokens_batch: one chunk; the last one computes logits.
FeedChunk(b) ==
    /\ b.off < Len(b.toks) /\ ~interrupt
    /\ UNCHANGED sure
    /\ Computes(nPos + b.off, NextChunk(b))
    /\ IF LastChunk(b)
       THEN /\ Counted(b, Len(b.toks))
            /\ hostLogits' = Row(nPos + b.off, NextChunk(b))
            /\ devLogits' = hostLogits'
       ELSE UNCHANGED <<nPos, fed, fedN, hostLogits, devLogits>>

\* Interrupted, before a chunk or inside it.
FeedInterrupted(b) ==
    /\ b.off < Len(b.toks) /\ interrupt
    /\ \/ UNCHANGED <<rows, rec>>
       \/ Tears(nPos + b.off, NextChunk(b))

FeedFails(b) ==
    /\ b.off < Len(b.toks)
    /\ Tears(nPos + b.off, NextChunk(b))

-----------------------------------------------------------------------------
NoTurn == [kind |-> "none"]
NoIdle == [toks |-> <<>>]

Init ==
    /\ nPos = 0 /\ rows = <<>> /\ rec = <<>> /\ fed = <<>> /\ fedN = 0
    /\ syncRender = <<>> /\ syncTok = 0 /\ msgs = <<>> /\ lastRender = <<>>
    /\ poisoned = FALSE /\ interrupt = FALSE
    /\ hostLogits = Unheard /\ devLogits = Unheard /\ presampled = None
    /\ pc = "reset" /\ turn = NoTurn
    /\ idlePc = "off" /\ idle = NoIdle
    /\ adopted = None /\ sure = Whole

\* SIGINT, a client that is gone, a stop sequence, a server that stops.
Signal ==
    /\ ~interrupt
    /\ interrupt' = TRUE
    /\ UNCHANGED <<cache, chat, poisoned, logits, pc, turn, idlePc, idle, adopted>>

-----------------------------------------------------------------------------
(* Reset and warmup.                                                       *)

SessionCleared ==   \* context_reset_session
    /\ msgs' = <<>> /\ lastRender' = <<>>
    /\ syncRender' = <<>> /\ syncTok' = 0
    /\ interrupt' = FALSE

CacheCleared ==     \* the rest of context_reset
    /\ nPos' = 0 /\ rows' = <<>> /\ fedN' = 0 /\ fed' = <<>>
    /\ rec' = <<>> /\ sure' = Whole
    /\ poisoned' = FALSE

\* reset_and_warmup, slot_warm: context_reset, then engine_prepare_system up to
\* its prefill of the part of the rendered system prompt that never changes,
\* which may be shorter than its first token; a prompt that does not fit is not
\* prefilled either.
Reset ==
    /\ pc = "reset"
    /\ CacheCleared
    /\ syncRender' = <<>> /\ syncTok' = 0 /\ interrupt' = FALSE
    /\ IF Warmup
       THEN /\ msgs' = <<Message("S", System)>>
            /\ \E ids \in {Encode(Render(msgs', FALSE))} : \E n \in 0..Len(ids) :
                   /\ n > 0 => Len(ids) <= NCtx
                   /\ lastRender' = IF n > 0 THEN Render(msgs', FALSE) ELSE <<>>
                   /\ turn' = [kind |-> "warmup", toks |-> SubSeq(ids, 1, n), off |-> 0]
            /\ pc' = "warmup"
       ELSE /\ msgs' = IF System = <<>> THEN <<>> ELSE <<Message("S", System)>>
            /\ lastRender' = <<>>
            /\ turn' = NoTurn /\ pc' = "input"
    /\ UNCHANGED <<logits, idlePc, idle, adopted>>

WarmupChunk ==
    /\ pc = "warmup" /\ turn.off < Len(turn.toks)
    /\ FeedChunk(turn)
    /\ turn' = [turn EXCEPT !.off = @ + Len(NextChunk(turn))]
    /\ UNCHANGED <<chat, poisoned, interrupt, presampled, pc, idlePc, idle, adopted>>

WarmupFails ==
    /\ pc = "warmup"
    /\ FeedInterrupted(turn) \/ FeedFails(turn)
    /\ Counted(turn, turn.off)
    /\ poisoned' = TRUE
    /\ turn' = [turn EXCEPT !.off = Len(turn.toks)]
    /\ UNCHANGED <<chat, interrupt, logits, pc, idlePc, idle, adopted, sure>>

\* context_idle_prefill_start, whose thread may not be created.
StartsIdle(wanted) == idlePc' \in {"off"} \cup (IF wanted THEN {"start"} ELSE {})

\* The terminal starts the idle prefill, the server clears the session.
WarmupEnds ==
    /\ pc = "warmup" /\ turn.off = Len(turn.toks)
    /\ turn' = NoTurn
    /\ IF Driver = "server"
       THEN /\ SessionCleared
            /\ IF poisoned THEN CacheCleared ELSE UNCHANGED <<cache, poisoned>>
            /\ UNCHANGED idlePc
       ELSE /\ StartsIdle(~poisoned)
            /\ UNCHANGED <<cache, chat, poisoned, interrupt>>
    /\ pc' = "input"
    /\ UNCHANGED <<logits, idle, adopted>>

-----------------------------------------------------------------------------
(* The terminal: run_interactive.                                          *)

TypeLine ==
    /\ Driver = "interactive" /\ pc = "input"
    /\ \/ \E text \in UserTexts : turn' = [kind |-> "chat", msg |-> Message("U", text)]
       \/ turn' = [kind |-> "reset"]
    /\ pc' = "join"
    /\ UNCHANGED <<cache, chat, poisoned, interrupt, logits, idlePc, idle, adopted>>

\* context_idle_prefill_wait; what was signalled until now is forgotten.
JoinIdle ==
    /\ pc = "join" /\ idlePc \in {"off", "done"}
    /\ idlePc' = "off" /\ idle' = NoIdle
    /\ interrupt' = FALSE
    /\ pc' = IF turn.kind = "reset" THEN "reset" ELSE "turn"
    /\ turn' = IF turn.kind = "reset" THEN NoTurn ELSE turn
    /\ UNCHANGED <<cache, chat, poisoned, logits, adopted>>

\* A turn that left the session inconsistent, or failed, resets it; after any
\* other the header of the next turn is prefilled.
AfterTurn ==
    /\ Driver = "interactive" /\ pc = "after"
    /\ interrupt' = FALSE
    /\ IF poisoned \/ turn.rc = Error
       THEN pc' = "reset" /\ UNCHANGED idlePc
       ELSE pc' = "input" /\ StartsIdle(Warmup)
    /\ turn' = NoTurn
    /\ UNCHANGED <<cache, chat, poisoned, logits, idle, adopted>>

-----------------------------------------------------------------------------
(* The server: run_generation of openai.c.                                 *)

\* A request starts: unless it continues the slot's session, that is cleared.
Prepared(same) ==
    IF same /\ ~poisoned
    THEN /\ interrupt' = FALSE
         /\ UNCHANGED <<cache, poisoned, msgs, lastRender, syncRender, syncTok>>
    ELSE /\ SessionCleared
         /\ IF poisoned \/ Hybrid THEN CacheCleared ELSE UNCHANGED <<cache, poisoned>>

\* Fault: one message of the request is skipped.
BehindByOne(ms, req) == ms \o SubSeq(req, Len(ms) + 2, Len(req) - 1)

\* Messages of the request past those the session has; the last one is the turn's.
Behind(ms, req) == ms \o SubSeq(req, Len(ms) + 1, Len(req) - 1)

Continues(req) == adopted # None /\ IsPrefix(adopted, req)

ChatRequests ==
    {<<Message("U", text)>> : text \in UserTexts}
        \cup {Append(adopted, Message("U", text)) : text \in UserTexts}
        \cup (IF adopted # None /\ Last(adopted).role = "U" THEN {adopted} ELSE {})

ChatRequest(req) ==
    /\ Driver = "server" /\ pc = "input"
    /\ LET same == Continues(req) IN
       IF same /\ ~poisoned
       THEN /\ interrupt' = FALSE
            /\ msgs' = Behind(msgs, req)
            /\ UNCHANGED <<cache, poisoned, lastRender, syncRender, syncTok>>
       ELSE /\ msgs' = Behind(<<>>, req)
            /\ lastRender' = <<>> /\ syncRender' = <<>> /\ syncTok' = 0 /\ interrupt' = FALSE
            /\ IF poisoned \/ Hybrid THEN CacheCleared ELSE UNCHANGED <<cache, poisoned>>
    /\ turn' = [kind |-> "chat", msg |-> Last(req), req |-> req]
    /\ pc' = "turn"
    /\ UNCHANGED <<logits, idlePc, idle, adopted>>

\* slot_pick_text takes a slot that has some tokens of the prompt for its session.
CompletionRequest(prompt) ==
    /\ Driver = "server" /\ Completions /\ pc = "input"
    /\ Prepared(CommonLen(Fed, <<Bos>> \o Encode(prompt)) > 0)
    /\ turn' = [kind |-> "completion", prompt |-> prompt]
    /\ pc' = "turn"
    /\ UNCHANGED <<logits, idlePc, idle, adopted>>

\* Texts somebody has completed: new ones, and the last one with its answer.
Prompts == UserTexts \cup {Tail(Spell(Fed)) : f \in {x \in {1} : fedN > 0 /\ fed[1] = Bos}}

\* chat_template_rewrite_last_assistant: a tool call leaves the text.
RewriteAssistant ==
    /\ Driver = "server" /\ pc = "after" /\ turn.kind = "chat"
    /\ msgs # <<>> /\ Last(msgs).role = "A" /\ Last(msgs).text # <<>>
    /\ msgs' = [msgs EXCEPT ![Len(msgs)].text = <<>>]
    /\ lastRender' = Render(msgs', FALSE)
    /\ syncRender' = <<>> /\ syncTok' = 0
    /\ UNCHANGED <<cache, poisoned, interrupt, logits, pc, turn, idlePc, idle, adopted>>

\* run_generation's end and slot_adopt_chat_chain.
RequestEnds ==
    /\ Driver = "server" /\ pc = "after"
    /\ interrupt' = FALSE
    /\ adopted' = IF turn.kind = "chat" THEN msgs ELSE adopted
    /\ turn' = NoTurn /\ pc' = "input"
    /\ UNCHANGED <<cache, chat, poisoned, logits, idlePc, idle>>

-----------------------------------------------------------------------------
(* A turn: context_chat_turn_msg, context_completion, run_generation.      *)

\* Fault: the cache is not cut.
RewoundFedOnly(ids) ==
    /\ fedN' = Min({Reuse(ids), FedSynced}) /\ fed' = SubSeq(fed, 1, fedN')
    /\ UNCHANGED <<nPos, rows, sure>>

\* Of what was written over, nothing is taken for the prompt.
ReusesSure(ids) ==
    CommonLen(SubSeq(fed, 1, FedSynced), ids) <= sure.tokens /\ syncTok <= sure.sync

\* context_rewind to the tokens kept, and the rest of the prompt to feed.
Rewound(ids) ==
    LET reuse == Min({Reuse(ids), FedSynced}) IN
    /\ nPos' = reuse /\ fedN' = reuse
    /\ rows' = SubSeq(rows, 1, reuse) /\ fed' = SubSeq(fed, 1, reuse)
    /\ sure' = IF ReusesSure(ids) THEN Whole ELSE Lost

Feeding(ids, kind, prev, req) ==
    /\ \E mode \in Modes :
           turn' = [kind |-> kind, toks |-> SubSeq(ids, Reuse(ids) + 1, Len(ids)), off |-> 0,
                    prev |-> prev, out |-> <<>>, cut |-> 0, left |-> MaxTokens, gen |-> 0,
                    mode |-> mode, hasFed |-> FALSE, unfed |-> FALSE, tok |-> None,
                    from |-> None, rc |-> Ok, req |-> req]
    /\ pc' = "prefill"

Refused(kind) ==
    /\ turn' = [kind |-> kind, rc |-> Error]
    /\ pc' = "after"
    /\ UNCHANGED <<cache, chat>>

Refuses(ids) == poisoned \/ Len(ids) > NCtx

\* A poisoned session refuses; a prompt that does not fit is rolled back.
BeginTurn ==
    /\ pc = "turn" /\ turn.kind = "chat"
    /\ \E ms \in {Append(msgs, turn.msg)} :
       \E render \in {Render(ms, TRUE)} :
       \E ids \in {TailEncode(render)} :
           IF Refuses(ids)
           THEN Refused("chat")
           ELSE /\ Rewound(ids)
                /\ msgs' = ms /\ lastRender' = render
                /\ syncRender' = render /\ syncTok' = Len(ids)
                /\ Feeding(ids, "chat", lastRender,
                           IF Driver = "server" THEN turn.req ELSE ms)
                /\ UNCHANGED rec
    /\ UNCHANGED <<poisoned, interrupt, logits, idlePc, idle, adopted>>

BeginCompletion ==
    /\ pc = "turn" /\ turn.kind = "completion"
    /\ \E ids \in {<<Bos>> \o Encode(turn.prompt)} :
           IF Len(ids) > NCtx
           THEN Refused("completion")
           ELSE /\ Rewound(ids)
                /\ Feeding(ids, "completion", <<>>, turn.prompt)
                /\ UNCHANGED <<chat, rec>>
    /\ UNCHANGED <<poisoned, interrupt, logits, idlePc, idle, adopted>>

\* Refuses has seen to it that all of it fits.
PrefillChunk ==
    /\ pc = "prefill"
    /\ FeedChunk(turn)
    /\ turn' = [turn EXCEPT !.off = @ + Len(NextChunk(turn))]
    /\ pc' = IF LastChunk(turn) THEN "sample" ELSE "prefill"
    /\ UNCHANGED <<chat, poisoned, interrupt, presampled, idlePc, idle, adopted>>

\* Everything was fed before: nothing is computed.
PrefillNothing ==
    /\ pc = "prefill" /\ turn.toks = <<>>
    /\ pc' = "sample"
    /\ UNCHANGED <<cache, chat, poisoned, interrupt, logits, turn, idlePc, idle, adopted>>

PrefillStops ==
    /\ pc = "prefill"
    /\ \/ FeedInterrupted(turn) /\ turn' = turn
       \/ FeedFails(turn) /\ turn' = [turn EXCEPT !.rc = Error]
    /\ Counted(turn, turn.off)
    /\ poisoned' = TRUE
    /\ pc' = "record"
    /\ UNCHANGED <<chat, interrupt, logits, idlePc, idle, adopted, sure>>

-----------------------------------------------------------------------------
(* context_decode_loop.                                                    *)

Going == pc = "sample" /\ ~interrupt /\ turn.left > 0

DecodeEnds ==
    /\ pc = "sample" /\ (interrupt \/ turn.left = 0)
    /\ pc' = "record"
    /\ UNCHANGED <<cache, chat, poisoned, interrupt, logits, turn, idlePc, idle, adopted>>

\* The token goes to on_token, and then to the cache; the end of generation
\* goes nowhere.
Emitted(u, t) == [u EXCEPT !.gen = @ + 1, !.left = @ - 1, !.out = @ \o t, !.cut = Len(u.out)]

Picked(u, t, from) ==
    /\ LET v == [u EXCEPT !.tok = t, !.from = from]
       IN  turn' = IF t = Eog THEN v ELSE Emitted(v, t)
    /\ pc' = IF t = Eog THEN "record" ELSE "feed"

\* context_sample_next; on a device, if one has the logits as well.
SampleNext ==
    /\ \/ Going /\ (turn.mode = "host" \/ Driver = "server")
       \/ pc = "resample"
    /\ \/ /\ presampled # None
          /\ Picked(turn, presampled[1], presampled[2])
          /\ presampled' = None
       \/ /\ presampled = None
          /\ \E t \in Pieces \cup {Eog},
                from \in {hostLogits} \cup (IF Driver = "server" THEN {} ELSE {devLogits}) :
                 Picked(turn, t, from)
          /\ UNCHANGED presampled
    /\ UNCHANGED <<cache, chat, poisoned, interrupt, hostLogits, devLogits, idlePc, idle, adopted>>

\* context_device_pick
PickOnDevice ==
    /\ Going /\ turn.mode = "device" /\ Driver # "server"
    /\ \E t \in Pieces \cup {Eog} : Picked(turn, t, devLogits)
    /\ UNCHANGED <<cache, chat, poisoned, interrupt, logits, idlePc, idle, adopted>>

PickFails ==
    /\ Going /\ turn.mode \in {"device", "pipelined"} /\ Driver # "server"
    /\ pc' = "redo"
    /\ UNCHANGED <<cache, chat, poisoned, interrupt, logits, turn, idlePc, idle, adopted>>

\* Fault: the logits on the host are taken as they are.
RedoNothing ==
    /\ pc = "redo"
    /\ turn' = [turn EXCEPT !.mode = "host"]
    /\ pc' = "resample"
    /\ UNCHANGED <<cache, chat, poisoned, interrupt, logits, idlePc, idle, adopted>>

\* The fallback to the host: the last token fed by this turn is fed again.
Redo ==
    /\ pc = "redo"
    /\ IF ~turn.hasFed
       THEN UNCHANGED <<rows, rec, hostLogits, devLogits>>
       ELSE /\ Computes(nPos - 1, <<fed[nPos]>>)
            /\ hostLogits' = Row(nPos - 1, <<fed[nPos]>>) /\ devLogits' = hostLogits'
    /\ turn' = [turn EXCEPT !.mode = "host"]
    /\ pc' = "resample"
    /\ UNCHANGED <<nPos, fed, fedN, chat, poisoned, interrupt, presampled, idlePc, idle, adopted,
                   sure>>

RedoFails ==
    /\ pc = "redo" /\ turn.hasFed
    /\ Tears(nPos - 1, <<fed[nPos]>>)
    /\ nPos' = nPos - 1 /\ fedN' = nPos - 1
    /\ poisoned' = TRUE
    /\ pc' = "record"
    /\ UNCHANGED <<fed, chat, interrupt, logits, turn, idlePc, idle, adopted, sure>>

\* context_feed_token_inner, directly or as a row of the server's batch.
FeedToken ==
    /\ pc = "feed" /\ Room
    /\ Computes(nPos, <<turn.tok>>)
    /\ nPos' = nPos + 1
    /\ fed' = WriteAt(SubSeq(fed, 1, FedSynced), FedSynced, <<turn.tok>>)
    /\ fedN' = FedSynced + 1
    /\ LET row == Row(nPos, <<turn.tok>>)
           sampled == Driver = "server" /\ turn.mode = "device" /\ BatchSamples
       IN  /\ hostLogits' = IF turn.mode = "host" \/ (Driver = "server" /\ ~sampled)
                            THEN row ELSE hostLogits
           /\ devLogits' = IF Driver = "server" THEN devLogits ELSE row
           /\ IF sampled THEN \E t \in Pieces \cup {Eog} : presampled' = <<t, row>>
                         ELSE UNCHANGED presampled
    /\ turn' = [turn EXCEPT !.hasFed = TRUE]
    /\ pc' = "sample"
    /\ UNCHANGED <<chat, poisoned, interrupt, idlePc, idle, adopted, sure>>

FeedLimit ==
    /\ pc = "feed" /\ ~Room
    /\ turn' = [turn EXCEPT !.unfed = TRUE]
    /\ pc' = "record"
    /\ UNCHANGED <<cache, chat, poisoned, interrupt, logits, idlePc, idle, adopted>>

FeedStops ==
    /\ pc = "feed" /\ Room /\ interrupt
    /\ \/ UNCHANGED <<rows, rec>>
       \/ Driver # "server" /\ Tears(nPos, <<turn.tok>>)
    /\ poisoned' = (poisoned \/ Hybrid)
    /\ turn' = [turn EXCEPT !.unfed = TRUE]
    /\ pc' = "record"
    /\ UNCHANGED <<nPos, fed, fedN, chat, interrupt, logits, idlePc, idle, adopted, sure>>

FeedDies ==
    /\ pc = "feed" /\ Room
    /\ Tears(nPos, <<turn.tok>>)
    /\ poisoned' = TRUE
    /\ turn' = [turn EXCEPT !.unfed = TRUE]
    /\ pc' = "record"
    /\ UNCHANGED <<nPos, fed, fedN, chat, interrupt, logits, idlePc, idle, adopted, sure>>

-----------------------------------------------------------------------------
(* The pipelined loop feeds a token on the device before the host has read  *)
(* it: context_device_pick_reg, context_feed_reg, read_token_reg.           *)

Piping == Going /\ turn.mode = "pipelined"

SpecFeed ==
    /\ Piping /\ Room
    /\ \E t \in Pieces \cup {Eog} :
           /\ turn' = [turn EXCEPT !.tok = t, !.from = devLogits]
           /\ Computes(nPos, <<t>>)
           /\ devLogits' = Row(nPos, <<t>>)
    /\ nPos' = nPos + 1
    /\ pc' = "spec"
    /\ UNCHANGED <<fed, fedN, chat, poisoned, interrupt, hostLogits, presampled, idlePc, idle, adopted,
                   sure>>

SpecRead ==
    /\ pc = "spec"
    /\ IF turn.tok = Eog
       THEN /\ nPos' = nPos - 1 /\ pc' = "record"
            /\ UNCHANGED <<fed, fedN, turn>>
       ELSE /\ fed' = WriteAt(SubSeq(fed, 1, fedN), fedN, <<turn.tok>>) /\ fedN' = fedN + 1
            /\ turn' = [Emitted(turn, turn.tok) EXCEPT !.hasFed = TRUE]
            /\ pc' = "sample" /\ UNCHANGED nPos
    /\ UNCHANGED <<rows, rec, chat, poisoned, interrupt, logits, idlePc, idle, adopted, sure>>

SpecReadFails ==
    /\ pc = "spec"
    /\ ReadFails = "ever" \/ (ReadFails = "later" /\ turn.hasFed)
    /\ nPos' = nPos - 1
    /\ turn' = [turn EXCEPT !.tok = None, !.from = None]
    /\ pc' = "redo"
    /\ UNCHANGED <<rows, rec, fed, fedN, chat, poisoned, interrupt, logits, idlePc, idle, adopted,
                   sure>>

\* The token could not be fed ahead: the cache is full, the pass was
\* interrupted, or failed.
SpecBlocked ==
    /\ Piping
    /\ \E t \in Pieces \cup {Eog} :
       /\ \/ ~Room /\ UNCHANGED <<rows, rec, poisoned, interrupt>>
          \/ /\ Room /\ Tears(nPos, <<t>>)
             /\ \/ interrupt' = TRUE /\ UNCHANGED poisoned
                \/ UNCHANGED interrupt /\ poisoned' = (t # Eog)
       /\ IF t = Eog
           THEN turn' = [turn EXCEPT !.tok = t, !.from = devLogits]
           ELSE turn' = [Emitted(turn, t) EXCEPT !.unfed = TRUE]
    /\ pc' = "record"
    /\ UNCHANGED <<nPos, fed, fedN, chat, logits, idlePc, idle, adopted, sure>>

\* The backend cannot feed from a register after all.
SpecUnsupported ==
    /\ Piping /\ Room
    /\ \E t \in Pieces \cup {Eog} :
           Picked([turn EXCEPT !.mode = "device"], t, devLogits)
    /\ UNCHANGED <<cache, chat, poisoned, interrupt, logits, idlePc, idle, adopted>>

-----------------------------------------------------------------------------
\* The end of a turn: what is recorded of it.  A token that was not fed is not
\* part of the answer; a turn that failed without harm puts the render back.
RecordTurn ==
    /\ pc = "record"
    /\ LET text == IF turn.unfed /\ Len(turn.out) > turn.cut
                   THEN SubSeq(turn.out, 1, turn.cut) ELSE turn.out
           ms == Append(msgs, Message("A", Shown(text)))
       IN  IF turn.kind = "completion"
           THEN UNCHANGED <<msgs, lastRender>>
           ELSE IF turn.rc = Error /\ ~poisoned
           THEN lastRender' = turn.prev /\ UNCHANGED msgs
           ELSE IF turn.gen > 0
           THEN msgs' = ms /\ lastRender' = Render(ms, FALSE)
           ELSE UNCHANGED <<msgs, lastRender>>
    /\ Trimmed(nPos)
    /\ turn' = [kind |-> turn.kind, rc |-> turn.rc]
    /\ pc' = "after"
    /\ UNCHANGED <<nPos, rec, fed, fedN, syncRender, syncTok, poisoned, interrupt, logits,
                   idlePc, idle, adopted, sure>>

-----------------------------------------------------------------------------
(* idle_prefill_thread.                                                    *)

\* What the next turn is certain to begin with: all that two different
\* messages have in common.
Header == Append(Render(msgs, FALSE), "U")

\* The ids it has, and how many of them were fed already.
Fits(ids, kept) == Len(ids) <= NCtx /\ kept < Len(ids)
Kept(ids) == CommonLen(SubSeq(fed, 1, FedSynced), ids)

\* Fault: a prefill that has nothing to do does not end.
IdleWaits ==
    /\ idlePc = "start"
    /\ \E ids \in {Encode(header) : header \in {Header}} : interrupt \/ ~Fits(ids, Kept(ids))
    /\ UNCHANGED vars

IdleGivesUp ==
    /\ idlePc = "start"
    /\ \E ids \in {Encode(header) : header \in {Header}} : interrupt \/ ~Fits(ids, Kept(ids))
    /\ idlePc' = "done"
    /\ UNCHANGED <<cache, chat, poisoned, interrupt, logits, pc, turn, idle, adopted>>

\* The lengths and the sync point are saved; rows and tokens past the header's
\* reused part stay where they are.
IdleBegins ==
    /\ idlePc = "start" /\ ~interrupt
    /\ \E ids \in {Encode(header) : header \in {Header}} : \E kept \in {Kept(ids)} :
        /\ Fits(ids, kept)
        /\ idle' = [toks |-> SubSeq(ids, kept + 1, Len(ids)), off |-> 0,
                    header |-> Header, nPos |-> nPos, fedN |-> FedSynced,
                    render |-> syncRender, tok |-> syncTok]
        /\ IF kept < FedSynced /\ ~Hybrid
           THEN nPos' = Min({kept, nPos}) /\ fedN' = nPos'
           ELSE fedN' = FedSynced /\ UNCHANGED nPos
    /\ syncRender' = <<>> /\ syncTok' = 0
    /\ idlePc' = "feed"
    /\ UNCHANGED <<rows, rec, fed, msgs, lastRender, poisoned, interrupt, logits, pc, turn, adopted,
                   sure>>

IdleFits == nPos + Len(idle.toks) <= NCtx

IdleChunk ==
    /\ idlePc = "feed" /\ IdleFits
    /\ FeedChunk(idle)
    /\ idle' = [idle EXCEPT !.off = @ + Len(NextChunk(idle))]
    /\ IF LastChunk(idle)
       THEN /\ syncRender' = idle.header
            /\ syncTok' = Len(Encode(idle.header))
            /\ idlePc' = "done"
       ELSE UNCHANGED <<syncRender, syncTok, idlePc>>
    /\ UNCHANGED <<msgs, lastRender, poisoned, interrupt, presampled, pc, turn, adopted>>

\* Fault: the cache's length is not put back.
RestoredFedOnly(n) ==
    /\ fedN' = idle.fedN /\ UNCHANGED nPos
    /\ fed' = WriteAt(fed, FedSynced, SubSeq(idle.toks, 1, n))
    /\ syncRender' = idle.render /\ syncTok' = idle.tok
    /\ idlePc' = "done"

\* The prefill did not finish: lengths and sync point are put back over what
\* was written meanwhile.
Restored(n) ==
    /\ nPos' = idle.nPos /\ fedN' = idle.fedN
    /\ fed' = WriteAt(fed, FedSynced, SubSeq(idle.toks, 1, n))
    /\ syncRender' = idle.render /\ syncTok' = idle.tok
    /\ idlePc' = "done"

\* The lengths that are put back cover what an interrupted prefill wrote or left
\* half-written.  (The logits are those of the last token it wrote over.)
WroteOver ==
    sure' = IF \/ idle.nPos <= nPos /\ ~Hybrid
               \/ idle.off = 0 /\ UNCHANGED <<rows, rec>>
            THEN sure
            ELSE IF Hybrid \/ sure # Whole
            THEN Lost
            ELSE [tokens |-> Min({nPos + idle.off, idle.nPos - 1}), sync |-> nPos]

IdleStops ==
    /\ idlePc = "feed"
    /\ \/ ~IdleFits /\ Restored(0) /\ UNCHANGED <<rows, rec, poisoned, sure>>
       \/ IdleFits /\ FeedInterrupted(idle) /\ Restored(idle.off) /\ WroteOver
             /\ UNCHANGED poisoned
       \/ IdleFits /\ FeedFails(idle) /\ Restored(idle.off) /\ poisoned' = TRUE
             /\ UNCHANGED sure
    /\ UNCHANGED <<msgs, lastRender, interrupt, logits, pc, turn, idle, adopted>>

-----------------------------------------------------------------------------
MainStep ==
    \/ Reset \/ WarmupChunk \/ WarmupFails \/ WarmupEnds
    \/ JoinIdle \/ AfterTurn \/ RewriteAssistant \/ RequestEnds
    \/ BeginTurn \/ BeginCompletion
    \/ PrefillChunk \/ PrefillNothing \/ PrefillStops
    \/ DecodeEnds \/ SampleNext \/ PickOnDevice \/ PickFails \/ Redo \/ RedoFails
    \/ FeedToken \/ FeedLimit \/ FeedStops \/ FeedDies
    \/ SpecFeed \/ SpecRead \/ SpecReadFails \/ SpecBlocked \/ SpecUnsupported
    \/ RecordTurn

IdleStep == IdleGivesUp \/ IdleBegins \/ IdleChunk \/ IdleStops

Asked ==
    \/ TypeLine
    \/ \E req \in ChatRequests : ChatRequest(req)
    \/ \E prompt \in Prompts : CompletionRequest(prompt)

Next == MainStep \/ IdleStep \/ Asked \/ Signal

Spec == Init /\ [][Next]_vars

\* Both threads run; nobody has to type, to ask or to interrupt.
Fairness == WF_vars(MainStep) /\ WF_vars(IdleStep)

FairSpec == Spec /\ Fairness

-----------------------------------------------------------------------------
(* Properties.                                                             *)

TypeOK ==
    /\ nPos \in 0..NCtx /\ fedN \in 0..NCtx /\ Len(fed) <= NCtx /\ Len(rows) <= NCtx
    /\ fedN <= Len(fed) /\ nPos <= Len(rows)
    /\ syncTok \in 0..NCtx
    /\ poisoned \in BOOLEAN /\ interrupt \in BOOLEAN
    /\ pc \in {"reset", "warmup", "input", "join", "turn", "prefill", "sample", "redo",
               "resample", "feed", "spec", "record", "after"}
    /\ idlePc \in {"off", "start", "feed", "done"}
    /\ sure.sync \in 0..NCtx /\ sure.tokens \in sure.sync..NCtx

\* While a turn generates, the cache holds exactly the tokens the session
\* believes it has fed: each row was computed from the tokens before it, and
\* the recurrent layers have absorbed them once.  (context_reuse_prefix,
\* context_rewind, the interrupted and failed prefills, the idle prefill.)
\* Nothing is promised of a turn that goes on from rows an interrupted idle
\* prefill wrote over, which context.c:1784 counts again.
CacheHoldsFed ==
    sure = Whole /\ pc \in {"sample", "resample", "feed"} =>
        /\ nPos = fedN
        /\ \A i \in 1..nPos : rows[i] = SubSeq(fed, 1, i)
        /\ Hybrid => rec = Fed

\* A chat turn starts to generate after exactly the text the template
\* rendered, however its tokens were cut.  (tail_encode_ids, the sync point;
\* the sync point that context.c:1786 restores may count other tokens, and
\* nothing is promised of a turn that relies on one that does.)
PromptSpelled ==
    sure = Whole /\ pc = "sample" /\ turn.kind = "chat" /\ turn.gen = 0 =>
        Spell(Fed) = lastRender

\* Every token is chosen by logits computed from exactly the tokens fed.
\* (context_sample_next, device picks, fallbacks; again not in a turn that goes
\* on from rows that were written over.  It fails where the first token of a
\* turn cannot be read, ReadFails = "ever", and where rows of a decode batch are
\* sampled ahead, BatchSamples: both settings are outside the runs.)
LogitsFresh ==
    sure = Whole =>
        /\ pc \in {"feed", "spec"} => turn.from = Fed
        /\ pc = "record" /\ turn.kind \in {"chat", "completion"} /\ turn.rc = Ok
               /\ "tok" \in DOMAIN turn /\ turn.tok = Eog => turn.from = Fed

\* Between turns the lengths agree: a token is counted in the cache and in
\* fed_ids, or in neither.  (decode loop, host redo, speculative feeds.)
LengthsAgree == pc = "input" /\ idlePc \in {"off", "done"} /\ ~poisoned => nPos = fedN

\* A server's turn is about the messages of its request, no fewer, no more;
\* only a request repeated after it got no answer says its last message twice.
AnswersTheRequest ==
    Driver = "server" /\ pc = "sample" /\ turn.kind = "chat" =>
        \/ msgs = turn.req
        \/ turn.req = adopted /\ msgs = Append(adopted, Last(adopted))

\* The prompt comes back after every line: the idle prefill that the turn
\* waits for ends, and so does the turn.
LinesEnd == pc = "join" ~> pc = "input"
====
