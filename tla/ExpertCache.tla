---------------------------- MODULE ExpertCache ----------------------------
(***************************************************************************)
(* The cache of one layer's expert weights (moe_stream.c) and the batch    *)
(* that uses it (ops_moe.c).  The router asks for the experts of a batch:  *)
(* those in the cache are held, the others get a slot, are read without    *)
(* the layer's mutex and are committed one after the other.  A batch may   *)
(* name more experts than there are slots: its later misses then take the  *)
(* slots of its earlier ones, which end as private copies.  Between        *)
(* batches, experts move to and from a device (the tier), or out.          *)
(*                                                                         *)
(* One thread at a time computes with a model, so that one batch uses a    *)
(* layer's cache at a time; the functions that take several (the           *)
(* moe_stream_op family, moe_exec_dispatch) have no caller.  Which slot is *)
(* evicted depends on how often and how long ago it was used: any that is  *)
(* not in use, here.  Which expert moves depends on its score: any.        *)
(* Experts pinned at start-up are left out.                                *)
(***************************************************************************)
EXTENDS Integers, Sequences, FiniteSets

CONSTANTS
    Experts,
    None,       \* an expert id of -1
    NSlots,     \* lru_cap
    NTier,      \* tier_cap
    NBufs,      \* bound: buffers in memory
    MaxFails    \* bound: batches that fail

Free == "free"
Junk == "junk"

ASSUME ExpertAssumption ==
    /\ IsFiniteSet(Experts) /\ {None, Free, Junk} \cap Experts = {}
    /\ {NSlots, NTier, NBufs, MaxFails} \subseteq Nat

VARIABLES
    slots,    \* lru_slots
    gen,      \* how often each was given away since the batch began
    nLru,     \* how many of them were ever used
    lruOf,    \* eid_to_lru, 0 for -1
    tier,     \* tier_slots
    tierOf,   \* eid_to_tier, 0 for -1
    bufs,     \* memory: what a buffer holds
    pc,       \* where the batch is
    batch,    \* moe_union_ids: the experts it asks for
    need,     \* need_fetch
    misses,   \* those that are not yet committed
    held,     \* moe_union_slots, by expert
    failed,   \* rc
    lost      \* what batches that failed held and nobody gives back

lruVars == <<slots, nLru, lruOf>>
tierVars == <<tier, tierOf>>
batchVars == <<gen, batch, need, misses, held, failed>>
vars == <<lruVars, tierVars, bufs, pc, batchVars, lost>>

Slots == 1 .. NSlots
Tier == 1 .. NTier
Bufs == 1 .. NBufs

\* posix_memalign, unless there is a buffer to use again, and free; 0 is no buffer.
Buffer(old) ==
    IF old # 0 THEN {old}
    ELSE {b \in Bufs : bufs[b] = Free /\ \A c \in Bufs : bufs[c] = Free => b <= c}

Freed(B) == [b \in Bufs |-> IF b \in B THEN Free ELSE bufs[b]]

-----------------------------------------------------------------------------
Init ==
    /\ slots = [i \in Slots |-> [eid |-> None, ready |-> TRUE, inuse |-> 0, buf |-> 0]]
    /\ nLru = 0 /\ lruOf = [e \in Experts |-> 0]
    /\ tier = [t \in Tier |-> [eid |-> None, inuse |-> 0]] /\ tierOf = [e \in Experts |-> 0]
    /\ bufs = [b \in Bufs |-> Free]
    /\ pc = "idle"
    /\ gen = [i \in Slots |-> 0] /\ batch = {} /\ need = {} /\ misses = <<>> /\ held = <<>> /\ failed = FALSE
    /\ lost = [slots |-> [i \in Slots |-> 0], tier |-> [t \in Tier |-> 0], bufs |-> {}, fails |-> 0]

\* layer_find, live_slot_find: the device comes first.
InTier(e) == tierOf[e] # 0 /\ tier[tierOf[e]].eid = e
InLru(e) == lruOf[e] \in 1 .. nLru /\ slots[lruOf[e]].eid = e

-----------------------------------------------------------------------------
(* Slots given away: layer_insert_lru, lru_slot_clear.                     *)

\* Fault: a slot in use may be evicted.
VictimsInUse == IF nLru < NSlots THEN {nLru + 1} ELSE 1 .. nLru

\* The slots an expert may get: a new one, or any that is not in use.
Victims == IF nLru < NSlots THEN {nLru + 1} ELSE {i \in 1 .. nLru : slots[i].inuse = 0}

\* eid_to_lru without the expert of a slot
Unmapped(i) == [e \in Experts |-> IF e = slots[i].eid /\ lruOf[e] = i THEN 0 ELSE lruOf[e]]

\* Its buffer goes to the caller.
Given(i, e, ready, buf) ==
    /\ slots' = [slots EXCEPT ![i] = [@ EXCEPT !.eid = e, !.ready = ready, !.buf = buf]]
    /\ lruOf' = [x \in Experts |-> IF x = e THEN i ELSE Unmapped(i)[x]]
    /\ nLru' = IF i > nLru THEN i ELSE nLru

-----------------------------------------------------------------------------
(* tier_sweep, before a batch: experts move to a device, back, or out.     *)

Movable(s) == s.eid # None /\ s.inuse = 0

Sweeps == pc = "idle" /\ NTier > 0

TierEvict ==
    /\ Sweeps
    /\ \E i \in 1 .. nLru :
        /\ Movable(slots[i]) /\ slots[i].ready
        /\ bufs' = Freed({slots[i].buf})
        /\ Given(i, None, TRUE, 0)
    /\ UNCHANGED <<tierVars, pc, batchVars, lost>>

\* tier_promote to a free place of the device
TierPromote ==
    /\ Sweeps
    /\ \E i \in 1 .. nLru, t \in Tier :
        /\ tier[t].eid = None /\ \A u \in 1 .. t - 1 : tier[u].eid # None
        /\ Movable(slots[i]) /\ slots[i].ready
        /\ bufs' = Freed({slots[i].buf})
        /\ Given(i, None, TRUE, 0)
        /\ tier' = [tier EXCEPT ![t].eid = slots[i].eid]
        /\ tierOf' = [tierOf EXCEPT ![slots[i].eid] = t]
    /\ UNCHANGED <<pc, batchVars, lost>>

\* ... or in exchange with an expert that is there, which is read into the
\* other's buffer; if it cannot be read, it stays and the other is lost.
TierSwap ==
    /\ Sweeps /\ \A t \in Tier : tier[t].eid # None
    /\ \E i \in 1 .. nLru, t \in Tier :
        /\ Movable(slots[i]) /\ slots[i].ready /\ Movable(tier[t])
        /\ \/ /\ bufs' = [bufs EXCEPT ![slots[i].buf] = tier[t].eid]
              /\ Given(i, tier[t].eid, TRUE, slots[i].buf)
              /\ tier' = [tier EXCEPT ![t].eid = slots[i].eid]
              /\ tierOf' = [tierOf EXCEPT ![tier[t].eid] = 0, ![slots[i].eid] = t]
           \/ /\ bufs' = Freed({slots[i].buf})
              /\ Given(i, None, TRUE, 0)
              /\ UNCHANGED tierVars
    /\ UNCHANGED <<pc, batchVars, lost>>

\* tier_demote: an expert of the device is read into a slot.
TierDemote ==
    /\ Sweeps
    /\ \E t \in Tier : Movable(tier[t]) /\ \E i \in Victims :
        \/ \E b \in Buffer(slots[i].buf) :
              /\ bufs' = [bufs EXCEPT ![b] = tier[t].eid]
              /\ Given(i, tier[t].eid, TRUE, b)
              /\ tier' = [tier EXCEPT ![t].eid = None]
              /\ tierOf' = [tierOf EXCEPT ![tier[t].eid] = 0]
        \/ /\ bufs' = Freed({slots[i].buf})
           /\ Given(i, None, TRUE, 0)
           /\ UNCHANGED tierVars
    /\ UNCHANGED <<pc, batchVars, lost>>

-----------------------------------------------------------------------------
(* moe_stream_resolve.                                                     *)

\* What the batch holds of an expert: slot_take_ready.
Hit(e) ==
    IF InTier(e) THEN [tier |-> tierOf[e], slot |-> 0, buf |-> 0, owned |-> FALSE]
    ELSE [tier |-> 0, slot |-> lruOf[e], buf |-> slots[lruOf[e]].buf, owned |-> FALSE]

\* How many of the held experts are those of a slot, of a place of the device.
Uses(h, i) == Cardinality({e \in DOMAIN h : h[e].slot = i /\ ~h[e].owned})
TierUses(h, t) == Cardinality({e \in DOMAIN h : h[e].tier = t})

\* resolve_scan_hits.  No slot is ever found that is not ready (Settled), so
\* that a batch never waits for one.
Scan ==
    /\ pc = "idle"
    /\ \E ids \in SUBSET Experts \ {{}} :
       \E hits \in {{e \in ids : InTier(e) \/ (InLru(e) /\ slots[lruOf[e]].ready)}} :
        /\ held' = [e \in hits |-> Hit(e)]
        /\ batch' = ids /\ need' = ids \ hits
        /\ slots' = [i \in Slots |-> [slots[i] EXCEPT !.inuse = @ + Uses(held', i)]]
        /\ tier' = [t \in Tier |-> [tier[t] EXCEPT !.inuse = @ + TierUses(held', t)]]
        /\ pc' = IF ids = hits THEN "held" ELSE "collect"
    /\ UNCHANGED <<nLru, lruOf, tierOf, bufs, gen, misses, failed, lost>>

\* resolve_collect_misses: each gets a slot, and the buffer of the expert that
\* had it, or, when all are in use, none.
Miss(e, i, g, reuse) ==
    [eid |-> e, slot |-> i, gen |-> g, reuse |-> reuse, buf |-> 0, st |-> "todo"]

Collect ==
    /\ pc = "collect"
    /\ \E e \in need :
        /\ ~InTier(e) /\ ~InLru(e)
        /\ \/ \E i \in Victims :
              /\ gen' = IF i <= nLru THEN [gen EXCEPT ![i] = @ + 1] ELSE gen
              /\ misses' = Append(misses, Miss(e, i, gen'[i], slots[i].buf))
              /\ Given(i, e, FALSE, 0)
           \/ /\ Victims = {}
              /\ misses' = Append(misses, Miss(e, 0, 0, 0))
              /\ UNCHANGED <<lruVars, gen>>
        /\ need' = need \ {e}
        /\ pc' = IF need = {e} THEN "fetch" ELSE "collect"
    /\ UNCHANGED <<tierVars, bufs, batch, held, failed, lost>>

\* The workers: a buffer, the one handed on if there is one, and the expert's
\* bytes in it.  A failed read leaves its buffer to the commit (on the pool) or
\* frees it; without memory there is none.
Fetch ==
    /\ pc = "fetch"
    /\ \E n \in DOMAIN misses : misses[n].st = "todo" /\
       \E b \in Buffer(misses[n].reuse) :
        \/ /\ bufs' = [bufs EXCEPT ![b] = misses[n].eid]
           /\ misses' = [misses EXCEPT ![n].buf = b, ![n].st = "ok"]
        \/ /\ lost.fails < MaxFails
           /\ bufs' = [bufs EXCEPT ![b] = Junk]
           /\ misses' = [misses EXCEPT ![n].buf = b, ![n].st = "failed"]
        \/ /\ lost.fails < MaxFails
           /\ bufs' = Freed({b})
           /\ misses' = [misses EXCEPT ![n].st = "failed"]
    /\ UNCHANGED <<lruVars, tierVars, pc, gen, batch, need, held, failed, lost>>

Fetched ==
    /\ pc = "fetch" /\ \A n \in DOMAIN misses : misses[n].st # "todo"
    /\ pc' = "commit"
    /\ UNCHANGED <<lruVars, tierVars, bufs, batchVars, lost>>

\* Nobody was given the slot meanwhile.
StillMine(m) == m.slot # 0 /\ gen[m.slot] = m.gen

CopyHeld(m, slot, owned) ==
    held' = [e \in DOMAIN held \cup {m.eid} |->
        IF e = m.eid THEN [tier |-> 0, slot |-> slot, buf |-> m.buf, owned |-> owned] ELSE held[e]]

\* Fault: the slot that was filled does not count as used.
CommitReadUnused(m) ==
    /\ m.st = "ok"
    /\ IF StillMine(m) /\ slots[m.slot].inuse = 0
       THEN /\ slots' = [slots EXCEPT ![m.slot] = [eid |-> m.eid, ready |-> TRUE, inuse |-> 0, buf |-> m.buf]]
            /\ bufs' = Freed({slots[m.slot].buf})
            /\ CopyHeld(m, m.slot, FALSE)
       ELSE /\ CopyHeld(m, 0, TRUE)
            /\ UNCHANGED <<slots, bufs>>
    /\ UNCHANGED <<lruOf, failed>>

\* miss_commit: into the slot, or as a private copy.
CommitRead(m) ==
    /\ m.st = "ok"
    /\ IF StillMine(m) /\ slots[m.slot].inuse = 0
       THEN /\ slots' = [slots EXCEPT ![m.slot] = [eid |-> m.eid, ready |-> TRUE, inuse |-> 1, buf |-> m.buf]]
            /\ bufs' = Freed({slots[m.slot].buf})
            /\ CopyHeld(m, m.slot, FALSE)
       ELSE /\ CopyHeld(m, 0, TRUE)
            /\ UNCHANGED <<slots, bufs>>
    /\ UNCHANGED <<lruOf, failed>>

\* Fault: the buffer of a failed read is kept.
CommitFailedKeepsBuffer(m) ==
    /\ m.st = "failed"
    /\ IF StillMine(m) /\ slots[m.slot].inuse = 0
       THEN /\ slots' = [slots EXCEPT ![m.slot] = [eid |-> None, ready |-> TRUE, inuse |-> 0, buf |-> 0]]
            /\ lruOf' = Unmapped(m.slot)
       ELSE UNCHANGED <<slots, lruOf>>
    /\ failed' = TRUE
    /\ UNCHANGED <<bufs, held>>

\* Fault: the slot of a failed read is left as it is.
CommitFailedLeavesSlot(m) ==
    /\ m.st = "failed"
    /\ bufs' = Freed({m.buf})
    /\ failed' = TRUE
    /\ UNCHANGED <<slots, lruOf, held>>

CommitFailed(m) ==
    /\ m.st = "failed"
    /\ IF StillMine(m)
       THEN IF slots[m.slot].inuse = 0
            THEN /\ slots' = [slots EXCEPT ![m.slot] = [eid |-> None, ready |-> TRUE, inuse |-> 0, buf |-> 0]]
                 /\ lruOf' = Unmapped(m.slot)
                 /\ bufs' = Freed({m.buf, slots[m.slot].buf})
            ELSE /\ slots' = [slots EXCEPT ![m.slot].ready = TRUE]
                 /\ bufs' = Freed({m.buf})
                 /\ UNCHANGED lruOf
       ELSE bufs' = Freed({m.buf}) /\ UNCHANGED <<slots, lruOf>>
    /\ failed' = TRUE
    /\ UNCHANGED held

Commit ==
    /\ pc = "commit" /\ misses # <<>>
    /\ \E m \in {Head(misses)} : CommitRead(m) \/ CommitFailed(m)
    /\ misses' = Tail(misses)
    /\ UNCHANGED <<nLru, tierVars, pc, gen, batch, need, lost>>

\* The router goes on to the experts' operator, or fails.
Resolved ==
    /\ pc = "commit" /\ misses = <<>> /\ ~failed
    /\ pc' = "held"
    /\ gen' = [i \in Slots |-> 0]
    /\ UNCHANGED <<lruVars, tierVars, bufs, batch, need, misses, held, failed, lost>>

-----------------------------------------------------------------------------
(* moe_experts_batch.                                                      *)

\* Nothing is given back by a batch that fails: not when an expert could not be
\* read, nor when the device fails before moe_release_batch_slots.
Fails ==
    /\ \/ pc = "commit" /\ misses = <<>> /\ failed
       \/ pc = "held" /\ lost.fails < MaxFails
    /\ lost' = [slots |-> [i \in Slots |-> lost.slots[i] + Uses(held, i)],
                tier |-> [t \in Tier |-> lost.tier[t] + TierUses(held, t)],
                bufs |-> lost.bufs \cup {held[e].buf : e \in {x \in DOMAIN held : held[x].owned}},
                fails |-> lost.fails + 1]
    /\ batch' = {} /\ held' = <<>> /\ failed' = FALSE /\ gen' = [i \in Slots |-> 0]
    /\ pc' = "idle"
    /\ UNCHANGED <<lruVars, tierVars, bufs, need, misses>>

\* moe_release_batch_slots: private copies are freed, and the others' slots
\* found again by their expert.
Decremented(n) == IF n > 0 THEN n - 1 ELSE 0

GivenBack == {e \in DOMAIN held : ~held[e].owned}

Release ==
    /\ pc = "held"
    /\ bufs' = Freed({held[e].buf : e \in {x \in DOMAIN held : held[x].owned}})
    /\ slots' = [i \in Slots |->
          IF \E e \in GivenBack : ~InTier(e) /\ InLru(e) /\ lruOf[e] = i
          THEN [slots[i] EXCEPT !.inuse = Decremented(@)] ELSE slots[i]]
    /\ tier' = [t \in Tier |->
          IF \E e \in GivenBack : InTier(e) /\ tierOf[e] = t
          THEN [tier[t] EXCEPT !.inuse = Decremented(@)] ELSE tier[t]]
    /\ batch' = {} /\ held' = <<>> /\ pc' = "idle"
    /\ UNCHANGED <<nLru, lruOf, tierOf, gen, need, misses, failed, lost>>

Next ==
    \/ TierEvict \/ TierPromote \/ TierSwap \/ TierDemote
    \/ Scan \/ Collect \/ Fetch \/ Fetched \/ Commit \/ Resolved
    \/ Fails \/ Release

Spec == Init /\ [][Next]_vars

-----------------------------------------------------------------------------
(* Properties.                                                             *)

\* A batch computes with all experts it asked for, and what it holds of each is
\* that expert's weights until it gives them back: nobody reads another expert
\* into the buffer, frees it, or moves the expert away, whatever is evicted.
\* (inuse, gen, private copies: layer_insert_lru, miss_commit, tier_movable.)
HeldIntact ==
    /\ pc = "held" => DOMAIN held = batch
    /\ \A e \in DOMAIN held :
           IF held[e].tier # 0 THEN tier[held[e].tier].eid = e
           ELSE /\ bufs[held[e].buf] = e
                /\ ~held[e].owned => /\ slots[held[e].slot].eid = e
                                     /\ slots[held[e].slot].buf = held[e].buf

\* Every buffer in memory has one owner: a slot, a read under way, a private
\* copy of the batch, or a batch that failed: its copies are never given back
\* (ops_moe.c:554), so this is not freedom from leaks.
\* (The buffers that victims hand on, and the error paths of a read.)
ReadOf(m) == IF m.st = "todo" THEN m.reuse ELSE m.buf

Owners(b) ==
    {<<"slot", i>> : i \in {j \in Slots : slots[j].buf = b}}
        \cup {<<"read", n>> : n \in {k \in DOMAIN misses : ReadOf(misses[k]) = b}}
        \cup {<<"copy", e>> : e \in {x \in DOMAIN held : held[x].owned /\ held[x].buf = b}}
        \cup {<<"lost", c>> : c \in lost.bufs \cap {b}}

BuffersOwned ==
    \A b \in Bufs : IF bufs[b] = Free THEN Owners(b) = {} ELSE Cardinality(Owners(b)) = 1

\* A slot counts as used by as many as hold it: those of the batch, found again
\* by their expert's id when they are given back, and those of batches that
\* failed.  (live_slot_find, live_slot_unuse.)
InuseCounts ==
    /\ \A i \in Slots : slots[i].inuse = Uses(held, i) + lost.slots[i]
    /\ \A t \in Tier : tier[t].inuse = TierUses(held, t) + lost.tier[t]

\* Between batches every slot is ready, so that the next batch waits for none,
\* has the weights of its expert, and an expert is found in one place at most:
\* what a failed read, a failed move or an eviction leaves behind.
Settled ==
    pc = "idle" =>
        /\ \A i \in Slots : slots[i].ready
        /\ \A i \in Slots : slots[i].eid # None =>
               bufs[slots[i].buf] = slots[i].eid /\ lruOf[slots[i].eid] = i
        /\ \A t \in Tier : tier[t].eid # None => tierOf[tier[t].eid] = t
        /\ \A e \in Experts : ~(InTier(e) /\ InLru(e))
=============================================================================
