-------------------------- MODULE ExpertCacheProofs --------------------------
(***************************************************************************)
(* Proofs about ExpertCache, for any experts, slots, places on the device  *)
(* and buffers: a batch computes with the experts it asked for.            *)
(*                                                                         *)
(* HeldIntact is not inductive: that nobody writes into what a batch holds *)
(* rests on who owns each buffer (Distinct: a slot, a read under way, a    *)
(* private copy or a batch that failed, never two of them), on a free      *)
(* buffer having no owner (NotFree), and on a slot that a batch holds      *)
(* counting as used, so that it is neither given away nor committed to     *)
(* (HeldOk).                                                               *)
(*                                                                         *)
(* That the counts are exact, and that a batch leaves the cache in order,  *)
(* rests on the tables of ids (Mapped: an expert is in one place, and the  *)
(* tables say where), on what the misses reserve (Reserved: a slot that is *)
(* not ready waits for a miss whose generation it still has), and on a     *)
(* batch holding each slot once (Counted).  CInv has all of it.            *)
(***************************************************************************)
EXTENDS ExpertCache, FiniteSetTheorems, SequenceTheorems, TLAPS

Slot == [eid : Experts \cup {None}, ready : BOOLEAN, inuse : Nat, buf : 0 .. NBufs]
Place == [eid : Experts \cup {None}, inuse : Nat]
Missed == [eid : Experts, slot : 0 .. NSlots, gen : Nat, reuse : 0 .. NBufs,
           buf : 0 .. NBufs, st : {"todo", "ok", "failed"}]
Copy == [tier : 0 .. NTier, slot : 0 .. NSlots, buf : 0 .. NBufs, owned : BOOLEAN]

TypeOK ==
    /\ slots \in [Slots -> Slot] /\ nLru \in 0 .. NSlots /\ lruOf \in [Experts -> 0 .. NSlots]
    /\ tier \in [Tier -> Place] /\ tierOf \in [Experts -> 0 .. NTier]
    /\ bufs \in [Bufs -> Experts \cup {Free, Junk}]
    /\ pc \in {"idle", "collect", "fetch", "commit", "held"}
    /\ gen \in [Slots -> Nat] /\ batch \subseteq Experts /\ need \subseteq Experts
    /\ misses \in Seq(Missed)
    /\ DOMAIN held \subseteq Experts /\ held \in [DOMAIN held -> Copy]
    /\ failed \in BOOLEAN
    /\ lost.bufs \subseteq Bufs

\* A slot that is ready has its expert's weights; one that is not, or was never
\* given away, is not used.
SlotsOk ==
    \A i \in Slots :
        /\ slots[i].ready /\ slots[i].eid # None =>
               slots[i].buf # 0 /\ bufs[slots[i].buf] = slots[i].eid
        /\ ~slots[i].ready => slots[i].inuse = 0
        /\ i > nLru => slots[i].inuse = 0

\* What was read is the expert that was to be read, for a slot that exists.
ReadsOk ==
    \A n \in DOMAIN misses :
        /\ misses[n].st = "ok" => misses[n].buf # 0 /\ bufs[misses[n].buf] = misses[n].eid
        /\ misses[n].st = "todo" => misses[n].buf = 0
        /\ misses[n].slot <= nLru

\* What the batch holds.
HeldOk ==
    \A e \in DOMAIN held :
        /\ held[e].tier # 0 => tier[held[e].tier].eid = e /\ ~held[e].owned
        /\ held[e].tier = 0 /\ ~held[e].owned =>
               /\ held[e].slot # 0 /\ held[e].slot <= nLru /\ slots[held[e].slot].ready
               /\ slots[held[e].slot].eid = e /\ slots[held[e].slot].buf = held[e].buf
               /\ slots[held[e].slot].inuse > 0
        /\ held[e].owned => held[e].buf # 0 /\ bufs[held[e].buf] = e

\* An expert of the batch is held, needed or missed, and only one of these.
Parts ==
    /\ need \cap DOMAIN held = {}
    /\ \A n \in DOMAIN misses : misses[n].eid \notin need \cup DOMAIN held
    /\ \A n, k \in DOMAIN misses : misses[n].eid = misses[k].eid => n = k
    /\ ~failed => \A e \in batch : \/ e \in need \cup DOMAIN held
                                   \/ \E n \in DOMAIN misses : misses[n].eid = e
    /\ DOMAIN held \subseteq batch /\ need \subseteq batch
    /\ \A n \in DOMAIN misses : misses[n].eid \in batch

Stages ==
    /\ pc = "idle" => DOMAIN held = {} /\ batch = {}
    /\ pc \in {"idle", "held"} => misses = <<>> /\ ~failed
    /\ pc # "collect" => need = {}

\* No buffer has two owners.
Distinct ==
    \A b \in Bufs :
        /\ \A i, j \in Slots : slots[i].buf = b /\ slots[j].buf = b => i = j
        /\ \A n, k \in DOMAIN misses : ReadOf(misses[n]) = b /\ ReadOf(misses[k]) = b => n = k
        /\ \A e, f \in DOMAIN held :
               held[e].owned /\ held[f].owned /\ held[e].buf = b /\ held[f].buf = b => e = f
        /\ \A i \in Slots, n \in DOMAIN misses : ~(slots[i].buf = b /\ ReadOf(misses[n]) = b)
        /\ \A i \in Slots, e \in DOMAIN held :
               ~(slots[i].buf = b /\ held[e].owned /\ held[e].buf = b)
        /\ \A n \in DOMAIN misses, e \in DOMAIN held :
               ~(ReadOf(misses[n]) = b /\ held[e].owned /\ held[e].buf = b)
        /\ b \in lost.bufs => /\ \A i \in Slots : slots[i].buf # b
                              /\ \A n \in DOMAIN misses : ReadOf(misses[n]) # b
                              /\ \A e \in DOMAIN held : held[e].owned => held[e].buf # b

\* A buffer has an owner, unless it is free.
Owned(b) ==
    \/ \E i \in Slots : slots[i].buf = b
    \/ \E n \in DOMAIN misses : ReadOf(misses[n]) = b
    \/ \E e \in DOMAIN held : held[e].owned /\ held[e].buf = b
    \/ b \in lost.bufs

NotFree == \A b \in Bufs : Owned(b) <=> bufs[b] # Free

IInv == TypeOK /\ SlotsOk /\ ReadsOk /\ HeldOk /\ Parts /\ Stages /\ Distinct /\ NotFree

-----------------------------------------------------------------------------
LEMMA InitIInv == Init => IInv
  <1>. SUFFICES ASSUME Init PROVE IInv
    OBVIOUS
  <1>1. NSlots \in Nat /\ NTier \in Nat /\ NBufs \in Nat
    BY ExpertAssumption
  <1>2. /\ misses = <<>> /\ DOMAIN misses = {} /\ held = <<>> /\ DOMAIN held = {}
        /\ lost.bufs = {} /\ batch = {} /\ need = {} /\ failed = FALSE /\ pc = "idle" /\ nLru = 0
    BY DEF Init
  <1>3. \A i \in Slots : slots[i] = [eid |-> None, ready |-> TRUE, inuse |-> 0, buf |-> 0]
    BY DEF Init
  <1>4. TypeOK
    <2>1. [eid |-> None, ready |-> TRUE, inuse |-> 0, buf |-> 0] \in Slot
      BY <1>1 DEF Slot
    <2>2. slots \in [Slots -> Slot]
      BY <2>1 DEF Init
    <2>3. tier \in [Tier -> Place] /\ tierOf \in [Experts -> 0 .. NTier]
      BY <1>1 DEF Init, Place
    <2>4. misses \in Seq(Missed) /\ held \in [DOMAIN held -> Copy]
      BY <1>2
    <2>5. /\ nLru \in 0 .. NSlots /\ lruOf \in [Experts -> 0 .. NSlots]
          /\ gen \in [Slots -> Nat] /\ bufs \in [Bufs -> Experts \cup {Free, Junk}]
      BY <1>1 DEF Init
    <2>6. /\ pc \in {"idle", "collect", "fetch", "commit", "held"}
          /\ batch \subseteq Experts /\ need \subseteq Experts /\ failed \in BOOLEAN
          /\ DOMAIN held \subseteq Experts /\ lost.bufs \subseteq Bufs
      BY <1>2
    <2>. QED  BY <2>2, <2>3, <2>4, <2>5, <2>6 DEF TypeOK
  <1>5. SlotsOk
    BY <1>3 DEF SlotsOk
  <1>6. ReadsOk /\ HeldOk /\ Parts /\ Stages
    BY <1>2 DEF ReadsOk, HeldOk, Parts, Stages
  <1>7. \A i \in Slots, b \in Bufs : slots[i].buf # b
    BY <1>1, <1>3 DEF Bufs
  <1>8. Distinct
    BY <1>2, <1>7 DEF Distinct
  <1>9. \A b \in Bufs : bufs[b] = Free
    BY DEF Init
  <1>10. NotFree
    BY <1>2, <1>7, <1>9 DEF NotFree, Owned
  <1>. QED  BY <1>4, <1>5, <1>6, <1>8, <1>10 DEF IInv

\* What the types say of the parts.
LEMMA Constants ==
    /\ NSlots \in Nat /\ NTier \in Nat /\ NBufs \in Nat
    /\ None \notin Experts /\ Free \notin Experts /\ Junk \notin Experts /\ Free # Junk
  <1>1. Free # Junk
    BY DEF Free, Junk
  <1>. QED  BY <1>1, ExpertAssumption

LEMMA SlotTypes ==
    ASSUME TypeOK, NEW i \in Slots
    PROVE  /\ slots[i] \in Slot /\ slots[i].buf \in 0 .. NBufs /\ i \in Nat
           /\ slots[i].inuse \in Nat /\ slots[i].ready \in BOOLEAN
           /\ slots[i].eid \in Experts \cup {None}
  <1>1. slots[i] \in Slot
    BY DEF TypeOK
  <1>. QED  BY <1>1, Constants DEF Slot, Slots

LEMMA MissTypes ==
    ASSUME TypeOK
    PROVE  /\ DOMAIN misses = 1 .. Len(misses) /\ Len(misses) \in Nat
           /\ \A n \in DOMAIN misses :
                  /\ misses[n] \in Missed /\ misses[n].eid \in Experts /\ n \in Nat
                  /\ misses[n].slot \in 0 .. NSlots /\ misses[n].buf \in 0 .. NBufs
                  /\ misses[n].reuse \in 0 .. NBufs /\ misses[n].st \in {"todo", "ok", "failed"}
                  /\ ReadOf(misses[n]) \in 0 .. NBufs
  <1>1. DOMAIN misses = 1 .. Len(misses) /\ Len(misses) \in Nat
    BY DEF TypeOK
  <1>2. \A n \in DOMAIN misses : misses[n] \in Missed
    BY DEF TypeOK
  <1>. QED  BY <1>1, <1>2 DEF Missed, ReadOf

LEMMA HeldTypes ==
    ASSUME TypeOK, NEW e \in DOMAIN held
    PROVE  /\ e \in Experts /\ held[e] \in Copy /\ held[e].tier \in 0 .. NTier
           /\ held[e].slot \in 0 .. NSlots /\ held[e].buf \in 0 .. NBufs
           /\ held[e].owned \in BOOLEAN
  <1>1. held[e] \in Copy /\ e \in Experts
    BY DEF TypeOK
  <1>. QED  BY <1>1 DEF Copy

\* HeldIntact follows.
LEMMA HeldIntactFollows == ASSUME IInv PROVE HeldIntact
  <1>1. pc = "held" => DOMAIN held = batch
    <2>. SUFFICES ASSUME pc = "held" PROVE DOMAIN held = batch
      OBVIOUS
    <2>1. need = {} /\ ~failed /\ misses = <<>> /\ DOMAIN misses = {}
      BY DEF IInv, Stages
    <2>. QED  BY <2>1 DEF IInv, Parts
  <1>2. ASSUME NEW e \in DOMAIN held
        PROVE  IF held[e].tier # 0 THEN tier[held[e].tier].eid = e
               ELSE /\ bufs[held[e].buf] = e
                    /\ ~held[e].owned => /\ slots[held[e].slot].eid = e
                                         /\ slots[held[e].slot].buf = held[e].buf
    <2>1. e \in Experts /\ e # None /\ held[e].slot \in 0 .. NSlots /\ NSlots \in Nat
      BY HeldTypes, Constants DEF IInv, TypeOK
    <2>2. CASE held[e].tier = 0 /\ ~held[e].owned
      <3>1. held[e].slot \in Slots
        BY <2>1, <2>2 DEF IInv, HeldOk, Slots
      <3>. QED  BY <2>1, <2>2, <3>1 DEF IInv, HeldOk, SlotsOk
    <2>3. CASE held[e].tier # 0 \/ held[e].owned
      BY <2>3 DEF IInv, HeldOk
    <2>. QED  BY <2>2, <2>3
  <1>. QED  BY <1>1, <1>2 DEF HeldIntact
-----------------------------------------------------------------------------
(* The steps.                                                              *)

\* A slot of a cache that no batch uses is emptied, or gets another expert in
\* its own buffer or in a free one.
LEMMA SweepKeeps ==
    ASSUME IInv, pc = "idle", NEW i \in Slots, NEW e \in Experts \cup {None}, NEW c \in 0 .. NBufs,
           slots' = [slots EXCEPT ![i] = [@ EXCEPT !.eid = e, !.ready = TRUE, !.buf = c]],
           \/ e = None /\ c = 0 /\ bufs' = Freed({slots[i].buf})
           \/ /\ e \in Experts /\ c # 0 /\ bufs' = [bufs EXCEPT ![c] = e]
              /\ slots[i].buf = c \/ (slots[i].buf = 0 /\ bufs[c] = Free),
           nLru' = IF i > nLru THEN i ELSE nLru,
           lruOf' \in [Experts -> 0 .. NSlots],
           tier' \in [Tier -> Place], tierOf' \in [Experts -> 0 .. NTier],
           UNCHANGED <<pc, gen, batch, need, misses, held, failed, lost>>
    PROVE  IInv'
  <1>1. /\ TypeOK /\ misses = <<>> /\ DOMAIN misses = {} /\ DOMAIN held = {}
        /\ misses' = misses /\ held' = held /\ lost' = lost
        /\ DOMAIN misses' = {} /\ DOMAIN held' = {}
    BY DEF IInv, Stages
  <1>2. /\ slots'[i] \in Slot /\ slots'[i].eid = e /\ slots'[i].ready = TRUE /\ slots'[i].buf = c
        /\ slots'[i].inuse = slots[i].inuse
        /\ \A j \in Slots : j # i => slots'[j] = slots[j]
        /\ slots' \in [Slots -> Slot]
    <2>1. slots[i] \in Slot /\ slots \in [Slots -> Slot]
      BY <1>1, SlotTypes DEF TypeOK
    <2>. QED  BY <2>1 DEF Slot
  <1>3. /\ bufs' \in [Bufs -> Experts \cup {Free, Junk}]
        /\ \A b \in Bufs : b # c /\ b # slots[i].buf => bufs'[b] = bufs[b]
        /\ c # 0 => c \in Bufs /\ bufs'[c] = e /\ e \in Experts
        /\ \A b \in Bufs : b = slots[i].buf /\ b # c => bufs'[b] = Free
    <2>1. bufs \in [Bufs -> Experts \cup {Free, Junk}]
      BY <1>1 DEF TypeOK
    <2>2. c # 0 => c \in Bufs
      BY Constants DEF Bufs
    <2>3. 0 \notin Bufs
      BY Constants DEF Bufs
    <2>. QED  BY <2>1, <2>2, <2>3, Constants DEF Freed
  <1>4. \A j \in Slots : slots[j].buf \in Bufs \/ slots[j].buf = 0
    BY <1>1, SlotTypes, Constants DEF Bufs
  <1>5. \A j \in Slots, b \in Bufs : slots[i].buf = b /\ slots[j].buf = b => i = j
    BY DEF IInv, Distinct
  <1>6. \A b \in Bufs : bufs[b] # Free <=> ((\E j \in Slots : slots[j].buf = b) \/ b \in lost.bufs)
    BY <1>1 DEF IInv, NotFree, Owned
  <1>12. c \in Bufs => (slots[i].buf = c \/ bufs[c] = Free) /\ c \notin lost.bufs
    <2>1. c \in Bufs => (slots[i].buf = c \/ bufs[c] = Free)
      BY Constants DEF Bufs
    <2>2. slots[i].buf \in lost.bufs => slots[i].buf \notin Bufs
      BY DEF IInv, Distinct
    <2>. QED  BY <2>1, <2>2, <1>6
  <1>13. \A j \in Slots, b \in Bufs : j # i /\ slots[j].buf = b => b # c
    BY <1>5, <1>6, <1>12
  <1>7. TypeOK'
    <2>1. nLru' \in 0 .. NSlots
      BY <1>1, Constants DEF TypeOK, Slots
    <2>. QED  BY <1>1, <1>2, <1>3, <2>1 DEF TypeOK
  <1>8. SlotsOk'
    <2>. SUFFICES ASSUME NEW j \in Slots
                  PROVE  /\ slots'[j].ready /\ slots'[j].eid # None =>
                                slots'[j].buf # 0 /\ bufs'[slots'[j].buf] = slots'[j].eid
                         /\ ~slots'[j].ready => slots'[j].inuse = 0
                         /\ j > nLru' => slots'[j].inuse = 0
      BY DEF SlotsOk
    <2>1. nLru' \in Nat /\ nLru \in Nat /\ nLru <= nLru' /\ i <= nLru' /\ i \in Nat /\ j \in Nat
      BY <1>1, Constants DEF TypeOK, Slots
    <2>2. CASE j = i
      BY <2>1, <2>2, <1>2, <1>3
    <2>3. CASE j # i
      <3>1. slots'[j] = slots[j]
        BY <2>3, <1>2
      <3>2. slots[j].buf \in Bufs => slots[j].buf # slots[i].buf /\ slots[j].buf # c
        BY <2>3, <1>5, <1>13
      <3>. QED  BY <2>1, <3>1, <3>2, <1>3, <1>4 DEF IInv, SlotsOk
    <2>. QED  BY <2>2, <2>3
  <1>9. ReadsOk' /\ HeldOk' /\ Parts' /\ Stages'
    BY <1>1 DEF IInv, ReadsOk, HeldOk, Parts, Stages
  <1>10. Distinct'
    <2>1. ASSUME NEW b \in Bufs, NEW j \in Slots, NEW k \in Slots, slots'[j].buf = b, slots'[k].buf = b
          PROVE  j = k
      <3>1. CASE j = i /\ k = i
        BY <3>1
      <3>2. CASE j = i /\ k # i
        BY <3>2, <2>1, <1>2, <1>13
      <3>3. CASE j # i /\ k = i
        BY <3>3, <2>1, <1>2, <1>13
      <3>4. CASE j # i /\ k # i
        <4>1. slots[j].buf = b /\ slots[k].buf = b
          BY <3>4, <2>1, <1>2
        <4>. QED  BY <4>1 DEF IInv, Distinct
      <3>. QED  BY <3>1, <3>2, <3>3, <3>4
    <2>2. ASSUME NEW b \in Bufs, b \in lost.bufs, NEW j \in Slots PROVE slots'[j].buf # b
      <3>1. CASE j = i
        BY <3>1, <2>2, <1>2, <1>12
      <3>2. CASE j # i
        <4>1. slots[j].buf # b
          BY <2>2 DEF IInv, Distinct
        <4>. QED  BY <3>2, <4>1, <1>2
      <3>. QED  BY <3>1, <3>2
    <2>. QED  BY <1>1, <2>1, <2>2 DEF Distinct
  <1>11. NotFree'
    <2>. SUFFICES ASSUME NEW b \in Bufs
                  PROVE  ((\E j \in Slots : slots'[j].buf = b) \/ b \in lost.bufs) <=> bufs'[b] # Free
      BY <1>1 DEF NotFree, Owned
    <2>1. CASE b = c
      <3>1. c # 0
        BY <2>1, Constants DEF Bufs
      <3>2. bufs'[b] # Free
        BY <2>1, <3>1, <1>3, Constants
      <3>3. slots'[i].buf = b
        BY <2>1, <1>2
      <3>. QED  BY <3>2, <3>3
    <2>2. CASE b # c /\ b = slots[i].buf
      <3>1. bufs'[b] = Free
        BY <2>2, <1>3
      <3>2. \A j \in Slots : slots'[j].buf # b
        BY <2>2, <1>2, <1>5
      <3>3. b \notin lost.bufs
        BY <2>2 DEF IInv, Distinct
      <3>. QED  BY <3>1, <3>2, <3>3
    <2>3. CASE b # c /\ b # slots[i].buf
      <3>1. bufs'[b] = bufs[b]
        BY <2>3, <1>3
      <3>2. (\E j \in Slots : slots'[j].buf = b) <=> (\E j \in Slots : slots[j].buf = b)
        BY <2>3, <1>2
      <3>. QED  BY <3>1, <3>2, <1>6
    <2>. QED  BY <2>1, <2>2, <2>3
  <1>. QED  BY <1>7, <1>8, <1>9, <1>10, <1>11 DEF IInv

\* Slots that may be given away exist.
LEMMA VictimFacts ==
    ASSUME IInv, NEW i \in Victims
    PROVE  i \in Slots /\ slots[i].inuse = 0 /\ i <= nLru + 1
  <1>1. nLru \in Nat /\ nLru <= NSlots /\ NSlots \in Nat
    BY Constants DEF IInv, TypeOK
  <1>2. i \in Slots /\ i <= nLru + 1
    BY <1>1 DEF Victims, Slots
  <1>3. slots[i].inuse = 0
    BY <1>1, <1>2 DEF Victims, IInv, SlotsOk
  <1>. QED  BY <1>2, <1>3

LEMMA GivenFacts ==
    ASSUME TypeOK, NEW i \in Slots, NEW e \in Experts \cup {None}, NEW r, NEW c, Given(i, e, r, c)
    PROVE  /\ slots' = [slots EXCEPT ![i] = [@ EXCEPT !.eid = e, !.ready = r, !.buf = c]]
           /\ lruOf' \in [Experts -> 0 .. NSlots]
           /\ nLru' = IF i > nLru THEN i ELSE nLru
  <1>1. i \in 0 .. NSlots
    BY Constants DEF Slots
  <1>2. Unmapped(i) \in [Experts -> 0 .. NSlots]
    BY Constants DEF TypeOK, Unmapped
  <1>. QED  BY <1>1, <1>2 DEF Given

\* tier_sweep: what it may move is not used, and no batch is under way.
LEMMA SweepsKeep ==
    ASSUME IInv, TierEvict \/ TierPromote \/ TierSwap \/ TierDemote
    PROVE  IInv'
  <1>1. TypeOK /\ pc = "idle"
    BY DEF IInv, TierEvict, TierPromote, TierSwap, TierDemote, Sweeps
  <1>2. \A i \in 1 .. nLru : i \in Slots
    BY <1>1, Constants DEF TypeOK, Slots
  <1>3. UNCHANGED <<pc, gen, batch, need, misses, held, failed, lost>>
    BY DEF TierEvict, TierPromote, TierSwap, TierDemote, batchVars
  <1>4. tier \in [Tier -> Place] /\ tierOf \in [Experts -> 0 .. NTier]
    BY <1>1 DEF TypeOK
  <1>5. ASSUME NEW i \in Slots, bufs' = Freed({slots[i].buf}), Given(i, None, TRUE, 0),
               tier' \in [Tier -> Place], tierOf' \in [Experts -> 0 .. NTier]
        PROVE  IInv'
    <2>1. None \in Experts \cup {None} /\ 0 \in 0 .. NBufs
      BY Constants
    <2>2. /\ slots' = [slots EXCEPT ![i] = [@ EXCEPT !.eid = None, !.ready = TRUE, !.buf = 0]]
          /\ lruOf' \in [Experts -> 0 .. NSlots]
          /\ nLru' = IF i > nLru THEN i ELSE nLru
      BY <1>1, <1>5, <2>1, GivenFacts
    <2>. QED  BY <1>1, <1>3, <1>5, <2>1, <2>2, SweepKeeps
  <1>6. ASSUME NEW i \in Slots, NEW t \in Tier, NEW b \in Buffer(slots[i].buf),
               tier[t].eid # None, bufs' = [bufs EXCEPT ![b] = tier[t].eid],
               Given(i, tier[t].eid, TRUE, b),
               tier' \in [Tier -> Place], tierOf' \in [Experts -> 0 .. NTier]
        PROVE  IInv'
    <2>1. tier[t].eid \in Experts
      BY <1>4, <1>6 DEF Place
    <2>2. b \in 0 .. NBufs /\ b # 0 /\ (slots[i].buf = b \/ (slots[i].buf = 0 /\ bufs[b] = Free))
      BY <1>1, SlotTypes, Constants DEF Buffer, Bufs
    <2>. DEFINE e == tier[t].eid
    <2>3. e \in Experts /\ bufs' = [bufs EXCEPT ![b] = e] /\ Given(i, e, TRUE, b)
      BY <1>6, <2>1
    <2>. HIDE DEF e
    <2>4. /\ slots' = [slots EXCEPT ![i] = [@ EXCEPT !.eid = e, !.ready = TRUE, !.buf = b]]
          /\ lruOf' \in [Experts -> 0 .. NSlots]
          /\ nLru' = IF i > nLru THEN i ELSE nLru
      BY <1>1, <2>3, GivenFacts
    <2>. QED  BY <1>1, <1>3, <1>6, <2>2, <2>3, <2>4, SweepKeeps
  <1>7. \A t \in Tier, e \in Experts \cup {None} : [tier EXCEPT ![t].eid = e] \in [Tier -> Place]
    BY <1>4 DEF Place
  <1>8. \A t \in Tier : t \in 0 .. NTier
    BY Constants DEF Tier
  <1>13. 0 \in 0 .. NTier
    BY Constants
  <1>14. \A x : [tierOf EXCEPT ![x] = 0] \in [Experts -> 0 .. NTier]
    <2>. DEFINE z == 0
    <2>1. z \in 0 .. NTier
      BY <1>13
    <2>. HIDE DEF z
    <2>2. \A x : [tierOf EXCEPT ![x] = z] \in [Experts -> 0 .. NTier]
      BY <1>4, <2>1
    <2>. QED  BY <2>2 DEF z
  <1>9. CASE TierEvict
    <2>1. PICK i \in 1 .. nLru : bufs' = Freed({slots[i].buf}) /\ Given(i, None, TRUE, 0)
      BY <1>9 DEF TierEvict
    <2>. QED  BY <1>2, <1>4, <1>5, <1>9, <2>1 DEF TierEvict, tierVars
  <1>10. CASE TierPromote
    <2>1. PICK i \in 1 .. nLru, t \in Tier :
              /\ bufs' = Freed({slots[i].buf}) /\ Given(i, None, TRUE, 0)
              /\ tier' = [tier EXCEPT ![t].eid = slots[i].eid]
              /\ tierOf' = [tierOf EXCEPT ![slots[i].eid] = t]
      BY <1>10 DEF TierPromote
    <2>2. tier' \in [Tier -> Place] /\ tierOf' \in [Experts -> 0 .. NTier]
      BY <1>1, <1>2, <1>4, <1>7, <1>8, <2>1, SlotTypes
    <2>. QED  BY <1>2, <1>5, <2>1, <2>2
  <1>11. CASE TierSwap
    <2>1. PICK i \in 1 .. nLru, t \in Tier :
              /\ Movable(slots[i]) /\ slots[i].ready /\ Movable(tier[t])
              /\ \/ /\ bufs' = [bufs EXCEPT ![slots[i].buf] = tier[t].eid]
                    /\ Given(i, tier[t].eid, TRUE, slots[i].buf)
                    /\ tier' = [tier EXCEPT ![t].eid = slots[i].eid]
                    /\ tierOf' = [tierOf EXCEPT ![tier[t].eid] = 0, ![slots[i].eid] = t]
                 \/ /\ bufs' = Freed({slots[i].buf})
                    /\ Given(i, None, TRUE, 0)
                    /\ UNCHANGED tierVars
      BY <1>11 DEF TierSwap
    <2>2. CASE UNCHANGED tierVars /\ bufs' = Freed({slots[i].buf}) /\ Given(i, None, TRUE, 0)
      BY <1>2, <1>4, <1>5, <2>2 DEF tierVars
    <2>3. CASE /\ bufs' = [bufs EXCEPT ![slots[i].buf] = tier[t].eid]
               /\ Given(i, tier[t].eid, TRUE, slots[i].buf)
               /\ tier' = [tier EXCEPT ![t].eid = slots[i].eid]
               /\ tierOf' = [tierOf EXCEPT ![tier[t].eid] = 0, ![slots[i].eid] = t]
      <3>1. slots[i].buf # 0
        BY <1>2, <2>1 DEF IInv, SlotsOk, Movable
      <3>2. slots[i].buf \in Buffer(slots[i].buf)
        BY <3>1 DEF Buffer
      <3>3. tier' \in [Tier -> Place]
        BY <1>1, <1>2, <1>7, <2>3, SlotTypes
      <3>4. tierOf' \in [Experts -> 0 .. NTier]
        <4>. DEFINE f == [tierOf EXCEPT ![tier[t].eid] = 0]
        <4>1. f \in [Experts -> 0 .. NTier]
          BY <1>14
        <4>2. tierOf' = [f EXCEPT ![slots[i].eid] = t]
          BY <2>3
        <4>3. t \in 0 .. NTier
          BY <1>8
        <4>. HIDE DEF f
        <4>. QED  BY <4>1, <4>2, <4>3
      <3>. QED  BY <1>2, <1>6, <2>1, <2>3, <3>2, <3>3, <3>4 DEF Movable
    <2>. QED  BY <2>1, <2>2, <2>3
  <1>12. CASE TierDemote
    <2>1. PICK t \in Tier, i \in Victims :
              /\ Movable(tier[t])
              /\ \/ \E b \in Buffer(slots[i].buf) :
                       /\ bufs' = [bufs EXCEPT ![b] = tier[t].eid]
                       /\ Given(i, tier[t].eid, TRUE, b)
                       /\ tier' = [tier EXCEPT ![t].eid = None]
                       /\ tierOf' = [tierOf EXCEPT ![tier[t].eid] = 0]
                 \/ /\ bufs' = Freed({slots[i].buf})
                    /\ Given(i, None, TRUE, 0)
                    /\ UNCHANGED tierVars
      BY <1>12 DEF TierDemote
    <2>2. i \in Slots
      BY VictimFacts
    <2>3. CASE UNCHANGED tierVars /\ bufs' = Freed({slots[i].buf}) /\ Given(i, None, TRUE, 0)
      BY <1>4, <1>5, <2>2, <2>3 DEF tierVars
    <2>4. ASSUME NEW b \in Buffer(slots[i].buf),
                 bufs' = [bufs EXCEPT ![b] = tier[t].eid], Given(i, tier[t].eid, TRUE, b),
                 tier' = [tier EXCEPT ![t].eid = None], tierOf' = [tierOf EXCEPT ![tier[t].eid] = 0]
          PROVE  IInv'
      <3>1. tier' \in [Tier -> Place]
        BY <1>7, <2>4
      <3>2. tierOf' \in [Experts -> 0 .. NTier]
        BY <1>14, <2>4
      <3>. QED  BY <1>6, <2>1, <2>2, <2>4, <3>1, <3>2 DEF Movable
    <2>. QED  BY <2>1, <2>3, <2>4
  <1>. QED  BY <1>9, <1>10, <1>11, <1>12

\* How often a batch uses a slot, or a place of the device.
LEMMA UsesFacts ==
    ASSUME NEW h, DOMAIN h \subseteq Experts, NEW i
    PROVE  /\ Uses(h, i) \in Nat /\ TierUses(h, i) \in Nat
           /\ Uses(h, i) > 0 <=> \E e \in DOMAIN h : h[e].slot = i /\ ~h[e].owned
  <1>. DEFINE S == {e \in DOMAIN h : h[e].slot = i /\ ~h[e].owned}
              T == {e \in DOMAIN h : h[e].tier = i}
  <1>1. S \subseteq Experts /\ T \subseteq Experts /\ IsFiniteSet(Experts)
    BY ExpertAssumption
  <1>2. Uses(h, i) = Cardinality(S) /\ TierUses(h, i) = Cardinality(T)
    BY DEF Uses, TierUses
  <1>3. S # {} <=> \E e \in DOMAIN h : h[e].slot = i /\ ~h[e].owned
    OBVIOUS
  <1>. HIDE DEF S, T
  <1>4. IsFiniteSet(S) /\ IsFiniteSet(T)
    BY <1>1, FS_Subset
  <1>5. Cardinality(S) \in Nat /\ Cardinality(T) \in Nat /\ (Cardinality(S) = 0 <=> S = {})
    BY <1>4, FS_CardinalityType, FS_EmptySet
  <1>. QED  BY <1>2, <1>3, <1>5

LEMMA ScanKeeps == ASSUME IInv, Scan PROVE IInv'
  <1>1. /\ TypeOK /\ pc = "idle" /\ misses = <<>> /\ DOMAIN misses = {} /\ DOMAIN held = {}
        /\ failed = FALSE /\ misses' = misses /\ failed' = failed
        /\ UNCHANGED <<nLru, lruOf, tierOf, bufs, gen, lost>>
    BY DEF IInv, Stages, Scan, TypeOK
  <1>2. PICK ids \in SUBSET Experts \ {{}} :
            LET hits == {e \in ids : InTier(e) \/ (InLru(e) /\ slots[lruOf[e]].ready)}
            IN  /\ held' = [e \in hits |-> Hit(e)]
                /\ batch' = ids /\ need' = ids \ hits
                /\ slots' = [i \in Slots |-> [slots[i] EXCEPT !.inuse = @ + Uses(held', i)]]
                /\ tier' = [t \in Tier |-> [tier[t] EXCEPT !.inuse = @ + TierUses(held', t)]]
                /\ pc' = IF ids = hits THEN "held" ELSE "collect"
    BY DEF Scan
  <1>. DEFINE hits == {e \in ids : InTier(e) \/ (InLru(e) /\ slots[lruOf[e]].ready)}
  <1>3. /\ DOMAIN held' = hits /\ hits \subseteq Experts /\ hits \subseteq ids
        /\ \A e \in hits : held'[e] = Hit(e)
        /\ held' = [e \in hits |-> Hit(e)]
        /\ \A e \in hits : InTier(e) \/ (InLru(e) /\ slots[lruOf[e]].ready)
    BY <1>2
  <1>4. /\ batch' = ids /\ need' = ids \ hits
        /\ slots' = [i \in Slots |-> [slots[i] EXCEPT !.inuse = @ + Uses(held', i)]]
        /\ tier' = [t \in Tier |-> [tier[t] EXCEPT !.inuse = @ + TierUses(held', t)]]
        /\ pc' = IF ids = hits THEN "held" ELSE "collect"
    BY <1>2
  <1>. HIDE DEF hits
  <1>5. /\ \A i \in Slots : Uses(held', i) \in Nat
        /\ \A t \in Tier : TierUses(held', t) \in Nat
        /\ \A i \in Slots : Uses(held', i) > 0 <=>
               \E e \in DOMAIN held' : held'[e].slot = i /\ ~held'[e].owned
    BY <1>3, UsesFacts
  <1>6. /\ slots' \in [Slots -> Slot]
        /\ \A i \in Slots : /\ slots'[i].eid = slots[i].eid /\ slots'[i].ready = slots[i].ready
                            /\ slots'[i].buf = slots[i].buf
                            /\ slots'[i].inuse = slots[i].inuse + Uses(held', i)
    <2>1. \A i \in Slots : slots[i] \in Slot
      BY <1>1, SlotTypes
    <2>. QED  BY <1>4, <1>5, <2>1 DEF Slot
  <1>7. /\ tier' \in [Tier -> Place] /\ \A t \in Tier : tier'[t].eid = tier[t].eid
    <2>1. \A t \in Tier : tier[t] \in Place
      BY <1>1 DEF TypeOK
    <2>. QED  BY <1>4, <1>5, <2>1 DEF Place
  <1>8. ASSUME NEW e \in hits
        PROVE  /\ held'[e] \in Copy /\ held'[e].owned = FALSE
               /\ \/ /\ InTier(e) /\ held'[e].tier = tierOf[e] /\ held'[e].slot = 0
                     /\ tierOf[e] \in Tier
                  \/ /\ InLru(e) /\ held'[e].tier = 0 /\ held'[e].slot = lruOf[e]
                     /\ held'[e].buf = slots[lruOf[e]].buf
                     /\ lruOf[e] \in Slots /\ lruOf[e] <= nLru /\ slots[lruOf[e]].ready
    <2>1. e \in Experts /\ tierOf[e] \in 0 .. NTier /\ lruOf[e] \in 0 .. NSlots
      BY <1>1, <1>3 DEF TypeOK
    <2>2. CASE InTier(e)
      <3>1. held'[e] = [tier |-> tierOf[e], slot |-> 0, buf |-> 0, owned |-> FALSE]
        BY <1>3, <2>2 DEF Hit
      <3>2. tierOf[e] \in Tier
        BY <2>1, <2>2, Constants DEF InTier, Tier
      <3>3. 0 \in 0 .. NSlots /\ 0 \in 0 .. NBufs
        BY Constants
      <3>. QED  BY <2>1, <2>2, <3>1, <3>2, <3>3 DEF Copy
    <2>3. CASE ~InTier(e)
      <3>1. InLru(e) /\ slots[lruOf[e]].ready
        BY <1>3, <2>3
      <3>2. lruOf[e] \in Slots /\ lruOf[e] <= nLru /\ 0 \in 0 .. NTier
        BY <1>1, <2>1, <3>1, Constants DEF InLru, Slots, TypeOK
      <3>3. held'[e] = [tier |-> 0, slot |-> lruOf[e], buf |-> slots[lruOf[e]].buf, owned |-> FALSE]
        BY <1>3, <2>3 DEF Hit
      <3>4. slots[lruOf[e]].buf \in 0 .. NBufs
        BY <1>1, <3>2, SlotTypes
      <3>. QED  BY <2>1, <3>1, <3>2, <3>3, <3>4 DEF Copy
    <2>. QED  BY <2>2, <2>3
  <1>9. TypeOK'
    <2>1. held' \in [DOMAIN held' -> Copy]
      BY <1>3, <1>8
    <2>2. pc' \in {"idle", "collect", "fetch", "commit", "held"}
      BY <1>4
    <2>. QED  BY <1>1, <1>3, <1>4, <1>6, <1>7, <2>1, <2>2 DEF TypeOK
  <1>10. SlotsOk'
    <2>. SUFFICES ASSUME NEW i \in Slots
                  PROVE  /\ slots'[i].ready /\ slots'[i].eid # None =>
                                slots'[i].buf # 0 /\ bufs'[slots'[i].buf] = slots'[i].eid
                         /\ ~slots'[i].ready => slots'[i].inuse = 0
                         /\ i > nLru' => slots'[i].inuse = 0
      BY DEF SlotsOk
    <2>1. slots'[i].ready /\ slots'[i].eid # None =>
              slots'[i].buf # 0 /\ bufs'[slots'[i].buf] = slots'[i].eid
      BY <1>1, <1>6 DEF IInv, SlotsOk
    <2>2. ~slots[i].ready \/ i > nLru => Uses(held', i) = 0
      <3>. SUFFICES ASSUME ~slots[i].ready \/ i > nLru, NEW e \in DOMAIN held',
                           held'[e].slot = i, ~held'[e].owned
                    PROVE  FALSE
        BY <1>5
      <3>1. i \in Nat /\ i # 0 /\ nLru \in Nat
        BY <1>1, Constants DEF Slots, TypeOK
      <3>2. e \in hits
        BY <1>3
      <3>3. i <= nLru /\ slots[i].ready
        BY <1>8, <3>1, <3>2
      <3>. QED  BY <3>1, <3>3
    <2>3. ~slots[i].ready => slots[i].inuse = 0
      BY DEF IInv, SlotsOk
    <2>4. i > nLru => slots[i].inuse = 0
      BY DEF IInv, SlotsOk
    <2>. QED  BY <1>1, <1>6, <2>1, <2>2, <2>3, <2>4
  <1>11. HeldOk'
    <2>. SUFFICES ASSUME NEW e \in DOMAIN held'
                  PROVE  /\ held'[e].tier # 0 => tier'[held'[e].tier].eid = e /\ ~held'[e].owned
                         /\ held'[e].tier = 0 /\ ~held'[e].owned =>
                                /\ held'[e].slot # 0 /\ held'[e].slot <= nLru'
                                /\ slots'[held'[e].slot].ready
                                /\ slots'[held'[e].slot].eid = e
                                /\ slots'[held'[e].slot].buf = held'[e].buf
                                /\ slots'[held'[e].slot].inuse > 0
                         /\ held'[e].owned => held'[e].buf # 0 /\ bufs'[held'[e].buf] = e
      BY DEF HeldOk
    <2>1. e \in hits /\ ~held'[e].owned
      BY <1>3, <1>8
    <2>2. CASE InTier(e) /\ held'[e].tier = tierOf[e] /\ tierOf[e] \in Tier
      <3>1. tierOf[e] # 0 /\ tier[tierOf[e]].eid = e
        BY <2>2 DEF InTier
      <3>. QED  BY <1>7, <2>1, <2>2, <3>1
    <2>3. CASE /\ InLru(e) /\ held'[e].tier = 0 /\ held'[e].slot = lruOf[e]
               /\ held'[e].buf = slots[lruOf[e]].buf
               /\ lruOf[e] \in Slots /\ lruOf[e] <= nLru /\ slots[lruOf[e]].ready
      <3>. DEFINE i == lruOf[e]
      <3>1. i \in Slots /\ slots[i].eid = e /\ i # 0
        BY <2>3, Constants DEF InLru, Slots
      <3>2. Uses(held', i) > 0
        BY <1>5, <2>1, <2>3, <3>1
      <3>3. slots[i].inuse \in Nat /\ Uses(held', i) \in Nat
        BY <1>1, <1>5, <3>1, SlotTypes
      <3>. QED  BY <1>1, <1>6, <2>1, <2>3, <3>1, <3>2, <3>3
    <2>. QED  BY <1>8, <2>1, <2>2, <2>3
  <1>12. ReadsOk'
    BY <1>1 DEF ReadsOk
  <1>13. Parts' /\ Stages'
    <2>1. DOMAIN misses' = {} /\ DOMAIN held' \subseteq batch' /\ need' \subseteq batch'
          /\ need' \cap DOMAIN held' = {} /\ batch' = need' \cup DOMAIN held'
      BY <1>1, <1>3, <1>4
    <2>2. Parts'
      BY <2>1 DEF Parts
    <2>3. pc' = "held" => need' = {}
      BY <1>4
    <2>4. pc' # "idle" /\ (pc' # "collect" => need' = {})
      BY <1>4, <2>3
    <2>5. Stages'
      BY <1>1, <2>4 DEF Stages
    <2>. QED  BY <2>2, <2>5
  <1>14. \A e \in DOMAIN held' : ~held'[e].owned
    BY <1>3, <1>8
  <1>15. Distinct'
    BY <1>1, <1>6, <1>14 DEF IInv, Distinct
  <1>16. NotFree'
    <2>1. ASSUME NEW b \in Bufs PROVE Owned(b)' <=> Owned(b)
      BY <1>1, <1>6, <1>14 DEF Owned
    <2>. QED  BY <1>1, <2>1 DEF IInv, NotFree
  <1>. QED  BY <1>9, <1>10, <1>11, <1>12, <1>13, <1>15, <1>16 DEF IInv

\* A slot, or none, for an expert to be read, and the buffer of its last owner.
LEMMA CollectKeeps == ASSUME IInv, Collect PROVE IInv'
  <1>1. /\ TypeOK /\ pc = "collect"
        /\ UNCHANGED <<tierVars, bufs, batch, held, failed, lost>>
    BY DEF IInv, Collect
  <1>2. PICK e \in need :
            /\ \/ \E i \in Victims :
                  /\ gen' = IF i <= nLru THEN [gen EXCEPT ![i] = @ + 1] ELSE gen
                  /\ misses' = Append(misses, Miss(e, i, gen'[i], slots[i].buf))
                  /\ Given(i, e, FALSE, 0)
               \/ /\ misses' = Append(misses, Miss(e, 0, 0, 0))
                  /\ UNCHANGED <<lruVars, gen>>
            /\ need' = need \ {e}
            /\ pc' = IF need = {e} THEN "fetch" ELSE "collect"
    BY DEF Collect
  <1>3. e \in Experts /\ need \subseteq Experts
    BY <1>1 DEF TypeOK
  <1>4. PICK i \in 0 .. NSlots, g \in Nat, r \in 0 .. NBufs :
            /\ misses' = Append(misses, Miss(e, i, g, r))
            /\ gen' \in [Slots -> Nat] /\ nLru' \in 0 .. NSlots
            /\ nLru <= nLru' /\ i <= nLru' /\ lruOf' \in [Experts -> 0 .. NSlots]
            /\ \/ /\ i \in Slots /\ r = slots[i].buf /\ slots[i].inuse = 0
                  /\ slots' = [slots EXCEPT ![i] = [@ EXCEPT !.eid = e, !.ready = FALSE, !.buf = 0]]
               \/ i = 0 /\ r = 0 /\ slots' = slots
    <2>1. /\ gen \in [Slots -> Nat] /\ nLru \in Nat /\ nLru \in 0 .. NSlots
          /\ lruOf \in [Experts -> 0 .. NSlots]
      BY <1>1, Constants DEF TypeOK
    <2>2. CASE /\ misses' = Append(misses, Miss(e, 0, 0, 0))
               /\ UNCHANGED <<lruVars, gen>>
      <3>1. 0 \in 0 .. NSlots /\ 0 \in Nat /\ 0 \in 0 .. NBufs
        BY Constants
      <3>2. slots' = slots /\ gen' = gen /\ nLru' = nLru /\ lruOf' = lruOf /\ 0 <= nLru' /\ nLru <= nLru'
        BY <2>1, <2>2 DEF lruVars
      <3>. QED  BY <2>1, <2>2, <3>1, <3>2
    <2>3. CASE \E i \in Victims :
                  /\ gen' = IF i <= nLru THEN [gen EXCEPT ![i] = @ + 1] ELSE gen
                  /\ misses' = Append(misses, Miss(e, i, gen'[i], slots[i].buf))
                  /\ Given(i, e, FALSE, 0)
      <3>1. PICK i \in Victims :
                  /\ gen' = IF i <= nLru THEN [gen EXCEPT ![i] = @ + 1] ELSE gen
                  /\ misses' = Append(misses, Miss(e, i, gen'[i], slots[i].buf))
                  /\ Given(i, e, FALSE, 0)
        BY <2>3
      <3>2. i \in Slots /\ slots[i].inuse = 0
        BY VictimFacts
      <3>3. i \in 0 .. NSlots /\ i \in Nat
        BY <3>2, Constants DEF Slots
      <3>4. slots[i].buf \in 0 .. NBufs
        BY <1>1, <3>2, SlotTypes
      <3>5. gen' \in [Slots -> Nat] /\ gen'[i] \in Nat
        BY <2>1, <3>1, <3>2
      <3>6. /\ slots' = [slots EXCEPT ![i] = [@ EXCEPT !.eid = e, !.ready = FALSE, !.buf = 0]]
            /\ lruOf' \in [Experts -> 0 .. NSlots]
            /\ nLru' = IF i > nLru THEN i ELSE nLru
        <4>1. e \in Experts \cup {None}
          BY <1>3
        <4>2. TypeOK /\ i \in Slots /\ Given(i, e, FALSE, 0)
          BY <1>1, <3>1, <3>2
        <4>. HIDE DEF Given
        <4>. QED  BY <4>1, <4>2, GivenFacts
      <3>7. nLru' \in 0 .. NSlots /\ nLru <= nLru' /\ i <= nLru'
        BY <2>1, <3>3, <3>6
      <3>. QED  BY <3>1, <3>2, <3>3, <3>4, <3>5, <3>6, <3>7
    <2>. QED  BY <1>2, <2>2, <2>3
  <1>. DEFINE m == Miss(e, i, g, r)
              N == Len(misses) + 1
  <1>5. /\ m \in Missed /\ m.eid = e /\ m.slot = i /\ m.st = "todo" /\ m.buf = 0 /\ ReadOf(m) = r
    <2>1. 0 \in 0 .. NBufs
      BY Constants
    <2>. QED  BY <1>3, <2>1 DEF Miss, Missed, ReadOf
  <1>. HIDE DEF m
  <1>6. /\ misses' = Append(misses, m) /\ misses' \in Seq(Missed)
        /\ DOMAIN misses = 1 .. Len(misses) /\ Len(misses) \in Nat
        /\ DOMAIN misses' = 1 .. N /\ N \notin DOMAIN misses
        /\ \A n \in DOMAIN misses : n \in DOMAIN misses' /\ misses'[n] = misses[n]
        /\ misses'[N] = m /\ N \in DOMAIN misses'
        /\ \A n \in DOMAIN misses' : n \in DOMAIN misses \/ n = N
    <2>1. misses' = Append(misses, m) /\ misses \in Seq(Missed)
      BY <1>1, <1>4 DEF m, TypeOK
    <2>2. /\ Append(misses, m) \in Seq(Missed) /\ Len(Append(misses, m)) = Len(misses) + 1
          /\ \A n \in 1 .. Len(misses) : Append(misses, m)[n] = misses[n]
          /\ Append(misses, m)[Len(misses) + 1] = m
      BY <1>5, <2>1, AppendProperties
    <2>. QED  BY <2>1, <2>2
  <1>. HIDE DEF N
  <1>7. /\ slots' \in [Slots -> Slot]
        /\ \A j \in Slots : j # i => slots'[j] = slots[j]
        /\ i \in Slots => /\ slots'[i].ready = FALSE /\ slots'[i].buf = 0 /\ slots'[i].inuse = 0
                          /\ slots[i].inuse = 0 /\ slots[i].buf = r
        /\ i \notin Slots => r = 0
    <2>1. slots \in [Slots -> Slot] /\ 0 \in 0 .. NBufs
      BY <1>1, Constants DEF TypeOK
    <2>2. CASE i = 0 /\ r = 0 /\ slots' = slots
      <3>1. i \notin Slots
        BY <2>2 DEF Slots
      <3>. QED  BY <2>1, <2>2, <3>1
    <2>3. CASE /\ i \in Slots /\ r = slots[i].buf /\ slots[i].inuse = 0
               /\ slots' = [slots EXCEPT ![i] = [@ EXCEPT !.eid = e, !.ready = FALSE, !.buf = 0]]
      <3>1. [slots[i] EXCEPT !.eid = e, !.ready = FALSE, !.buf = 0] \in Slot
        BY <1>3, <2>1, <2>3 DEF Slot
      <3>2. slots'[i] = [slots[i] EXCEPT !.eid = e, !.ready = FALSE, !.buf = 0]
        BY <2>1, <2>3
      <3>3. slots[i] \in Slot
        BY <2>1, <2>3
      <3>. QED  BY <2>1, <2>3, <3>1, <3>2, <3>3 DEF Slot
    <2>. QED  BY <1>4, <2>2, <2>3
  <1>8. /\ bufs' = bufs /\ batch' = batch /\ held' = held /\ failed' = failed /\ lost' = lost
        /\ tier' = tier /\ tierOf' = tierOf
        /\ need' = need \ {e} /\ (pc' = "collect" \/ (pc' = "fetch" /\ need' = {}))
    BY <1>1, <1>2 DEF tierVars
  <1>9. TypeOK'
    BY <1>1, <1>3, <1>4, <1>6, <1>7, <1>8 DEF TypeOK
  <1>10. SlotsOk'
    <2>. SUFFICES ASSUME NEW j \in Slots
                  PROVE  /\ slots'[j].ready /\ slots'[j].eid # None =>
                                slots'[j].buf # 0 /\ bufs'[slots'[j].buf] = slots'[j].eid
                         /\ ~slots'[j].ready => slots'[j].inuse = 0
                         /\ j > nLru' => slots'[j].inuse = 0
      BY DEF SlotsOk
    <2>1. CASE j = i
      BY <2>1, <1>7
    <2>2. CASE j # i
      <3>1. j > nLru' => j > nLru
        BY <1>1, <1>4, Constants DEF TypeOK, Slots
      <3>2. slots'[j] = slots[j]
        BY <1>7, <2>2
      <3>. QED  BY <1>8, <3>1, <3>2 DEF IInv, SlotsOk
    <2>. QED  BY <2>1, <2>2
  <1>11. ReadsOk'
    <2>. SUFFICES ASSUME NEW n \in DOMAIN misses'
                  PROVE  /\ misses'[n].st = "ok" =>
                                misses'[n].buf # 0 /\ bufs'[misses'[n].buf] = misses'[n].eid
                         /\ misses'[n].st = "todo" => misses'[n].buf = 0
                         /\ misses'[n].slot <= nLru'
      BY DEF ReadsOk
    <2>1. CASE n = N
      BY <2>1, <1>4, <1>5, <1>6
    <2>2. CASE n \in DOMAIN misses
      <3>1. misses'[n] = misses[n] /\ misses[n].slot \in Nat
        BY <1>1, <1>6, <2>2, MissTypes, Constants
      <3>2. misses[n].slot <= nLru
        BY <2>2 DEF IInv, ReadsOk
      <3>3. nLru \in Nat /\ nLru' \in Nat
        BY <1>1, <1>4, Constants DEF TypeOK
      <3>4. misses'[n].slot <= nLru'
        BY <1>4, <3>1, <3>2, <3>3
      <3>. QED  BY <1>8, <2>2, <3>1, <3>4 DEF IInv, ReadsOk
    <2>. QED  BY <1>6, <2>1, <2>2
  <1>12. HeldOk'
    <2>1. ASSUME NEW x \in DOMAIN held, held[x].tier = 0, ~held[x].owned
          PROVE  slots'[held[x].slot] = slots[held[x].slot] /\ held[x].slot <= nLru'
      <3>1. /\ held[x].slot \in 0 .. NSlots /\ held[x].slot # 0 /\ held[x].slot <= nLru
            /\ slots[held[x].slot].inuse > 0
        BY <1>1, <2>1, HeldTypes DEF IInv, HeldOk
      <3>2. held[x].slot \in Slots
        BY <3>1, Constants DEF Slots
      <3>3. held[x].slot # i
        BY <1>7, <3>1, <3>2
      <3>4. nLru \in Nat /\ nLru' \in Nat /\ held[x].slot \in Nat
        BY <1>1, <1>4, <3>1, Constants DEF TypeOK
      <3>. QED  BY <1>4, <1>7, <3>1, <3>2, <3>3, <3>4
    <2>. QED  BY <1>8, <2>1 DEF IInv, HeldOk
  <1>13. Parts'
    <2>1. /\ need \cap DOMAIN held = {}
          /\ \A n \in DOMAIN misses : misses[n].eid \notin need \cup DOMAIN held
          /\ \A n, k \in DOMAIN misses : misses[n].eid = misses[k].eid => n = k
          /\ ~failed => \A x \in batch : \/ x \in need \cup DOMAIN held
                                         \/ \E n \in DOMAIN misses : misses[n].eid = x
          /\ DOMAIN held \subseteq batch /\ need \subseteq batch
          /\ \A n \in DOMAIN misses : misses[n].eid \in batch
      BY DEF IInv, Parts
    <2>2. need' \cap DOMAIN held' = {} /\ DOMAIN held' \subseteq batch' /\ need' \subseteq batch'
      BY <1>8, <2>1
    <2>3. \A n \in DOMAIN misses' : misses'[n].eid \notin need' \cup DOMAIN held' /\ misses'[n].eid \in batch'
      BY <1>2, <1>5, <1>6, <1>8, <2>1
    <2>4. \A n, k \in DOMAIN misses' : misses'[n].eid = misses'[k].eid => n = k
      BY <1>2, <1>5, <1>6, <2>1
    <2>5. ASSUME ~failed', NEW x \in batch'
          PROVE  x \in need' \cup DOMAIN held' \/ \E n \in DOMAIN misses' : misses'[n].eid = x
      <3>1. CASE x = e
        <4>1. N \in DOMAIN misses' /\ misses'[N].eid = x
          BY <1>5, <1>6, <3>1
        <4>. QED  BY <4>1
      <3>2. CASE x # e
        BY <1>6, <1>8, <2>1, <2>5, <3>2
      <3>. QED  BY <3>1, <3>2
    <2>. QED  BY <2>2, <2>3, <2>4, <2>5 DEF Parts
  <1>14. Stages'
    BY <1>8 DEF Stages
  <1>15. \A b \in Bufs : b # 0
    BY Constants DEF Bufs
  <1>16. Distinct'
    <2>. SUFFICES ASSUME NEW b \in Bufs
                  PROVE  /\ \A j, k \in Slots : slots'[j].buf = b /\ slots'[k].buf = b => j = k
                         /\ \A n, k \in DOMAIN misses' :
                                ReadOf(misses'[n]) = b /\ ReadOf(misses'[k]) = b => n = k
                         /\ \A x, f \in DOMAIN held :
                                held[x].owned /\ held[f].owned /\ held[x].buf = b /\ held[f].buf = b => x = f
                         /\ \A j \in Slots, n \in DOMAIN misses' :
                                ~(slots'[j].buf = b /\ ReadOf(misses'[n]) = b)
                         /\ \A j \in Slots, x \in DOMAIN held :
                                ~(slots'[j].buf = b /\ held[x].owned /\ held[x].buf = b)
                         /\ \A n \in DOMAIN misses', x \in DOMAIN held :
                                ~(ReadOf(misses'[n]) = b /\ held[x].owned /\ held[x].buf = b)
                         /\ b \in lost.bufs =>
                                /\ \A j \in Slots : slots'[j].buf # b
                                /\ \A n \in DOMAIN misses' : ReadOf(misses'[n]) # b
                                /\ \A x \in DOMAIN held : held[x].owned => held[x].buf # b
      BY <1>8 DEF Distinct
    <2>1. \A j \in Slots : slots'[j].buf = b => slots[j].buf = b /\ j # i
      BY <1>7, <1>15
    <2>2. \A n \in DOMAIN misses' : ReadOf(misses'[n]) = b =>
              \/ n \in DOMAIN misses /\ ReadOf(misses[n]) = b
              \/ n = N /\ i \in Slots /\ slots[i].buf = b
      BY <1>5, <1>6, <1>7, <1>15
    <2>. QED  BY <2>1, <2>2 DEF IInv, Distinct
  <1>17. NotFree'
    <2>1. ASSUME NEW b \in Bufs PROVE Owned(b)' <=> Owned(b)
      <3>1. ASSUME NEW j \in Slots, slots[j].buf = b PROVE Owned(b)'
        <4>1. CASE j = i
          <5>1. N \in DOMAIN misses' /\ ReadOf(misses'[N]) = b
            BY <1>5, <1>6, <1>7, <3>1, <4>1
          <5>. QED  BY <5>1 DEF Owned
        <4>2. CASE j # i
          BY <1>7, <3>1, <4>2 DEF Owned
        <4>. QED  BY <4>1, <4>2
      <3>2. ASSUME NEW n \in DOMAIN misses, ReadOf(misses[n]) = b PROVE Owned(b)'
        <4>1. n \in DOMAIN misses' /\ ReadOf(misses'[n]) = b
          BY <1>6, <3>2
        <4>. QED  BY <4>1 DEF Owned
      <3>3. ASSUME NEW j \in Slots, slots'[j].buf = b PROVE Owned(b)
        BY <1>7, <1>15, <3>3 DEF Owned
      <3>4. ASSUME NEW n \in DOMAIN misses', ReadOf(misses'[n]) = b PROVE Owned(b)
        BY <1>5, <1>6, <1>7, <1>15, <3>4 DEF Owned
      <3>5. Owned(b) => Owned(b)'
        BY <1>8, <3>1, <3>2 DEF Owned
      <3>6. Owned(b)' => Owned(b)
        BY <1>8, <3>3, <3>4 DEF Owned
      <3>. QED  BY <3>5, <3>6
    <2>. QED  BY <1>8, <2>1 DEF IInv, NotFree
  <1>. QED  BY <1>9, <1>10, <1>11, <1>12, <1>13, <1>14, <1>16, <1>17 DEF IInv

\* The workers write into buffers nobody else owns.
LEMMA FetchKeeps == ASSUME IInv, Fetch PROVE IInv'
  <1>1. /\ TypeOK /\ pc = "fetch" /\ misses \in Seq(Missed)
        /\ UNCHANGED <<lruVars, tierVars, pc, gen, batch, need, held, failed, lost>>
    BY SMTT(30) DEF IInv, Fetch, TypeOK
  <1>2. /\ slots' = slots /\ nLru' = nLru /\ lruOf' = lruOf /\ tier' = tier /\ tierOf' = tierOf
        /\ pc' = pc /\ gen' = gen /\ batch' = batch /\ need' = need /\ held' = held
        /\ failed' = failed /\ lost' = lost
    BY <1>1 DEF lruVars, tierVars
  <1>3. PICK n \in DOMAIN misses : misses[n].st = "todo" /\
          \E b \in Buffer(misses[n].reuse) :
            \/ /\ bufs' = [bufs EXCEPT ![b] = misses[n].eid]
               /\ misses' = [misses EXCEPT ![n].buf = b, ![n].st = "ok"]
            \/ /\ bufs' = [bufs EXCEPT ![b] = Junk]
               /\ misses' = [misses EXCEPT ![n].buf = b, ![n].st = "failed"]
            \/ /\ bufs' = Freed({b})
               /\ misses' = [misses EXCEPT ![n].st = "failed"]
    BY ZenonT(40) DEF Fetch
  <1>4. PICK b \in Buffer(misses[n].reuse) :
            \/ /\ bufs' = [bufs EXCEPT ![b] = misses[n].eid]
               /\ misses' = [misses EXCEPT ![n].buf = b, ![n].st = "ok"]
            \/ /\ bufs' = [bufs EXCEPT ![b] = Junk]
               /\ misses' = [misses EXCEPT ![n].buf = b, ![n].st = "failed"]
            \/ /\ bufs' = Freed({b})
               /\ misses' = [misses EXCEPT ![n].st = "failed"]
    BY <1>3
  <1>5. /\ misses[n] \in Missed /\ misses[n].eid \in Experts /\ misses[n].reuse \in 0 .. NBufs
        /\ misses[n].buf = 0 /\ ReadOf(misses[n]) = misses[n].reuse
    BY <1>1, <1>3, MissTypes DEF IInv, ReadsOk, ReadOf
  <1>6. b \in Bufs /\ b # 0 /\ (misses[n].reuse = b \/ (misses[n].reuse = 0 /\ bufs[b] = Free))
    BY <1>5, Constants DEF Buffer, Bufs
  \* Nobody else owns it.
  <1>7. /\ \A i \in Slots : slots[i].buf # b
        /\ \A k \in DOMAIN misses : k # n => ReadOf(misses[k]) # b
        /\ \A e \in DOMAIN held : held[e].owned => held[e].buf # b
        /\ b \notin lost.bufs
    <2>1. CASE misses[n].reuse = b
      BY <1>5, <1>6, <2>1 DEF IInv, Distinct
    <2>2. CASE misses[n].reuse = 0 /\ bufs[b] = Free
      BY <1>6, <2>2 DEF IInv, NotFree, Owned
    <2>. QED  BY <1>6, <2>1, <2>2
  <1>8. PICK v \in Experts \cup {Free, Junk}, c \in {0, b}, st \in {"ok", "failed"} :
            /\ bufs' = [bufs EXCEPT ![b] = v]
            /\ misses' = [misses EXCEPT ![n] = [@ EXCEPT !.buf = c, !.st = st]]
            /\ v # Free <=> c = b
            /\ st = "ok" => c = b /\ v = misses[n].eid
    <2>. DEFINE New(v, c, st) ==
            /\ bufs' = [bufs EXCEPT ![b] = v]
            /\ misses' = [misses EXCEPT ![n] = [@ EXCEPT !.buf = c, !.st = st]]
            /\ v # Free <=> c = b
            /\ st = "ok" => c = b /\ v = misses[n].eid
    <2>1. CASE /\ bufs' = [bufs EXCEPT ![b] = misses[n].eid]
               /\ misses' = [misses EXCEPT ![n].buf = b, ![n].st = "ok"]
      <3>1. New(misses[n].eid, b, "ok")
        BY <1>5, <2>1, Constants
      <3>. HIDE DEF New
      <3>2. \E v \in Experts \cup {Free, Junk}, c \in {0, b}, st \in {"ok", "failed"} : New(v, c, st)
        BY <1>5, <3>1
      <3>. QED  BY <3>2 DEF New
    <2>2. CASE /\ bufs' = [bufs EXCEPT ![b] = Junk]
               /\ misses' = [misses EXCEPT ![n].buf = b, ![n].st = "failed"]
      <3>1. New(Junk, b, "failed")
        BY <2>2, Constants
      <3>. HIDE DEF New
      <3>2. \E v \in Experts \cup {Free, Junk}, c \in {0, b}, st \in {"ok", "failed"} : New(v, c, st)
        BY <3>1
      <3>. QED  BY <3>2 DEF New
    <2>3. CASE bufs' = Freed({b}) /\ misses' = [misses EXCEPT ![n].st = "failed"]
      <3>1. bufs' = [bufs EXCEPT ![b] = Free]
        BY <1>1, <2>3 DEF Freed, TypeOK
      <3>2. misses' = [misses EXCEPT ![n] = [@ EXCEPT !.buf = 0, !.st = "failed"]]
        <4>1. [misses[n] EXCEPT !.buf = 0, !.st = "failed"] = [misses[n] EXCEPT !.st = "failed"]
          BY <1>5 DEF Missed
        <4>. QED  BY <2>3, <4>1
      <3>3. New(Free, 0, "failed")
        BY <1>6, <3>1, <3>2
      <3>. HIDE DEF New
      <3>4. \E v \in Experts \cup {Free, Junk}, c \in {0, b}, st \in {"ok", "failed"} : New(v, c, st)
        BY <3>3
      <3>. QED  BY <3>4 DEF New
    <2>. QED  BY <1>4, <2>1, <2>2, <2>3
  <1>9. /\ bufs' \in [Bufs -> Experts \cup {Free, Junk}] /\ bufs'[b] = v
        /\ \A x \in Bufs : x # b => bufs'[x] = bufs[x]
    BY <1>1, <1>6, <1>8 DEF TypeOK
  <1>10. /\ DOMAIN misses' = DOMAIN misses /\ misses' \in Seq(Missed)
         /\ \A k \in DOMAIN misses : k # n => misses'[k] = misses[k]
         /\ misses'[n].eid = misses[n].eid /\ misses'[n].slot = misses[n].slot
         /\ misses'[n].st = st /\ misses'[n].buf = c /\ ReadOf(misses'[n]) = c
    <2>. DEFINE r == [misses[n] EXCEPT !.buf = c, !.st = st]
    <2>1. c \in 0 .. NBufs
      BY <1>6, <1>8, Constants DEF Bufs
    <2>2. /\ r \in Missed /\ r.eid = misses[n].eid /\ r.slot = misses[n].slot
          /\ r.st = st /\ r.buf = c /\ ReadOf(r) = c
      BY <1>5, <2>1 DEF Missed, ReadOf
    <2>3. misses' = [misses EXCEPT ![n] = r]
      BY <1>8
    <2>. HIDE DEF r
    <2>. QED  BY <1>1, <2>2, <2>3
  <1>11. TypeOK'
    BY <1>1, <1>2, <1>9, <1>10 DEF TypeOK
  <1>12. \A i \in Slots : slots[i].buf # 0 => bufs'[slots[i].buf] = bufs[slots[i].buf]
    <2>1. \A i \in Slots : slots[i].buf # 0 => slots[i].buf \in Bufs
      BY <1>1, SlotTypes, Constants DEF Bufs
    <2>. QED  BY <1>7, <1>9, <2>1
  <1>13. SlotsOk'
    BY <1>2, <1>12 DEF IInv, SlotsOk
  <1>14. ReadsOk'
    <2>. SUFFICES ASSUME NEW k \in DOMAIN misses
                  PROVE  /\ misses'[k].st = "ok" =>
                                misses'[k].buf # 0 /\ bufs'[misses'[k].buf] = misses'[k].eid
                         /\ misses'[k].st = "todo" => misses'[k].buf = 0
                         /\ misses'[k].slot <= nLru
      BY <1>2, <1>10 DEF ReadsOk
    <2>1. CASE k = n
      BY <1>6, <1>8, <1>9, <1>10, <2>1 DEF IInv, ReadsOk
    <2>2. CASE k # n
      <3>1. misses'[k] = misses[k]
        BY <1>10, <2>2
      <3>2. misses[k].st = "ok" => misses[k].buf \in Bufs /\ misses[k].buf # b
        <4>. HAVE misses[k].st = "ok"
        <4>1. misses[k].buf # 0 /\ misses[k].buf \in 0 .. NBufs /\ ReadOf(misses[k]) = misses[k].buf
          BY <1>1, MissTypes DEF IInv, ReadsOk, ReadOf
        <4>. QED  BY <1>7, <2>2, <4>1, Constants DEF Bufs
      <3>. QED  BY <1>9, <3>1, <3>2 DEF IInv, ReadsOk
    <2>. QED  BY <2>1, <2>2
  <1>15. HeldOk'
    <2>1. ASSUME NEW e \in DOMAIN held, held[e].owned
          PROVE  bufs'[held[e].buf] = bufs[held[e].buf]
      <3>1. held[e].buf \in Bufs
        BY <1>1, <2>1, HeldTypes, Constants DEF IInv, HeldOk, Bufs
      <3>. QED  BY <1>7, <1>9, <2>1, <3>1
    <2>. QED  BY <1>2, <2>1 DEF IInv, HeldOk
  <1>16. \A k \in DOMAIN misses : misses'[k].eid = misses[k].eid
    BY <1>10
  <1>17. Parts'
    BY <1>2, <1>10, <1>16 DEF IInv, Parts
  <1>18. Stages'
    BY <1>1, <1>2 DEF IInv, Stages
  <1>19. \A k \in DOMAIN misses, x \in Bufs : ReadOf(misses'[k]) = x =>
             (k # n /\ x # b /\ ReadOf(misses[k]) = x) \/ (k = n /\ x = b)
    <2>1. 0 \notin Bufs
      BY Constants DEF Bufs
    <2>. QED  BY <1>7, <1>8, <1>10, <2>1
  <1>20. Distinct'
    BY <1>2, <1>7, <1>10, <1>19 DEF IInv, Distinct
  <1>21. NotFree'
    <2>. SUFFICES ASSUME NEW x \in Bufs PROVE Owned(x)' <=> bufs'[x] # Free
      BY DEF NotFree
    <2>1. CASE x = b
      <3>1. Owned(x)' <=> ReadOf(misses'[n]) = b
        BY <1>2, <1>7, <1>10, <2>1 DEF Owned
      <3>. QED  BY <1>6, <1>8, <1>9, <1>10, <2>1, <3>1
    <2>2. CASE x # b
      <3>1. ReadOf(misses[n]) # x
        <4>1. x # 0
          BY Constants DEF Bufs
        <4>. QED  BY <1>5, <1>6, <2>2, <4>1
      <3>2. Owned(x)' <=> Owned(x)
        BY <1>2, <1>10, <1>19, <2>2, <3>1 DEF Owned
      <3>. QED  BY <1>9, <2>2, <3>2 DEF IInv, NotFree
    <2>. QED  BY <2>1, <2>2
  <1>. QED  BY <1>11, <1>13, <1>14, <1>15, <1>17, <1>18, <1>20, <1>21 DEF IInv

\* The steps between the stages.
LEMMA FetchedKeeps == ASSUME IInv, Fetched \/ Resolved PROVE IInv'
  <1>1. /\ slots' = slots /\ nLru' = nLru /\ lruOf' = lruOf /\ tier' = tier /\ tierOf' = tierOf
        /\ bufs' = bufs /\ batch' = batch /\ need' = need /\ misses' = misses /\ held' = held
        /\ failed' = failed /\ lost' = lost
    BY DEF Fetched, Resolved, lruVars, tierVars, batchVars
  <1>2. gen' \in [Slots -> Nat] /\ pc' \in {"idle", "collect", "fetch", "commit", "held"}
    BY DEF IInv, TypeOK, Fetched, Resolved, batchVars
  <1>3. TypeOK'
    BY <1>1, <1>2 DEF IInv, TypeOK
  <1>4. Stages'
    BY <1>1 DEF IInv, Stages, Fetched, Resolved
  <1>5. SlotsOk' /\ ReadsOk'
    BY <1>1 DEF IInv, SlotsOk, ReadsOk
  <1>6. HeldOk'
    BY <1>1 DEF IInv, HeldOk
  <1>7. Parts'
    BY <1>1 DEF IInv, Parts
  <1>8. Distinct'
    BY <1>1 DEF IInv, Distinct
  <1>9. NotFree'
    BY <1>1 DEF IInv, NotFree, Owned
  <1>. QED  BY <1>3, <1>4, <1>5, <1>6, <1>7, <1>8, <1>9 DEF IInv

\* What the private copies of a batch are.
LEMMA Copies ==
    ASSUME IInv
    PROVE  \A e \in DOMAIN held : held[e].owned => held[e].buf \in Bufs
  BY HeldTypes, Constants DEF IInv, HeldOk, Bufs

\* The first miss is committed: into its slot, as a private copy, or not at all.
LEMMA CommitKeeps == ASSUME IInv, Commit PROVE IInv'
  <1>. DEFINE m == misses[1]
              o == slots[m.slot].buf
  <1>1. /\ TypeOK /\ misses \in Seq(Missed) /\ misses # <<>> /\ pc = "commit"
        /\ misses' = Tail(misses) /\ Head(misses) = m
        /\ CommitRead(m) \/ CommitFailed(m)
        /\ UNCHANGED <<nLru, tierVars, pc, gen, batch, need, lost>>
    BY DEF IInv, Commit, TypeOK
  <1>2. /\ nLru' = nLru /\ tier' = tier /\ tierOf' = tierOf /\ pc' = pc /\ gen' = gen
        /\ batch' = batch /\ need' = need /\ lost' = lost
    BY <1>1 DEF tierVars
  <1>3. /\ 1 \in DOMAIN misses /\ misses' \in Seq(Missed)
        /\ \A k \in DOMAIN misses' : /\ k + 1 \in DOMAIN misses /\ k + 1 # 1 /\ k \in Nat
                                     /\ misses'[k] = misses[k + 1]
        /\ \A k \in DOMAIN misses : k = 1 \/ (k - 1 \in DOMAIN misses' /\ misses'[k - 1] = misses[k])
    <2>1. Len(misses) \in Nat \ {0} /\ DOMAIN misses = 1 .. Len(misses)
      BY <1>1, EmptySeq
    <2>2. /\ Tail(misses) \in Seq(Missed) /\ Len(Tail(misses)) = Len(misses) - 1
          /\ \A k \in 1 .. Len(Tail(misses)) : Tail(misses)[k] = misses[k + 1]
      BY <1>1, HeadTailProperties
    <2>3. DOMAIN misses' = 1 .. Len(misses) - 1
      BY <1>1, <2>2
    <2>. QED  BY <1>1, <2>1, <2>2, <2>3
  <1>4. /\ m \in Missed /\ m.eid \in Experts /\ m.slot \in 0 .. NSlots /\ m.buf \in 0 .. NBufs
        /\ m.slot <= nLru /\ m.st # "todo" /\ ReadOf(m) = m.buf
        /\ m.eid \notin need \cup DOMAIN held /\ m.eid \in batch
    <2>1. m.st # "todo"
      BY <1>1 DEF CommitRead, CommitFailed
    <2>. QED  BY <1>1, <1>3, <2>1, MissTypes DEF IInv, Parts, ReadsOk, ReadOf
  <1>5. m.st = "ok" => m.buf \in Bufs /\ bufs[m.buf] = m.eid
    BY <1>3, <1>4, Constants DEF IInv, ReadsOk, Bufs
  \* Nobody else owns the miss's buffer.
  <1>6. \A b \in Bufs : m.buf = b =>
            /\ \A i \in Slots : slots[i].buf # b
            /\ \A k \in DOMAIN misses' : ReadOf(misses'[k]) # b
            /\ \A e \in DOMAIN held : held[e].owned => held[e].buf # b
            /\ b \notin lost.bufs
    BY <1>3, <1>4 DEF IInv, Distinct
  \* What is left of the reads.
  <1>7. /\ \A k \in DOMAIN misses' :
               /\ misses'[k].st = "ok" => misses'[k].buf \in Bufs /\ misses'[k].buf # m.buf
                                          /\ bufs[misses'[k].buf] = misses'[k].eid
               /\ misses'[k].st = "ok" => misses'[k].buf # 0 /\ ReadOf(misses'[k]) = misses'[k].buf
               /\ misses'[k].st = "todo" => misses'[k].buf = 0
               /\ misses'[k].slot <= nLru
    <2>1. \A k \in DOMAIN misses :
               /\ misses[k].st = "ok" => misses[k].buf \in Bufs /\ misses[k].buf # 0
                                         /\ bufs[misses[k].buf] = misses[k].eid
                                         /\ ReadOf(misses[k]) = misses[k].buf
               /\ misses[k].st = "todo" => misses[k].buf = 0
               /\ misses[k].slot <= nLru
      BY <1>1, MissTypes, Constants DEF IInv, ReadsOk, ReadOf, Bufs
    <2>. QED  BY <1>3, <1>6, <2>1
  \* Its slot, if it is still its own and nobody uses it, is not one that is held.
  <1>8. m.slot # 0 => m.slot \in Slots /\ o \in 0 .. NBufs
    <2>1. m.slot # 0 => m.slot \in Slots
      BY <1>4, Constants DEF Slots
    <2>. QED  BY <1>1, <2>1, SlotTypes
  <1>9. \A e \in DOMAIN held : held[e].tier = 0 /\ ~held[e].owned =>
            /\ held[e].slot \in Slots /\ (slots[m.slot].inuse = 0 => held[e].slot # m.slot)
    <2>1. ASSUME NEW e \in DOMAIN held, held[e].tier = 0, ~held[e].owned
          PROVE  held[e].slot \in Slots /\ slots[held[e].slot].inuse > 0
      <3>1. held[e].slot # 0 /\ held[e].slot \in 0 .. NSlots
        BY <1>1, <2>1, HeldTypes DEF IInv, HeldOk
      <3>. QED  BY <2>1, <3>1, Constants DEF IInv, HeldOk, Slots
    <2>. QED  BY <2>1
  <1>10. \A b \in Bufs : b # 0
    BY Constants DEF Bufs
  <1>11. Stages'
    <2>1. pc' = "commit" /\ need' = need /\ need = {}
      BY <1>1, <1>2 DEF IInv, Stages
    <2>. QED  BY <2>1 DEF Stages
  <1>12. /\ bufs \in [Bufs -> Experts \cup {Free, Junk}] /\ slots \in [Slots -> Slot]
         /\ DOMAIN held \subseteq Experts /\ held \in [DOMAIN held -> Copy]
         /\ lruOf \in [Experts -> 0 .. NSlots]
    BY <1>1 DEF TypeOK
  <1>13. \A F : /\ Freed(F) \in [Bufs -> Experts \cup {Free, Junk}]
                /\ \A b \in Bufs : Freed(F)[b] = IF b \in F THEN Free ELSE bufs[b]
    BY <1>12 DEF Freed
  <1>14. Unmapped(m.slot) \in [Experts -> 0 .. NSlots]
    BY <1>12, Constants DEF Unmapped
  <1>. DEFINE own == [tier |-> 0, slot |-> 0, buf |-> m.buf, owned |-> TRUE]
              got == [tier |-> 0, slot |-> m.slot, buf |-> m.buf, owned |-> FALSE]
  <1>15. own \in Copy /\ got \in Copy
    BY <1>4, Constants DEF Copy
  <1>16. ASSUME NEW c, c \in Copy, failed' = failed, m.st = "ok",
                held' = [e \in DOMAIN held \cup {m.eid} |-> IF e = m.eid THEN c ELSE held[e]]
         PROVE  /\ DOMAIN held' = DOMAIN held \cup {m.eid} /\ held'[m.eid] = c
                /\ \A e \in DOMAIN held : e # m.eid /\ held'[e] = held[e]
                /\ held' \in [DOMAIN held' -> Copy] /\ DOMAIN held' \subseteq Experts
                /\ Parts'
    <2>1. /\ DOMAIN held' = DOMAIN held \cup {m.eid} /\ held'[m.eid] = c
          /\ \A e \in DOMAIN held : e # m.eid /\ held'[e] = held[e]
      BY <1>4, <1>16
    <2>2. held' \in [DOMAIN held' -> Copy] /\ DOMAIN held' \subseteq Experts
      BY <1>4, <1>12, <1>16, <2>1
    <2>3. \A k \in DOMAIN misses' : misses'[k].eid \notin need \cup DOMAIN held'
                                    /\ misses'[k].eid \in batch
      BY <1>3, <2>1 DEF IInv, Parts
    <2>4. \A n, k \in DOMAIN misses' : misses'[n].eid = misses'[k].eid => n = k
      <3>. SUFFICES ASSUME NEW n \in DOMAIN misses', NEW k \in DOMAIN misses',
                           misses'[n].eid = misses'[k].eid
                    PROVE  n = k
        OBVIOUS
      <3>1. n + 1 = k + 1
        BY <1>3 DEF IInv, Parts
      <3>. QED  BY <1>3, <3>1
    <2>5. ASSUME ~failed, NEW e \in batch, e \notin need \cup DOMAIN held'
          PROVE  \E n \in DOMAIN misses' : misses'[n].eid = e
      <3>1. PICK n \in DOMAIN misses : misses[n].eid = e
        BY <2>1, <2>5 DEF IInv, Parts
      <3>2. n # 1
        BY <2>1, <2>5, <3>1
      <3>. QED  BY <1>3, <3>1, <3>2
    <2>6. need \cap DOMAIN held' = {} /\ DOMAIN held' \subseteq batch /\ need \subseteq batch
      BY <1>4, <2>1 DEF IInv, Parts
    <2>7. Parts'
      BY <1>2, <1>16, <2>3, <2>4, <2>5, <2>6 DEF Parts
    <2>. QED  BY <2>1, <2>2, <2>7
  <1>17. ASSUME failed' = TRUE, held' = held PROVE Parts'
    <2>1. \A k \in DOMAIN misses' : misses'[k].eid \notin need \cup DOMAIN held
                                    /\ misses'[k].eid \in batch
      BY <1>3 DEF IInv, Parts
    <2>2. \A n, k \in DOMAIN misses' : misses'[n].eid = misses'[k].eid => n = k
      <3>. SUFFICES ASSUME NEW n \in DOMAIN misses', NEW k \in DOMAIN misses',
                           misses'[n].eid = misses'[k].eid
                    PROVE  n = k
        OBVIOUS
      <3>1. n + 1 = k + 1
        BY <1>3 DEF IInv, Parts
      <3>. QED  BY <1>3, <3>1
    <2>. QED  BY <1>2, <1>17, <2>1, <2>2 DEF IInv, Parts
  \* Other reads have buffers of their own.
  <1>18. \A b \in Bufs : \A n, k \in DOMAIN misses' :
             ReadOf(misses'[n]) = b /\ ReadOf(misses'[k]) = b => n = k
    <2>. SUFFICES ASSUME NEW b \in Bufs, NEW n \in DOMAIN misses', NEW k \in DOMAIN misses',
                         ReadOf(misses'[n]) = b, ReadOf(misses'[k]) = b
                  PROVE  n = k
      OBVIOUS
    <2>1. n + 1 = k + 1
      BY <1>3 DEF IInv, Distinct
    <2>. QED  BY <1>3, <2>1
  <1>19. \A b \in Bufs : (\E n \in DOMAIN misses : ReadOf(misses[n]) = b) <=>
             (m.buf = b \/ \E n \in DOMAIN misses' : ReadOf(misses'[n]) = b)
    BY <1>3, <1>4
  <1>20. \A b \in Bufs : \A n \in DOMAIN misses' : ReadOf(misses'[n]) = b =>
             /\ \A i \in Slots : slots[i].buf # b
             /\ \A e \in DOMAIN held : held[e].owned => held[e].buf # b
             /\ b \notin lost.bufs
    BY <1>3 DEF IInv, Distinct
  <1>21. \A b \in Bufs :
             /\ \A i, j \in Slots : slots[i].buf = b /\ slots[j].buf = b => i = j
             /\ \A i \in Slots, e \in DOMAIN held : ~(slots[i].buf = b /\ held[e].owned /\ held[e].buf = b)
             /\ \A e, f \in DOMAIN held :
                    held[e].owned /\ held[f].owned /\ held[e].buf = b /\ held[f].buf = b => e = f
             /\ b \in lost.bufs => /\ \A i \in Slots : slots[i].buf # b
                                   /\ \A e \in DOMAIN held : held[e].owned => held[e].buf # b
    BY DEF IInv, Distinct
  <1>22. \A i \in Slots : slots[i].buf # 0 => slots[i].buf \in Bufs
    BY <1>1, SlotTypes, Constants DEF Bufs
  <1>23. \A e \in DOMAIN held : held[e].owned => held[e].buf \in Bufs /\ bufs[held[e].buf] = e
    BY Copies DEF IInv, HeldOk
  <1>. HIDE DEF m, o, own, got
  \* The slot is filled and the buffer it had is freed.
  <1>24. ASSUME CommitRead(m), StillMine(m), slots[m.slot].inuse = 0
         PROVE  IInv'
    <2>. DEFINE full == [eid |-> m.eid, ready |-> TRUE, inuse |-> 1, buf |-> m.buf]
    <2>1. /\ slots' = [slots EXCEPT ![m.slot] = full] /\ bufs' = Freed({o})
          /\ lruOf' = lruOf /\ failed' = failed /\ m.st = "ok"
          /\ held' = [e \in DOMAIN held \cup {m.eid} |-> IF e = m.eid THEN got ELSE held[e]]
          /\ m.slot \in Slots /\ m.slot # 0
      BY <1>8, <1>24 DEF CommitRead, CopyHeld, got, StillMine, o
    <2>2. /\ DOMAIN held' = DOMAIN held \cup {m.eid} /\ held'[m.eid] = got
          /\ \A e \in DOMAIN held : e # m.eid /\ held'[e] = held[e]
          /\ held' \in [DOMAIN held' -> Copy] /\ DOMAIN held' \subseteq Experts
          /\ Parts'
      BY <1>15, <1>16, <2>1
    <2>3. /\ got.tier = 0 /\ got.slot = m.slot /\ got.buf = m.buf /\ got.owned = FALSE
          /\ m.buf \in Bufs /\ m.buf # 0 /\ bufs[m.buf] = m.eid
      BY <1>5, <1>10, <2>1 DEF got
    <2>4. /\ full \in Slot /\ full.eid = m.eid /\ full.ready = TRUE /\ full.inuse = 1 /\ full.buf = m.buf
      BY <1>4 DEF Slot
    <2>. HIDE DEF full
    <2>5. /\ slots' \in [Slots -> Slot] /\ slots'[m.slot] = full
          /\ \A j \in Slots : j # m.slot => slots'[j] = slots[j]
      BY <1>12, <2>1, <2>4
    <2>6. /\ bufs' \in [Bufs -> Experts \cup {Free, Junk}]
          /\ \A b \in Bufs : bufs'[b] = IF b = o THEN Free ELSE bufs[b]
      BY <1>13, <2>1
    \* The buffer of the slot is its own.
    <2>7. \A b \in Bufs : o = b =>
              /\ b # m.buf /\ \A j \in Slots : j # m.slot => slots[j].buf # b
              /\ \A k \in DOMAIN misses' : ReadOf(misses'[k]) # b
              /\ \A e \in DOMAIN held : held[e].owned => held[e].buf # b
              /\ b \notin lost.bufs
      BY <1>6, <1>20, <1>21, <2>1 DEF o
    <2>8. TypeOK'
      BY <1>1, <1>2, <1>3, <2>1, <2>2, <2>5, <2>6 DEF TypeOK
    <2>9. SlotsOk'
      <3>. SUFFICES ASSUME NEW j \in Slots
                    PROVE  /\ slots'[j].ready /\ slots'[j].eid # None =>
                                  slots'[j].buf # 0 /\ bufs'[slots'[j].buf] = slots'[j].eid
                           /\ ~slots'[j].ready => slots'[j].inuse = 0
                           /\ j > nLru => slots'[j].inuse = 0
        BY <1>2 DEF SlotsOk
      <3>1. CASE j = m.slot
        <4>1. ~(j > nLru)
          <5>1. j \in Nat /\ nLru \in Nat
            BY <1>1, Constants DEF TypeOK, Slots
          <5>. QED  BY <1>4, <3>1, <5>1
        <4>2. bufs'[m.buf] = m.eid
          BY <2>3, <2>6, <2>7
        <4>. QED  BY <2>3, <2>4, <2>5, <3>1, <4>1, <4>2
      <3>2. CASE j # m.slot
        <4>1. slots'[j] = slots[j]
          BY <2>5, <3>2
        <4>2. slots[j].buf # 0 => bufs'[slots[j].buf] = bufs[slots[j].buf]
          BY <1>22, <2>6, <2>7, <3>2
        <4>. QED  BY <4>1, <4>2 DEF IInv, SlotsOk
      <3>. QED  BY <3>1, <3>2
    <2>10. ReadsOk'
      BY <1>2, <1>7, <2>6, <2>7 DEF ReadsOk
    <2>11. HeldOk'
      <3>. SUFFICES ASSUME NEW e \in DOMAIN held'
                    PROVE  /\ held'[e].tier # 0 => tier[held'[e].tier].eid = e /\ ~held'[e].owned
                           /\ held'[e].tier = 0 /\ ~held'[e].owned =>
                                  /\ held'[e].slot # 0 /\ held'[e].slot <= nLru
                                  /\ slots'[held'[e].slot].ready
                                  /\ slots'[held'[e].slot].eid = e
                                  /\ slots'[held'[e].slot].buf = held'[e].buf
                                  /\ slots'[held'[e].slot].inuse > 0
                           /\ held'[e].owned => held'[e].buf # 0 /\ bufs'[held'[e].buf] = e
        BY <1>2 DEF HeldOk
      <3>1. CASE e = m.eid
        BY <1>4, <2>1, <2>2, <2>3, <2>4, <2>5, <3>1
      <3>2. CASE e \in DOMAIN held
        <4>1. held'[e] = held[e]
          BY <2>2, <3>2
        <4>2. held[e].tier = 0 /\ ~held[e].owned => slots'[held[e].slot] = slots[held[e].slot]
          BY <1>9, <1>24, <2>5, <3>2
        <4>3. held[e].owned => bufs'[held[e].buf] = bufs[held[e].buf]
          BY <1>23, <2>6, <2>7, <3>2
        <4>. QED  BY <3>2, <4>1, <4>2, <4>3 DEF IInv, HeldOk
      <3>. QED  BY <2>2, <3>1, <3>2
    \* Who owns a buffer now, owned it before; the miss's is the slot's.
    <2>12. \A b \in Bufs, j \in Slots : slots'[j].buf = b =>
               \/ j = m.slot /\ b = m.buf
               \/ j # m.slot /\ slots[j].buf = b /\ b # m.buf
      BY <1>6, <2>4, <2>5
    <2>13. \A e \in DOMAIN held' : held'[e].owned => e \in DOMAIN held /\ held'[e] = held[e]
      BY <2>2, <2>3
    <2>14. Distinct'
      <3>. SUFFICES ASSUME NEW b \in Bufs
             PROVE /\ \A i, j \in Slots : slots'[i].buf = b /\ slots'[j].buf = b => i = j
                   /\ \A n, k \in DOMAIN misses' : ReadOf(misses'[n]) = b /\ ReadOf(misses'[k]) = b => n = k
                   /\ \A e, f \in DOMAIN held' :
                          held'[e].owned /\ held'[f].owned /\ held'[e].buf = b /\ held'[f].buf = b => e = f
                   /\ \A i \in Slots, n \in DOMAIN misses' : ~(slots'[i].buf = b /\ ReadOf(misses'[n]) = b)
                   /\ \A i \in Slots, e \in DOMAIN held' :
                          ~(slots'[i].buf = b /\ held'[e].owned /\ held'[e].buf = b)
                   /\ \A n \in DOMAIN misses', e \in DOMAIN held' :
                          ~(ReadOf(misses'[n]) = b /\ held'[e].owned /\ held'[e].buf = b)
                   /\ b \in lost.bufs => /\ \A i \in Slots : slots'[i].buf # b
                                         /\ \A n \in DOMAIN misses' : ReadOf(misses'[n]) # b
                                         /\ \A e \in DOMAIN held' : held'[e].owned => held'[e].buf # b
        BY <1>2 DEF Distinct
      <3>1. \A i, j \in Slots : slots'[i].buf = b /\ slots'[j].buf = b => i = j
        BY <1>21, <2>12
      <3>2. \A i \in Slots, n \in DOMAIN misses' : ~(slots'[i].buf = b /\ ReadOf(misses'[n]) = b)
        BY <1>6, <1>20, <2>12
      <3>3. \A i \in Slots, e \in DOMAIN held' :
                ~(slots'[i].buf = b /\ held'[e].owned /\ held'[e].buf = b)
        BY <1>6, <1>21, <2>12, <2>13
      <3>4. b \in lost.bufs => \A i \in Slots : slots'[i].buf # b
        BY <1>6, <1>21, <2>12
      <3>. QED  BY <1>18, <1>20, <1>21, <2>13, <3>1, <3>2, <3>3, <3>4
    <2>15. NotFree'
      <3>. SUFFICES ASSUME NEW b \in Bufs PROVE Owned(b)' <=> bufs'[b] # Free
        BY DEF NotFree
      <3>1. (\E e \in DOMAIN held' : held'[e].owned /\ held'[e].buf = b) <=>
                (\E e \in DOMAIN held : held[e].owned /\ held[e].buf = b)
        BY <2>2, <2>13
      <3>2. CASE b = m.buf
        <4>1. slots'[m.slot].buf = b
          BY <2>4, <2>5, <3>2
        <4>2. Owned(b)'
          BY <2>1, <4>1 DEF Owned
        <4>3. bufs'[b] # Free
          BY <1>4, <2>3, <2>6, <2>7, <3>2, Constants
        <4>. QED  BY <4>2, <4>3
      <3>3. CASE b # m.buf /\ b = o
        <4>1. ~Owned(b)'
          BY <1>2, <2>7, <2>12, <3>1, <3>3 DEF Owned
        <4>. QED  BY <2>6, <3>3, <4>1
      <3>4. CASE b # m.buf /\ b # o
        <4>1. (\E j \in Slots : slots'[j].buf = b) <=> (\E j \in Slots : slots[j].buf = b)
          BY <2>1, <2>4, <2>5, <3>4 DEF o
        <4>2. Owned(b)' <=> Owned(b)
          BY <1>2, <1>19, <3>1, <3>4, <4>1 DEF Owned
        <4>. QED  BY <2>6, <3>4, <4>2 DEF IInv, NotFree
      <3>. QED  BY <3>2, <3>3, <3>4
    <2>. QED  BY <1>11, <2>2, <2>8, <2>9, <2>10, <2>11, <2>14, <2>15 DEF IInv
  <1>25. ASSUME CommitRead(m), ~(StillMine(m) /\ slots[m.slot].inuse = 0)
         PROVE  IInv'
    <2>1. /\ slots' = slots /\ bufs' = bufs /\ lruOf' = lruOf /\ failed' = failed /\ m.st = "ok"
          /\ held' = [e \in DOMAIN held \cup {m.eid} |-> IF e = m.eid THEN own ELSE held[e]]
      BY <1>25 DEF CommitRead, CopyHeld, own
    <2>2. /\ DOMAIN held' = DOMAIN held \cup {m.eid} /\ held'[m.eid] = own
          /\ \A e \in DOMAIN held : e # m.eid /\ held'[e] = held[e]
          /\ held' \in [DOMAIN held' -> Copy] /\ DOMAIN held' \subseteq Experts
          /\ Parts'
      BY <1>15, <1>16, <2>1
    <2>3. TypeOK'
      BY <1>1, <1>2, <1>3, <2>1, <2>2 DEF TypeOK
    <2>4. SlotsOk'
      BY <1>2, <2>1 DEF IInv, SlotsOk
    <2>5. ReadsOk'
      BY <1>2, <1>7, <2>1 DEF ReadsOk
    <2>6. own.tier = 0 /\ own.owned = TRUE /\ own.buf = m.buf /\ m.buf # 0 /\ m.buf \in Bufs
      BY <1>5, <1>10, <2>1 DEF own
    <2>7. HeldOk'
      BY <1>2, <1>5, <2>1, <2>2, <2>6 DEF IInv, HeldOk
    <2>8. Distinct'
      BY <1>2, <1>6, <1>18, <1>20, <1>21, <2>1, <2>2, <2>6 DEF Distinct
    <2>9. \A b \in Bufs : Owned(b)' <=> Owned(b)
      <3>1. ASSUME NEW b \in Bufs
            PROVE  (\E e \in DOMAIN held' : held'[e].owned /\ held'[e].buf = b) <=>
                       (b = m.buf \/ \E e \in DOMAIN held : held[e].owned /\ held[e].buf = b)
        BY <2>2, <2>6
      <3>. QED  BY <1>2, <1>19, <2>1, <3>1 DEF Owned
    <2>10. NotFree'
      BY <2>1, <2>9 DEF IInv, NotFree
    <2>. QED  BY <1>11, <2>2, <2>3, <2>4, <2>5, <2>7, <2>8, <2>10 DEF IInv
  \* The slot is emptied, and both buffers are freed.
  <1>26. ASSUME CommitFailed(m), StillMine(m), slots[m.slot].inuse = 0
         PROVE  IInv'
    <2>. DEFINE empty == [eid |-> None, ready |-> TRUE, inuse |-> 0, buf |-> 0]
    <2>1. /\ slots' = [slots EXCEPT ![m.slot] = empty] /\ bufs' = Freed({m.buf, o})
          /\ lruOf' = Unmapped(m.slot) /\ failed' = TRUE /\ held' = held
          /\ m.slot \in Slots /\ m.slot # 0
      BY <1>8, <1>26 DEF CommitFailed, StillMine, o
    <2>2. empty \in Slot /\ empty.eid = None /\ empty.ready = TRUE /\ empty.inuse = 0 /\ empty.buf = 0
      BY Constants DEF Slot
    <2>. HIDE DEF empty
    <2>3. /\ slots' \in [Slots -> Slot] /\ slots'[m.slot] = empty
          /\ \A j \in Slots : j # m.slot => slots'[j] = slots[j]
      BY <1>12, <2>1, <2>2
    <2>4. /\ bufs' \in [Bufs -> Experts \cup {Free, Junk}]
          /\ \A b \in Bufs : bufs'[b] = IF b = m.buf \/ b = o THEN Free ELSE bufs[b]
      BY <1>13, <2>1
    <2>5. \A b \in Bufs : o = b \/ m.buf = b =>
              /\ \A j \in Slots : j # m.slot => slots[j].buf # b
              /\ \A k \in DOMAIN misses' : ReadOf(misses'[k]) # b
              /\ \A e \in DOMAIN held : held[e].owned => held[e].buf # b
              /\ b \notin lost.bufs
      BY <1>6, <1>20, <1>21, <2>1 DEF o
    <2>6. TypeOK'
      BY <1>1, <1>2, <1>3, <1>14, <2>1, <2>3, <2>4 DEF TypeOK
    <2>7. SlotsOk'
      <3>. SUFFICES ASSUME NEW j \in Slots
                    PROVE  /\ slots'[j].ready /\ slots'[j].eid # None =>
                                  slots'[j].buf # 0 /\ bufs'[slots'[j].buf] = slots'[j].eid
                           /\ ~slots'[j].ready => slots'[j].inuse = 0
                           /\ j > nLru => slots'[j].inuse = 0
        BY <1>2 DEF SlotsOk
      <3>1. CASE j = m.slot
        BY <2>2, <2>3, <3>1
      <3>2. CASE j # m.slot
        <4>1. slots'[j] = slots[j]
          BY <2>3, <3>2
        <4>2. slots[j].buf # 0 => bufs'[slots[j].buf] = bufs[slots[j].buf]
          BY <1>22, <2>4, <2>5, <3>2
        <4>. QED  BY <4>1, <4>2 DEF IInv, SlotsOk
      <3>. QED  BY <3>1, <3>2
    <2>8. ReadsOk'
      BY <1>2, <1>7, <2>4, <2>5 DEF ReadsOk
    <2>9. HeldOk'
      <3>1. \A e \in DOMAIN held : held[e].tier = 0 /\ ~held[e].owned =>
                slots'[held[e].slot] = slots[held[e].slot]
        BY <1>9, <1>26, <2>3
      <3>2. \A e \in DOMAIN held : held[e].owned => bufs'[held[e].buf] = bufs[held[e].buf]
        BY <1>23, <2>4, <2>5
      <3>3. ASSUME NEW e \in DOMAIN held
            PROVE  /\ held[e].tier # 0 => tier[held[e].tier].eid = e /\ ~held[e].owned
                   /\ held[e].tier = 0 /\ ~held[e].owned =>
                          /\ held[e].slot # 0 /\ held[e].slot <= nLru
                          /\ slots'[held[e].slot].ready
                          /\ slots'[held[e].slot].eid = e
                          /\ slots'[held[e].slot].buf = held[e].buf
                          /\ slots'[held[e].slot].inuse > 0
                   /\ held[e].owned => held[e].buf # 0 /\ bufs'[held[e].buf] = e
        BY <3>1, <3>2 DEF IInv, HeldOk
      <3>. QED  BY ZenonT(60), <1>2, <2>1, <3>3 DEF HeldOk
    <2>10. \A b \in Bufs, j \in Slots : slots'[j].buf = b =>
               j # m.slot /\ slots[j].buf = b /\ b # m.buf /\ b # o
      BY <1>10, <2>2, <2>3, <2>5
    <2>11. Distinct'
      BY <1>2, <1>18, <1>20, <1>21, <2>1, <2>10 DEF Distinct
    <2>12. NotFree'
      <3>. SUFFICES ASSUME NEW b \in Bufs PROVE Owned(b)' <=> bufs'[b] # Free
        BY DEF NotFree
      <3>1. CASE b = m.buf \/ b = o
        <4>1. ~Owned(b)'
          BY <1>2, <2>1, <2>5, <2>10, <3>1 DEF Owned
        <4>. QED  BY <2>4, <3>1, <4>1
      <3>2. CASE b # m.buf /\ b # o
        <4>1. (\E j \in Slots : slots'[j].buf = b) <=> (\E j \in Slots : slots[j].buf = b)
          BY <2>1, <2>3, <2>10, <3>2 DEF o
        <4>2. Owned(b)' <=> Owned(b)
          BY <1>2, <1>19, <2>1, <3>2, <4>1 DEF Owned
        <4>. QED  BY <2>4, <3>2, <4>2 DEF IInv, NotFree
      <3>. QED  BY <3>1, <3>2
    <2>. QED  BY <1>11, <1>17, <2>1, <2>6, <2>7, <2>8, <2>9, <2>11, <2>12 DEF IInv
  <1>27. ASSUME CommitFailed(m), ~(StillMine(m) /\ slots[m.slot].inuse = 0)
         PROVE  IInv'
    <2>1. /\ bufs' = Freed({m.buf}) /\ lruOf' = lruOf /\ failed' = TRUE /\ held' = held
          /\ slots' = slots \/ (StillMine(m) /\ slots[m.slot].inuse # 0
                                /\ slots' = [slots EXCEPT ![m.slot].ready = TRUE])
      BY <1>27 DEF CommitFailed
    <2>2. slots' = slots
      <3>. SUFFICES ASSUME StillMine(m), slots[m.slot].inuse # 0,
                           slots' = [slots EXCEPT ![m.slot].ready = TRUE]
                    PROVE  slots' = slots
        BY <2>1
      <3>1. m.slot \in Slots
        BY <1>8 DEF StillMine
      <3>2. slots[m.slot] \in Slot /\ slots[m.slot].ready = TRUE
        BY <1>1, <3>1, SlotTypes DEF IInv, SlotsOk
      <3>3. [slots[m.slot] EXCEPT !.ready = TRUE] = slots[m.slot]
        BY <3>2 DEF Slot
      <3>. QED  BY <1>12, <3>1, <3>3
    <2>3. /\ bufs' \in [Bufs -> Experts \cup {Free, Junk}]
          /\ \A b \in Bufs : bufs'[b] = IF b = m.buf THEN Free ELSE bufs[b]
      BY <1>13, <2>1
    <2>4. TypeOK'
      BY <1>1, <1>2, <1>3, <2>1, <2>2, <2>3 DEF TypeOK
    <2>5. SlotsOk'
      <3>1. \A i \in Slots : slots[i].buf # 0 => bufs'[slots[i].buf] = bufs[slots[i].buf]
        BY <1>6, <1>22, <2>3
      <3>. QED  BY <1>2, <2>2, <3>1 DEF IInv, SlotsOk
    <2>6. ReadsOk'
      BY <1>2, <1>7, <2>3 DEF ReadsOk
    <2>7. HeldOk'
      <3>1. \A e \in DOMAIN held : held[e].owned => bufs'[held[e].buf] = bufs[held[e].buf]
        BY <1>6, <1>23, <2>3
      <3>. QED  BY <1>2, <2>1, <2>2, <3>1 DEF IInv, HeldOk
    <2>8. Distinct'
      BY <1>2, <1>18, <1>20, <1>21, <2>1, <2>2 DEF Distinct
    <2>9. NotFree'
      <3>. SUFFICES ASSUME NEW b \in Bufs PROVE Owned(b)' <=> bufs'[b] # Free
        BY DEF NotFree
      <3>1. b # m.buf => (Owned(b)' <=> Owned(b))
        BY <1>2, <1>19, <2>1, <2>2 DEF Owned
      <3>2. b = m.buf => ~Owned(b)'
        BY <1>2, <1>6, <2>1, <2>2 DEF Owned
      <3>. QED  BY <2>3, <3>1, <3>2 DEF IInv, NotFree
    <2>. QED  BY <1>11, <1>17, <2>1, <2>4, <2>5, <2>6, <2>7, <2>8, <2>9 DEF IInv
  <1>. QED  BY <1>1, <1>24, <1>25, <1>26, <1>27

\* Nobody gives back what a batch that failed held.
LEMMA FailsKeeps == ASSUME IInv, Fails PROVE IInv'
  <1>. DEFINE C == {held[e].buf : e \in {x \in DOMAIN held : held[x].owned}}
  <1>1. /\ TypeOK /\ slots' = slots /\ nLru' = nLru /\ lruOf' = lruOf /\ tier' = tier /\ tierOf' = tierOf
        /\ bufs' = bufs /\ misses' = misses /\ misses = <<>> /\ DOMAIN misses = {}
        /\ need' = need /\ need = {} /\ batch' = {} /\ held' = <<>> /\ DOMAIN held' = {}
        /\ failed' = FALSE /\ pc' = "idle" /\ gen' = [i \in Slots |-> 0]
        /\ lost'.bufs = lost.bufs \cup C
    BY DEF IInv, Stages, Fails, lruVars, tierVars
  <1>2. C \subseteq Bufs
    BY Copies
  <1>3. \A b \in Bufs : b \in C <=> \E e \in DOMAIN held : held[e].owned /\ held[e].buf = b
    OBVIOUS
  <1>. HIDE DEF C
  <1>4. TypeOK'
    <2>1. gen' \in [Slots -> Nat]
      BY <1>1
    <2>2. held' \in [DOMAIN held' -> Copy] /\ DOMAIN held' \subseteq Experts
      BY <1>1
    <2>3. lost'.bufs \subseteq Bufs /\ misses' \in Seq(Missed)
      BY <1>1, <1>2 DEF TypeOK
    <2>4. /\ pc' \in {"idle", "collect", "fetch", "commit", "held"} /\ failed' \in BOOLEAN
          /\ batch' \subseteq Experts /\ need' \subseteq Experts
      BY <1>1
    <2>. QED  BY <1>1, <2>1, <2>2, <2>3, <2>4 DEF TypeOK
  <1>5. SlotsOk' /\ ReadsOk' /\ HeldOk'
    BY <1>1 DEF IInv, SlotsOk, ReadsOk, HeldOk
  <1>6. Parts' /\ Stages'
    BY <1>1 DEF Parts, Stages
  <1>7. Distinct'
    BY <1>1, <1>3 DEF IInv, Distinct
  <1>8. NotFree'
    <2>1. \A b \in Bufs : Owned(b)' <=> Owned(b)
      BY <1>1, <1>3 DEF Owned
    <2>. QED  BY <1>1, <2>1 DEF IInv, NotFree
  <1>. QED  BY <1>4, <1>5, <1>6, <1>7, <1>8 DEF IInv

\* A batch gives back what it held.
LEMMA ReleaseKeeps == ASSUME IInv, Release PROVE IInv'
  <1>. DEFINE C == {held[e].buf : e \in {x \in DOMAIN held : held[x].owned}}
  <1>1. /\ TypeOK /\ nLru' = nLru /\ lruOf' = lruOf /\ tierOf' = tierOf /\ gen' = gen
        /\ bufs' = Freed(C) /\ misses' = misses /\ misses = <<>> /\ DOMAIN misses = {}
        /\ need' = need /\ need = {} /\ batch' = {} /\ held' = <<>> /\ DOMAIN held' = {}
        /\ failed' = failed /\ failed = FALSE /\ pc' = "idle" /\ lost' = lost
    BY DEF IInv, Stages, TypeOK, Release
  <1>2. \A b \in Bufs : b \in C <=> \E e \in DOMAIN held : held[e].owned /\ held[e].buf = b
    OBVIOUS
  <1>. HIDE DEF C
  <1>3. /\ bufs' \in [Bufs -> Experts \cup {Free, Junk}]
        /\ \A b \in Bufs : bufs'[b] = IF b \in C THEN Free ELSE bufs[b]
    BY <1>1 DEF Freed, TypeOK
  <1>4. \A n \in Nat : Decremented(n) \in Nat /\ (n = 0 => Decremented(n) = 0)
    BY DEF Decremented
  <1>5. /\ slots' \in [Slots -> Slot]
        /\ \A i \in Slots : /\ slots'[i].eid = slots[i].eid /\ slots'[i].ready = slots[i].ready
                            /\ slots'[i].buf = slots[i].buf
                            /\ slots[i].inuse = 0 => slots'[i].inuse = 0
    <2>1. \A i \in Slots : slots[i] \in Slot
      BY <1>1, SlotTypes
    <2>2. \A i \in Slots : [slots[i] EXCEPT !.inuse = Decremented(@)] \in Slot
      BY <1>4, <2>1 DEF Slot
    <2>3. \A i \in Slots : \/ slots'[i] = slots[i]
                           \/ slots'[i] = [slots[i] EXCEPT !.inuse = Decremented(@)]
      BY DEF Release
    <2>4. \E f : slots' = [i \in Slots |-> f[i]]
      <3>. DEFINE f == [i \in Slots |->
              IF \E e \in GivenBack : ~InTier(e) /\ InLru(e) /\ lruOf[e] = i
              THEN [slots[i] EXCEPT !.inuse = Decremented(@)] ELSE slots[i]]
      <3>1. slots' = f
        BY DEF Release
      <3>. HIDE DEF f
      <3>2. f = [i \in Slots |-> f[i]]
        BY DEF f
      <3>. QED  BY <3>1, <3>2
    <2>5. slots' \in [Slots -> Slot]
      BY <2>1, <2>2, <2>3, <2>4
    <2>. QED  BY <1>4, <2>1, <2>3, <2>5 DEF Slot
  <1>6. tier' \in [Tier -> Place]
    <2>1. \A t \in Tier : tier[t] \in Place
      BY <1>1 DEF TypeOK
    <2>2. \A t \in Tier : [tier[t] EXCEPT !.inuse = Decremented(@)] \in Place
      BY <1>4, <2>1 DEF Place
    <2>. QED  BY <2>1, <2>2 DEF Release
  <1>7. TypeOK'
    BY <1>1, <1>3, <1>5, <1>6 DEF TypeOK
  <1>8. \A i \in Slots : slots[i].buf # 0 => slots[i].buf \in Bufs /\ slots[i].buf \notin C
    <2>1. \A i \in Slots : slots[i].buf # 0 => slots[i].buf \in Bufs
      BY <1>1, SlotTypes, Constants DEF Bufs
    <2>. QED  BY <1>2, <2>1 DEF IInv, Distinct
  <1>9. SlotsOk'
    BY <1>1, <1>3, <1>5, <1>8 DEF IInv, SlotsOk
  <1>10. ReadsOk' /\ HeldOk' /\ Parts' /\ Stages'
    BY <1>1 DEF ReadsOk, HeldOk, Parts, Stages
  <1>11. Distinct'
    BY <1>1, <1>5 DEF IInv, Distinct
  <1>12. NotFree'
    <2>1. \A b \in Bufs : Owned(b)' <=> ((\E i \in Slots : slots[i].buf = b) \/ b \in lost.bufs)
      BY <1>1, <1>5 DEF Owned
    <2>2. \A b \in Bufs : b \in C => ~Owned(b)'
      BY <1>2, <2>1 DEF IInv, Distinct
    <2>3. \A b \in Bufs : b \notin C => (Owned(b)' <=> Owned(b))
      BY <1>1, <1>2, <2>1 DEF Owned
    <2>. QED  BY <1>3, <2>2, <2>3 DEF IInv, NotFree
  <1>. QED  BY <1>7, <1>9, <1>10, <1>11, <1>12 DEF IInv

LEMMA NextKeeps == ASSUME IInv, [Next]_vars PROVE IInv'
  <1>1. CASE TierEvict \/ TierPromote \/ TierSwap \/ TierDemote
    BY <1>1, SweepsKeep
  <1>2. CASE Scan
    BY <1>2, ScanKeeps
  <1>3. CASE Collect
    BY <1>3, CollectKeeps
  <1>4. CASE Fetch
    BY <1>4, FetchKeeps
  <1>5. CASE Fetched \/ Resolved
    BY <1>5, FetchedKeeps
  <1>6. CASE Commit
    BY <1>6, CommitKeeps
  <1>7. CASE Fails
    BY <1>7, FailsKeeps
  <1>8. CASE Release
    BY <1>8, ReleaseKeeps
  <1>9. CASE UNCHANGED vars
    <2>1. /\ slots' = slots /\ nLru' = nLru /\ lruOf' = lruOf /\ tier' = tier /\ tierOf' = tierOf
          /\ bufs' = bufs /\ batch' = batch /\ need' = need /\ misses' = misses /\ held' = held
          /\ failed' = failed /\ lost' = lost /\ pc' = pc /\ gen' = gen
      BY <1>9 DEF vars, lruVars, tierVars, batchVars
    <2>2. TypeOK' /\ Stages' /\ Parts'
      BY <2>1 DEF IInv, TypeOK, Stages, Parts
    <2>3. SlotsOk' /\ ReadsOk' /\ HeldOk'
      BY <2>1 DEF IInv, SlotsOk, ReadsOk, HeldOk
    <2>4. Distinct' /\ NotFree'
      BY <2>1 DEF IInv, Distinct, NotFree, Owned
    <2>. QED  BY <2>2, <2>3, <2>4 DEF IInv
  <1>. QED  BY <1>1, <1>2, <1>3, <1>4, <1>5, <1>6, <1>7, <1>8, <1>9 DEF Next

-----------------------------------------------------------------------------
\* The invariant holds of every behaviour.
THEOREM Inductive == Spec => []IInv
  <1>1. Init => IInv
    BY InitIInv
  <1>2. IInv /\ [Next]_vars => IInv'
    BY NextKeeps
  <1>. QED  BY <1>1, <1>2, PTL DEF Spec

\* A batch computes with all experts it asked for, and with their weights:
\* nothing it holds is read over, freed or moved before it gives it back
\* (layer_insert_lru, miss_commit, tier_movable, moe_release_batch_slots).
THEOREM BatchesHoldTheirExperts == Spec => []HeldIntact
  <1>1. IInv => HeldIntact
    BY HeldIntactFollows
  <1>. QED  BY <1>1, Inductive, PTL

\* Every buffer in memory has one owner, and one that is free has none, so that
\* nothing is shared by mistake or freed twice.  Private copies of a batch that
\* failed are never given back and stay that batch's (moe_pin_prepare_slot,
\* lru_slot_clear, the error paths of the reads, moe_release_batch_slots).
THEOREM BuffersHaveOneOwner == Spec => []BuffersOwned
  <1>1. ASSUME IInv PROVE BuffersOwned
    <2>. SUFFICES ASSUME NEW b \in Bufs
                  PROVE  IF bufs[b] = Free THEN Owners(b) = {} ELSE Cardinality(Owners(b)) = 1
      BY DEF BuffersOwned
    <2>1. Owned(b) <=> bufs[b] # Free
      BY <1>1 DEF IInv, NotFree
    <2>2. Owners(b) # {} <=> Owned(b)
      BY DEF Owners, Owned
    <2>3. \A x, y \in Owners(b) : x = y
      BY <1>1 DEF IInv, Distinct, Owners
    <2>4. CASE bufs[b] = Free
      BY <2>1, <2>2, <2>4
    <2>5. CASE bufs[b] # Free
      <3>1. PICK x : x \in Owners(b)
        BY <2>1, <2>2, <2>5
      <3>2. Owners(b) = {x}
        BY <2>3, <3>1
      <3>. QED  BY <2>5, <3>2, FS_Singleton
    <2>. QED  BY <2>4, <2>5
  <1>. QED  BY <1>1, Inductive, PTL

-----------------------------------------------------------------------------
(* Where an expert is found, and who counts.                               *)

\* The tables of ids tell where an expert is, and it is in one place.
Mapped ==
    /\ \A i \in Slots : slots[i].eid # None => lruOf[slots[i].eid] = i /\ i <= nLru
    /\ \A t \in Tier : tier[t].eid # None => tierOf[tier[t].eid] = t
    /\ \A i \in Slots, t \in Tier : slots[i].eid # None => slots[i].eid # tier[t].eid

\* A slot that is not ready waits for a miss of this batch, and a slot that was
\* not given on still has the expert of its miss.
Reserved ==
    /\ \A n \in DOMAIN misses : misses[n].slot # 0 =>
           /\ misses[n].gen <= gen[misses[n].slot]
           /\ StillMine(misses[n]) => slots[misses[n].slot].eid = misses[n].eid
    /\ \A i \in Slots : ~slots[i].ready =>
           \E n \in DOMAIN misses : StillMine(misses[n]) /\ misses[n].slot = i

Counted ==
    /\ InuseCounts
    /\ lost.slots \in [Slots -> Nat] /\ lost.tier \in [Tier -> Nat]
    /\ \A e \in DOMAIN held : held[e].tier # 0 \/ held[e].owned => held[e].slot = 0

CInv == IInv /\ Mapped /\ Reserved /\ Counted

LEMMA InitCInv == Init => CInv
  <1>. SUFFICES ASSUME Init PROVE CInv
    BY InitIInv DEF CInv
  <1>1. /\ DOMAIN misses = {} /\ held = <<>> /\ DOMAIN held = {}
        /\ \A i \in Slots : slots[i] = [eid |-> None, ready |-> TRUE, inuse |-> 0, buf |-> 0]
        /\ \A t \in Tier : tier[t] = [eid |-> None, inuse |-> 0]
        /\ lost.slots = [i \in Slots |-> 0] /\ lost.tier = [t \in Tier |-> 0]
    BY DEF Init
  <1>2. Mapped /\ Reserved
    BY <1>1 DEF Mapped, Reserved
  <1>3. \A i : Uses(held, i) = 0 /\ TierUses(held, i) = 0
    BY <1>1, FS_EmptySet DEF Uses, TierUses
  <1>4. Counted
    BY <1>1, <1>3 DEF Counted, InuseCounts
  <1>. QED  BY InitIInv, <1>2, <1>4 DEF CInv

\* No two slots have one expert, nor two places of the device.
LEMMA Apart ==
    ASSUME Mapped
    PROVE  /\ \A i, j \in Slots : slots[i].eid # None /\ j # i => slots[j].eid # slots[i].eid
           /\ \A t, u \in Tier : tier[t].eid # None /\ u # t => tier[u].eid # tier[t].eid
  <1>1. ASSUME NEW i \in Slots, NEW j \in Slots, slots[i].eid # None, slots[j].eid = slots[i].eid
        PROVE  j = i
    <2>1. lruOf[slots[i].eid] = i /\ lruOf[slots[j].eid] = j
      BY <1>1 DEF Mapped
    <2>. QED  BY <1>1, <2>1
  <1>2. ASSUME NEW t \in Tier, NEW u \in Tier, tier[t].eid # None, tier[u].eid = tier[t].eid
        PROVE  u = t
    <2>1. tierOf[tier[t].eid] = t /\ tierOf[tier[u].eid] = u
      BY <1>2 DEF Mapped
    <2>. QED  BY <1>2, <2>1
  <1>. QED  BY <1>1, <1>2

\* A slot is given to an expert that no other slot has.
LEMMA GivenMapped ==
    ASSUME CInv, NEW i \in Slots, NEW e \in Experts \cup {None},
           \A j \in Slots : j # i => slots'[j] = slots[j] /\ (slots[j].eid = e => e = None),
           slots'[i].eid = e,
           lruOf' = [x \in Experts |-> IF x = e THEN i ELSE Unmapped(i)[x]],
           nLru' = IF i > nLru THEN i ELSE nLru
    PROVE  \A j \in Slots : slots'[j].eid # None => lruOf'[slots'[j].eid] = j /\ j <= nLru'
  <1>1. TypeOK /\ nLru \in Nat /\ i \in Nat
    BY Constants DEF CInv, IInv, TypeOK, Slots
  <1>. SUFFICES ASSUME NEW j \in Slots, slots'[j].eid # None
                PROVE  lruOf'[slots'[j].eid] = j /\ j <= nLru'
    OBVIOUS
  <1>2. CASE j = i
    <2>1. slots'[j].eid = e /\ e \in Experts
      BY <1>2
    <2>. QED  BY <1>1, <1>2, <2>1
  <1>3. CASE j # i
    <2>. DEFINE f == slots[j].eid
    <2>1. /\ slots'[j].eid = f /\ f # e /\ f \in Experts /\ j \in Nat
      BY <1>1, <1>3, SlotTypes
    <2>2. lruOf[f] = j /\ j <= nLru
      BY <2>1 DEF CInv, Mapped
    <2>. HIDE DEF f
    <2>3. Unmapped(i)[f] = j
      BY <1>3, <2>1, <2>2 DEF Unmapped
    <2>. QED  BY <1>1, <2>1, <2>2, <2>3
  <1>. QED  BY <1>2, <1>3

\* Between batches nothing is reserved, and what is lost stays counted.
LEMMA SweepsMap ==
    ASSUME CInv, TierEvict \/ TierPromote \/ TierSwap \/ TierDemote
    PROVE  Mapped' /\ Reserved' /\ Counted'
  <1>. IInv /\ TypeOK /\ Stages /\ Mapped /\ Reserved /\ Counted
    BY DEF CInv, IInv
  <1>0. /\ DOMAIN misses = {} /\ misses' = misses /\ held' = held /\ DOMAIN held = {} /\ lost' = lost
        /\ \A i \in 1 .. nLru : i \in Slots
        /\ tier \in [Tier -> Place] /\ tierOf \in [Experts -> 0 .. NTier]
    <2>1. pc = "idle" /\ UNCHANGED <<misses, held, lost>>
      BY DEF TierEvict, TierPromote, TierSwap, TierDemote, Sweeps, batchVars
    <2>2. misses = <<>> /\ DOMAIN held = {}
      BY <2>1 DEF Stages
    <2>3. \A i \in 1 .. nLru : i \in Slots
      BY Constants DEF TypeOK, Slots
    <2>. QED  BY <2>1, <2>2, <2>3 DEF TypeOK
  <1>1. \A i \in Slots : slots[i].ready
    BY <1>0 DEF Reserved
  \* Enough of the slots and of the device.
  <1>2. ASSUME NEW i \in Slots, NEW e \in Experts \cup {None}, NEW c, Given(i, e, TRUE, c),
               \A j \in Slots : e # None => slots[j].eid # e,
               \A t \in Tier : tier'[t].inuse = tier[t].inuse,
               \A t \in Tier : tier'[t].eid # None => tierOf'[tier'[t].eid] = t,
               \A t \in Tier : tier'[t].eid # None =>
                   tier'[t].eid # e /\ \A j \in Slots : j # i => slots[j].eid # tier'[t].eid
        PROVE  Mapped' /\ Reserved' /\ Counted'
    <2>0. /\ slots' = [slots EXCEPT ![i] = [@ EXCEPT !.eid = e, !.ready = TRUE, !.buf = c]]
          /\ lruOf' = [x \in Experts |-> IF x = e THEN i ELSE Unmapped(i)[x]]
          /\ nLru' = IF i > nLru THEN i ELSE nLru
      BY <1>2 DEF Given
    <2>1. /\ slots'[i].eid = e /\ slots'[i].ready = TRUE
          /\ \A j \in Slots : j # i => slots'[j] = slots[j]
          /\ \A j \in Slots : slots'[j].eid # None => lruOf'[slots'[j].eid] = j /\ j <= nLru'
          /\ \A j \in Slots : slots'[j].inuse = slots[j].inuse
      <3>1. slots \in [Slots -> Slot] /\ slots[i] \in Slot
        BY DEF TypeOK
      <3>2. /\ slots'[i].eid = e /\ slots'[i].ready = TRUE
            /\ \A j \in Slots : j # i => slots'[j] = slots[j]
            /\ \A j \in Slots : slots'[j].inuse = slots[j].inuse
        BY <2>0, <3>1 DEF Slot
      <3>3. \A j \in Slots : j # i => slots'[j] = slots[j] /\ (slots[j].eid = e => e = None)
        BY <1>2, <3>2
      <3>4. \A j \in Slots : slots'[j].eid # None => lruOf'[slots'[j].eid] = j /\ j <= nLru'
        <4>. i \in Slots /\ e \in Experts \cup {None}
          BY <1>2
        <4>. QED  BY <2>0, <3>2, <3>3, GivenMapped
      <3>. QED  BY <3>2, <3>4
    <2>2. Mapped'
      BY <1>2, <2>1 DEF Mapped
    <2>3. Reserved'
      BY <1>0, <1>1, <2>1 DEF Reserved
    <2>4. Counted'
      BY <1>0, <1>2, <2>1 DEF Counted, InuseCounts, Uses, TierUses
    <2>. QED  BY <2>2, <2>3, <2>4
  \* A slot is emptied.
  <1>3. ASSUME NEW i \in Slots, Given(i, None, TRUE, 0), UNCHANGED tierVars
        PROVE  Mapped' /\ Reserved' /\ Counted'
    <2>1. /\ \A t \in Tier : tier'[t].inuse = tier[t].inuse
          /\ \A t \in Tier : tier'[t].eid # None => tierOf'[tier'[t].eid] = t
          /\ \A t \in Tier : tier'[t].eid # None =>
                   tier'[t].eid # None /\ \A j \in Slots : j # i => slots[j].eid # tier'[t].eid
      BY <1>3 DEF tierVars, Mapped
    <2>. QED  BY <1>2, <1>3, <2>1
  <1>4. CASE TierEvict
    <2>1. PICK i \in 1 .. nLru : Given(i, None, TRUE, 0)
      BY <1>4 DEF TierEvict
    <2>. QED  BY <1>0, <1>3, <1>4, <2>1 DEF TierEvict
  <1>5. CASE TierPromote
    <2>1. PICK i \in 1 .. nLru, t \in Tier :
              /\ tier[t].eid = None /\ Movable(slots[i]) /\ Given(i, None, TRUE, 0)
              /\ tier' = [tier EXCEPT ![t].eid = slots[i].eid]
              /\ tierOf' = [tierOf EXCEPT ![slots[i].eid] = t]
      BY <1>5 DEF TierPromote
    <2>2. i \in Slots /\ slots[i].eid \in Experts /\ slots[i].eid # None
      BY <1>0, <2>1, SlotTypes DEF Movable
    <2>3. /\ tier'[t].eid = slots[i].eid /\ \A u \in Tier : u # t => tier'[u] = tier[u]
          /\ \A u \in Tier : tier'[u].inuse = tier[u].inuse
      BY <1>0, <2>1 DEF Place
    <2>4. \A u \in Tier : tier'[u].eid # None => tierOf'[tier'[u].eid] = u
      <3>1. \A u \in Tier : tier[u].eid \in Experts \cup {None} /\ tier[u].eid # slots[i].eid
        BY <1>0, <2>2 DEF Place, Mapped
      <3>. QED  BY <1>0, <2>1, <2>2, <2>3, <3>1 DEF Mapped
    <2>5. \A u \in Tier : tier'[u].eid # None =>
              tier'[u].eid # None /\ \A j \in Slots : j # i => slots[j].eid # tier'[u].eid
      <3>1. \A j \in Slots : j # i => slots[j].eid # slots[i].eid
        BY <2>2, Apart
      <3>2. \A u \in Tier : u # t => \A j \in Slots : tier[u].eid # None => slots[j].eid # tier[u].eid
        BY DEF Mapped
      <3>. QED  BY <2>2, <2>3, <3>1, <3>2
    <2>6. i \in Slots /\ Given(i, None, TRUE, 0) /\ None \in Experts \cup {None}
      BY <2>1, <2>2
    <2>. QED  BY <1>2, <2>3, <2>4, <2>5, <2>6
  <1>6. CASE TierSwap
    <2>1. PICK i \in 1 .. nLru, t \in Tier :
              /\ Movable(slots[i]) /\ Movable(tier[t])
              /\ \/ /\ Given(i, tier[t].eid, TRUE, slots[i].buf)
                    /\ tier' = [tier EXCEPT ![t].eid = slots[i].eid]
                    /\ tierOf' = [tierOf EXCEPT ![tier[t].eid] = 0, ![slots[i].eid] = t]
                 \/ /\ Given(i, None, TRUE, 0)
                    /\ UNCHANGED tierVars
      BY <1>6 DEF TierSwap
    <2>2. /\ i \in Slots /\ slots[i].eid \in Experts /\ slots[i].eid # None
          /\ tier[t].eid \in Experts /\ tier[t].eid # None /\ tier[t].eid # slots[i].eid
      BY <1>0, <2>1, SlotTypes DEF Movable, Place, Mapped
    <2>3. CASE /\ Given(i, tier[t].eid, TRUE, slots[i].buf)
               /\ tier' = [tier EXCEPT ![t].eid = slots[i].eid]
               /\ tierOf' = [tierOf EXCEPT ![tier[t].eid] = 0, ![slots[i].eid] = t]
      <3>1. /\ tier'[t].eid = slots[i].eid /\ \A u \in Tier : u # t => tier'[u] = tier[u]
            /\ \A u \in Tier : tier'[u].inuse = tier[u].inuse
        BY <1>0, <2>3 DEF Place
      <3>2. \A u \in Tier : tier[u].eid \in Experts \cup {None} /\ tier[u].eid # slots[i].eid
        BY <1>0, <2>2 DEF Place, Mapped
      <3>3. \A u \in Tier : u # t => tier[u].eid # tier[t].eid
        BY <2>2 DEF Mapped
      <3>4. /\ tierOf'[slots[i].eid] = t
            /\ \A x \in Experts : x # tier[t].eid /\ x # slots[i].eid => tierOf'[x] = tierOf[x]
        BY <1>0, <2>2, <2>3
      <3>5. \A u \in Tier : tier'[u].eid # None => tierOf'[tier'[u].eid] = u
        BY <3>1, <3>2, <3>3, <3>4 DEF Mapped
      <3>6. \A u \in Tier : tier'[u].eid # None =>
                tier'[u].eid # tier[t].eid /\ \A j \in Slots : j # i => slots[j].eid # tier'[u].eid
        <4>1. \A j \in Slots : j # i => slots[j].eid # slots[i].eid
          BY <2>2, Apart
        <4>2. \A u \in Tier : u # t => \A j \in Slots : tier[u].eid # None => slots[j].eid # tier[u].eid
          BY DEF Mapped
        <4>. QED  BY <2>2, <3>1, <3>3, <4>1, <4>2
      <3>7. \A j \in Slots : slots[j].eid # tier[t].eid
        BY <2>2 DEF Mapped
      <3>. DEFINE x == tier[t].eid
      <3>8. /\ i \in Slots /\ Given(i, x, TRUE, slots[i].buf) /\ x \in Experts \cup {None}
            /\ \A j \in Slots : x # None => slots[j].eid # x
            /\ \A u \in Tier : tier'[u].eid # None =>
                   tier'[u].eid # x /\ \A j \in Slots : j # i => slots[j].eid # tier'[u].eid
        BY <2>2, <2>3, <3>6, <3>7
      <3>. HIDE DEF x
      <3>. QED  BY <1>2, <3>1, <3>5, <3>8
    <2>. QED  BY <1>3, <2>1, <2>2, <2>3
  <1>7. CASE TierDemote
    <2>1. PICK t \in Tier, i \in Victims :
              /\ Movable(tier[t])
              /\ \/ \E b \in Buffer(slots[i].buf) :
                       /\ Given(i, tier[t].eid, TRUE, b)
                       /\ tier' = [tier EXCEPT ![t].eid = None]
                       /\ tierOf' = [tierOf EXCEPT ![tier[t].eid] = 0]
                 \/ Given(i, None, TRUE, 0) /\ UNCHANGED tierVars
      BY <1>7 DEF TierDemote
    <2>2. i \in Slots /\ tier[t].eid \in Experts /\ tier[t].eid # None
      BY <1>0, <2>1, VictimFacts DEF Movable, Place
    <2>3. ASSUME NEW b \in Buffer(slots[i].buf), Given(i, tier[t].eid, TRUE, b),
                 tier' = [tier EXCEPT ![t].eid = None], tierOf' = [tierOf EXCEPT ![tier[t].eid] = 0]
          PROVE  Mapped' /\ Reserved' /\ Counted'
      <3>1. /\ tier'[t].eid = None /\ \A u \in Tier : u # t => tier'[u] = tier[u]
            /\ \A u \in Tier : tier'[u].inuse = tier[u].inuse
        BY <1>0, <2>3 DEF Place
      <3>2. \A u \in Tier : u # t => tier[u].eid # tier[t].eid
        BY <2>2 DEF Mapped
      <3>3. \A x \in Experts : x # tier[t].eid => tierOf'[x] = tierOf[x]
        BY <1>0, <2>3
      <3>4. \A u \in Tier : tier'[u].eid # None => tierOf'[tier'[u].eid] = u
        <4>1. \A u \in Tier : tier[u].eid \in Experts \cup {None}
          BY <1>0 DEF Place
        <4>. QED  BY <3>1, <3>2, <3>3, <4>1 DEF Mapped
      <3>5. \A u \in Tier : tier'[u].eid # None =>
                tier'[u].eid # tier[t].eid /\ \A j \in Slots : j # i => slots[j].eid # tier'[u].eid
        BY <3>1, <3>2 DEF Mapped
      <3>6. \A j \in Slots : slots[j].eid # tier[t].eid
        BY <2>2 DEF Mapped
      <3>. DEFINE x == tier[t].eid
      <3>7. /\ i \in Slots /\ Given(i, x, TRUE, b) /\ x \in Experts \cup {None}
            /\ \A j \in Slots : x # None => slots[j].eid # x
            /\ \A u \in Tier : tier'[u].eid # None =>
                   tier'[u].eid # x /\ \A j \in Slots : j # i => slots[j].eid # tier'[u].eid
        BY <2>2, <2>3, <3>5, <3>6
      <3>. HIDE DEF x
      <3>. QED  BY <1>2, <3>1, <3>4, <3>7
    <2>. QED  BY <1>3, <2>1, <2>2, <2>3
  <1>. QED  BY <1>4, <1>5, <1>6, <1>7

\* A batch that holds nothing uses nothing.
LEMMA NothingHeld ==
    ASSUME NEW h, DOMAIN h = {}, NEW i
    PROVE  Uses(h, i) = 0 /\ TierUses(h, i) = 0
  <1>1. {e \in DOMAIN h : h[e].slot = i /\ ~h[e].owned} = {} /\ {e \in DOMAIN h : h[e].tier = i} = {}
    OBVIOUS
  <1>. QED  BY <1>1, FS_EmptySet DEF Uses, TierUses

\* A step that leaves the slots' experts alone, and the tables.
LEMMA MappedStays ==
    ASSUME Mapped, nLru' = nLru, lruOf' = lruOf, tierOf' = tierOf,
           \A i \in Slots : slots'[i].eid = slots[i].eid,
           \A t \in Tier : tier'[t].eid = tier[t].eid
    PROVE  Mapped'
  BY DEF Mapped

\* What the batch finds it holds, and it counts.
LEMMA ScanMaps == ASSUME CInv, Scan PROVE Mapped' /\ Reserved' /\ Counted'
  <1>. IInv /\ TypeOK /\ Mapped /\ Reserved /\ Counted
    BY DEF CInv, IInv
  <1>1. /\ DOMAIN misses = {} /\ DOMAIN held = {} /\ misses' = misses
        /\ UNCHANGED <<nLru, lruOf, tierOf, bufs, gen, lost>>
        /\ slots' = [i \in Slots |-> [slots[i] EXCEPT !.inuse = @ + Uses(held', i)]]
        /\ tier' = [t \in Tier |-> [tier[t] EXCEPT !.inuse = @ + TierUses(held', t)]]
    BY DEF IInv, Stages, Scan
  <1>2. \A e \in DOMAIN held' : held'[e].owned = FALSE /\ (held'[e].tier # 0 => held'[e].slot = 0)
    <2>1. PICK hits : held' = [e \in hits |-> Hit(e)]
      BY DEF Scan
    <2>. QED  BY <2>1 DEF Hit
  <1>3. /\ \A i \in Slots : /\ slots'[i].eid = slots[i].eid /\ slots'[i].ready = slots[i].ready
                            /\ slots'[i].inuse = slots[i].inuse + Uses(held', i)
        /\ \A t \in Tier : /\ tier'[t].eid = tier[t].eid
                           /\ tier'[t].inuse = tier[t].inuse + TierUses(held', t)
    <2>1. \A i \in Slots : slots[i] \in Slot
      BY SlotTypes
    <2>2. \A t \in Tier : tier[t] \in Place
      BY DEF TypeOK
    <2>. QED  BY <1>1, <2>1, <2>2 DEF Slot, Place
  <1>4. Mapped'
    BY <1>1, <1>3, MappedStays
  <1>5. Reserved'
    BY <1>1, <1>3 DEF Reserved
  <1>6. DOMAIN held' \subseteq Experts
    BY ScanKeeps DEF IInv, TypeOK
  <1>7. InuseCounts'
    <2>1. \A i : Uses(held, i) = 0 /\ TierUses(held, i) = 0
      BY <1>1, NothingHeld
    <2>2. /\ \A i : Uses(held', i) \in Nat /\ TierUses(held', i) \in Nat
      BY <1>6, UsesFacts
    <2>3. /\ \A i \in Slots : slots'[i].inuse = Uses(held', i) + lost'.slots[i]
          /\ \A t \in Tier : tier'[t].inuse = TierUses(held', t) + lost'.tier[t]
      <3>1. /\ \A i \in Slots : slots[i].inuse = 0 + lost.slots[i] /\ lost.slots[i] \in Nat
            /\ \A t \in Tier : tier[t].inuse = 0 + lost.tier[t] /\ lost.tier[t] \in Nat
        BY <2>1 DEF Counted, InuseCounts
      <3>2. lost' = lost
        BY <1>1
      <3>. QED  BY <1>3, <2>2, <3>1, <3>2
    <2>. QED  BY <2>3 DEF InuseCounts
  <1>. QED  BY <1>1, <1>2, <1>4, <1>5, <1>7 DEF Counted

\* A slot is reserved for an expert that is nowhere.
LEMMA CollectMaps == ASSUME CInv, Collect PROVE Mapped' /\ Reserved' /\ Counted'
  <1>. IInv /\ TypeOK /\ Mapped /\ Reserved /\ Counted
    BY DEF CInv, IInv
  <1>1. /\ tier' = tier /\ tierOf' = tierOf /\ held' = held /\ lost' = lost
        /\ nLru \in 0 .. NSlots /\ NSlots \in Nat /\ gen \in [Slots -> Nat]
    BY Constants DEF TypeOK, Collect, tierVars
  <1>2. PICK e \in need :
            /\ ~InTier(e) /\ ~InLru(e)
            /\ \/ \E i \in Victims :
                  /\ gen' = IF i <= nLru THEN [gen EXCEPT ![i] = @ + 1] ELSE gen
                  /\ misses' = Append(misses, Miss(e, i, gen'[i], slots[i].buf))
                  /\ Given(i, e, FALSE, 0)
               \/ /\ misses' = Append(misses, Miss(e, 0, 0, 0))
                  /\ UNCHANGED <<lruVars, gen>>
    BY DEF Collect
  <1>3. e \in Experts /\ e # None /\ e \in Experts \cup {None}
    BY Constants DEF TypeOK
  \* It is in no slot, and not on the device.
  <1>4. /\ \A j \in Slots : slots[j].eid # e
        /\ \A t \in Tier : tier[t].eid # e
    <2>1. ASSUME NEW j \in Slots, slots[j].eid = e PROVE FALSE
      <3>1. lruOf[e] = j /\ j <= nLru
        BY <1>3, <2>1 DEF Mapped
      <3>2. j \in 1 .. nLru
        BY <1>1, <3>1 DEF Slots
      <3>. QED  BY <1>2, <2>1, <3>1, <3>2 DEF InLru
    <2>2. ASSUME NEW t \in Tier, tier[t].eid = e PROVE FALSE
      <3>1. tierOf[e] = t /\ t # 0
        BY <1>3, <2>2, Constants DEF Mapped, Tier
      <3>. QED  BY <1>2, <2>2, <3>1 DEF InTier
    <2>. QED  BY <2>1, <2>2
  <1>5. \A m : /\ DOMAIN Append(misses, m) = 1 .. Len(misses) + 1
               /\ \A n \in DOMAIN misses : n # Len(misses) + 1 /\ Append(misses, m)[n] = misses[n]
               /\ Append(misses, m)[Len(misses) + 1] = m
               /\ \A n \in DOMAIN Append(misses, m) : n \in DOMAIN misses \/ n = Len(misses) + 1
    BY MissTypes DEF TypeOK
  <1>. DEFINE N == Len(misses) + 1
  <1>6. N \in Nat /\ N \in 1 .. N /\ DOMAIN misses = 1 .. Len(misses) /\ Len(misses) \in Nat
    BY MissTypes
  <1>7. CASE misses' = Append(misses, Miss(e, 0, 0, 0)) /\ UNCHANGED <<lruVars, gen>>
    <2>1. slots' = slots /\ nLru' = nLru /\ lruOf' = lruOf /\ gen' = gen
      BY <1>7 DEF lruVars
    <2>2. Mapped'
      BY <1>1, <2>1, MappedStays
    <2>3. Counted'
      BY <1>1, <2>1 DEF Counted, InuseCounts, Uses, TierUses
    <2>4. /\ \A n \in DOMAIN misses : n \in DOMAIN misses' /\ misses'[n] = misses[n]
          /\ \A n \in DOMAIN misses' : n \in DOMAIN misses \/ misses'[n].slot = 0
      BY <1>5, <1>6, <1>7 DEF Miss
    <2>5. Reserved'
      BY <2>1, <2>4 DEF Reserved, StillMine
    <2>. QED  BY <2>2, <2>3, <2>5
  <1>8. ASSUME NEW i \in Victims,
               gen' = IF i <= nLru THEN [gen EXCEPT ![i] = @ + 1] ELSE gen,
               misses' = Append(misses, Miss(e, i, gen'[i], slots[i].buf)),
               Given(i, e, FALSE, 0)
        PROVE  Mapped' /\ Reserved' /\ Counted'
    <2>1. i \in Slots /\ i \in Nat /\ i # 0
      BY VictimFacts, Constants DEF Slots
    <2>2. /\ slots' = [slots EXCEPT ![i] = [@ EXCEPT !.eid = e, !.ready = FALSE, !.buf = 0]]
          /\ lruOf' = [x \in Experts |-> IF x = e THEN i ELSE Unmapped(i)[x]]
          /\ nLru' = IF i > nLru THEN i ELSE nLru
      BY <1>8 DEF Given
    <2>3. /\ slots'[i].eid = e /\ slots'[i].ready = FALSE
          /\ \A j \in Slots : j # i => slots'[j] = slots[j]
          /\ \A j \in Slots : slots'[j].inuse = slots[j].inuse
      <3>1. slots \in [Slots -> Slot] /\ slots[i] \in Slot
        BY <2>1 DEF TypeOK
      <3>. QED  BY <2>1, <2>2, <3>1 DEF Slot
    <2>4. \A j \in Slots : slots'[j].eid # None => lruOf'[slots'[j].eid] = j /\ j <= nLru'
      BY <1>3, <1>4, <2>1, <2>2, <2>3, GivenMapped
    <2>5. Mapped'
      <3>1. \A j \in Slots, t \in Tier : slots'[j].eid # None => slots'[j].eid # tier'[t].eid
        BY <1>1, <1>4, <2>3 DEF Mapped
      <3>2. \A t \in Tier : tier'[t].eid # None => tierOf'[tier'[t].eid] = t
        BY <1>1 DEF Mapped
      <3>. QED  BY <2>4, <3>1, <3>2 DEF Mapped
    <2>6. Counted'
      BY <1>1, <2>3 DEF Counted, InuseCounts, Uses, TierUses
    <2>7. /\ \A n \in DOMAIN misses : n \in DOMAIN misses' /\ misses'[n] = misses[n]
          /\ \A n \in DOMAIN misses' : n \in DOMAIN misses \/ n = N
          /\ N \in DOMAIN misses'
          /\ misses'[N].slot = i /\ misses'[N].gen = gen'[i] /\ misses'[N].eid = e
      BY <1>5, <1>6, <1>8 DEF Miss
    <2>8. /\ \A j \in Slots : j # i => gen'[j] = gen[j]
          /\ gen'[i] \in Nat /\ gen[i] \in Nat /\ gen[i] <= gen'[i] /\ (i <= nLru => gen[i] < gen'[i])
      BY <1>1, <1>8, <2>1
    <2>9. ASSUME NEW n \in DOMAIN misses', misses'[n].slot # 0
          PROVE  /\ misses'[n].gen <= gen'[misses'[n].slot]
                 /\ gen'[misses'[n].slot] = misses'[n].gen => slots'[misses'[n].slot].eid = misses'[n].eid
      <3>1. CASE n = N
        BY <2>3, <2>7, <2>8, <3>1
      <3>2. CASE n \in DOMAIN misses
        <4>. DEFINE m == misses[n]
        <4>1. /\ misses'[n] = m /\ m.slot \in Slots /\ m.gen \in Nat /\ m.slot # 0
              /\ m.slot <= nLru /\ m.gen <= gen[m.slot]
              /\ gen[m.slot] = m.gen => slots[m.slot].eid = m.eid
          <5>1. misses'[n] = m /\ m.slot # 0 /\ m.slot \in 0 .. NSlots /\ m \in Missed
            BY <2>7, <2>9, <3>2, MissTypes
          <5>2. m.slot \in Slots
            BY <1>1, <5>1 DEF Slots
          <5>3. m.slot <= nLru
            BY <3>2 DEF IInv, ReadsOk
          <5>. QED  BY <3>2, <5>1, <5>2, <5>3 DEF Reserved, StillMine, Missed
        <4>. HIDE DEF m
        <4>2. CASE m.slot = i
          BY <2>8, <4>1, <4>2
        <4>3. CASE m.slot # i
          BY <2>3, <2>8, <4>1, <4>3
        <4>. QED  BY <4>2, <4>3
      <3>. QED  BY <2>7, <3>1, <3>2
    <2>10. ASSUME NEW j \in Slots, ~slots'[j].ready
           PROVE  \E n \in DOMAIN misses' :
                      /\ misses'[n].slot # 0 /\ gen'[misses'[n].slot] = misses'[n].gen
                      /\ misses'[n].slot = j
      <3>1. CASE j = i
        BY <2>1, <2>7, <3>1
      <3>2. CASE j # i
        <4>1. PICK n \in DOMAIN misses : StillMine(misses[n]) /\ misses[n].slot = j
          BY <2>3, <2>10, <3>2 DEF Reserved
        <4>2. n \in DOMAIN misses' /\ misses'[n] = misses[n] /\ gen'[j] = gen[j]
          BY <2>7, <2>8, <3>2
        <4>. QED  BY <4>1, <4>2 DEF StillMine
      <3>. QED  BY <3>1, <3>2
    <2>11. Reserved'
      BY <2>9, <2>10 DEF Reserved, StillMine
    <2>. QED  BY <2>5, <2>6, <2>11
  <1>. QED  BY <1>2, <1>7, <1>8

\* Nothing is missed, and every slot is as ready as it was.
LEMMA NothingMissed ==
    ASSUME Reserved, DOMAIN misses = {}, DOMAIN misses' = {},
           \A i \in Slots : slots'[i].ready = slots[i].ready
    PROVE  Reserved' /\ \A i \in Slots : slots[i].ready
  BY DEF Reserved

\* A read changes neither slots nor what is held.
LEMMA FetchMaps == ASSUME CInv, Fetch PROVE Mapped' /\ Reserved' /\ Counted'
  <1>. TypeOK /\ Mapped /\ Reserved /\ Counted
    BY DEF CInv, IInv
  <1>1. /\ slots' = slots /\ nLru' = nLru /\ lruOf' = lruOf /\ tier' = tier /\ tierOf' = tierOf
        /\ gen' = gen /\ held' = held /\ lost' = lost
    BY DEF Fetch, lruVars, tierVars
  <1>2. /\ DOMAIN misses' = DOMAIN misses
        /\ \A n \in DOMAIN misses : /\ misses'[n].slot = misses[n].slot /\ misses'[n].gen = misses[n].gen
                                    /\ misses'[n].eid = misses[n].eid
    <2>1. PICK n \in DOMAIN misses :
              \/ \E b : misses' = [misses EXCEPT ![n].buf = b, ![n].st = "ok"]
              \/ \E b : misses' = [misses EXCEPT ![n].buf = b, ![n].st = "failed"]
              \/ misses' = [misses EXCEPT ![n].st = "failed"]
      BY DEF Fetch
    <2>2. misses \in [DOMAIN misses -> Missed]
      BY MissTypes DEF TypeOK
    <2>3. CASE \E b : misses' = [misses EXCEPT ![n].buf = b, ![n].st = "ok"]
      <3>1. PICK b : misses' = [misses EXCEPT ![n].buf = b, ![n].st = "ok"]
        BY <2>3
      <3>. QED  BY <2>2, <3>1 DEF Missed
    <2>4. CASE \E b : misses' = [misses EXCEPT ![n].buf = b, ![n].st = "failed"]
      <3>1. PICK b : misses' = [misses EXCEPT ![n].buf = b, ![n].st = "failed"]
        BY <2>4
      <3>. QED  BY <2>2, <3>1 DEF Missed
    <2>5. CASE misses' = [misses EXCEPT ![n].st = "failed"]
      BY <2>2, <2>5 DEF Missed
    <2>. QED  BY <2>1, <2>3, <2>4, <2>5
  <1>3. Mapped'
    BY <1>1, MappedStays
  <1>4. Reserved'
    BY <1>1, <1>2 DEF Reserved, StillMine
  <1>5. Counted'
    BY <1>1 DEF Counted, InuseCounts, Uses, TierUses
  <1>. QED  BY <1>3, <1>4, <1>5

\* The generations are reset when no miss is left.
LEMMA FetchedMaps == ASSUME CInv, Fetched \/ Resolved PROVE Mapped' /\ Reserved' /\ Counted'
  <1>. TypeOK /\ Mapped /\ Reserved /\ Counted
    BY DEF CInv, IInv
  <1>1. /\ slots' = slots /\ nLru' = nLru /\ lruOf' = lruOf /\ tier' = tier /\ tierOf' = tierOf
        /\ misses' = misses /\ held' = held /\ lost' = lost
        /\ gen' = gen \/ DOMAIN misses = {}
    BY DEF Fetched, Resolved, lruVars, tierVars, batchVars
  <1>2. Mapped'
    BY <1>1, MappedStays
  <1>3. Reserved'
    <2>1. CASE gen' = gen
      BY <1>1, <2>1 DEF Reserved, StillMine
    <2>2. CASE DOMAIN misses = {}
      BY <1>1, <2>2, NothingMissed
    <2>. QED  BY <1>1, <2>1, <2>2
  <1>4. Counted'
    BY <1>1 DEF Counted, InuseCounts, Uses, TierUses
  <1>. QED  BY <1>2, <1>3, <1>4

\* The batch holds one more expert.
LEMMA OneMore ==
    ASSUME NEW h, DOMAIN h \subseteq Experts, NEW x, x \notin DOMAIN h,
           NEW g, DOMAIN g = DOMAIN h \cup {x}, \A e \in DOMAIN h : g[e] = h[e], NEW i
    PROVE  /\ g[x].slot = i /\ ~g[x].owned => Uses(g, i) = Uses(h, i) + 1
           /\ ~(g[x].slot = i /\ ~g[x].owned) => Uses(g, i) = Uses(h, i)
           /\ g[x].tier # i => TierUses(g, i) = TierUses(h, i)
  <1>. DEFINE S == {e \in DOMAIN h : h[e].slot = i /\ ~h[e].owned}
              T == {e \in DOMAIN g : g[e].slot = i /\ ~g[e].owned}
  <1>1. IsFiniteSet(S)
    BY ExpertAssumption, FS_Subset
  <1>2. Uses(h, i) = Cardinality(S) /\ Uses(g, i) = Cardinality(T)
    BY DEF Uses
  <1>3. x \notin S /\ T = IF g[x].slot = i /\ ~g[x].owned THEN S \cup {x} ELSE S
    OBVIOUS
  <1>4. g[x].tier # i => {e \in DOMAIN g : g[e].tier = i} = {e \in DOMAIN h : h[e].tier = i}
    OBVIOUS
  <1>5. g[x].tier # i => TierUses(g, i) = TierUses(h, i)
    BY <1>4 DEF TierUses
  <1>. HIDE DEF S, T
  <1>6. Cardinality(S \cup {x}) = Cardinality(S) + 1
    BY <1>1, <1>3, FS_AddElement
  <1>. QED  BY <1>2, <1>3, <1>5, <1>6

\* A slot is filled, given up, or no longer the miss's; the batch gets a copy.
LEMMA CommitMaps == ASSUME CInv, Commit PROVE Mapped' /\ Reserved' /\ Counted'
  <1>. DEFINE m == misses[1]
  <1>. IInv /\ TypeOK /\ Mapped /\ Reserved /\ Counted
    BY DEF CInv, IInv
  <1>1. /\ misses \in Seq(Missed) /\ misses # <<>> /\ misses' = Tail(misses) /\ Head(misses) = m
        /\ CommitRead(m) \/ CommitFailed(m)
        /\ nLru' = nLru /\ tier' = tier /\ tierOf' = tierOf /\ gen' = gen /\ lost' = lost
    BY DEF Commit, TypeOK, tierVars
  <1>2. /\ 1 \in DOMAIN misses
        /\ \A k \in DOMAIN misses' : /\ k + 1 \in DOMAIN misses /\ k + 1 # 1
                                     /\ misses'[k] = misses[k + 1]
        /\ \A k \in DOMAIN misses : k = 1 \/ (k - 1 \in DOMAIN misses' /\ misses'[k - 1] = misses[k])
    <2>1. Len(misses) \in Nat \ {0} /\ DOMAIN misses = 1 .. Len(misses)
      BY <1>1, EmptySeq
    <2>2. /\ Tail(misses) \in Seq(Missed) /\ Len(Tail(misses)) = Len(misses) - 1
          /\ \A k \in 1 .. Len(Tail(misses)) : Tail(misses)[k] = misses[k + 1]
      BY <1>1, HeadTailProperties
    <2>3. DOMAIN misses' = 1 .. Len(misses) - 1
      BY <1>1, <2>2
    <2>. QED  BY <1>1, <2>1, <2>2, <2>3
  <1>3. /\ m.eid \in Experts /\ m.eid \notin DOMAIN held
        /\ m.slot # 0 => m.slot \in Slots
        /\ StillMine(m) => m.slot \in Slots /\ slots[m.slot].eid = m.eid
    <2>1. m.eid \in Experts /\ m.slot \in 0 .. NSlots /\ m.eid \notin DOMAIN held
      BY <1>2, MissTypes DEF IInv, Parts
    <2>2. m.slot # 0 => m.slot \in Slots
      BY <2>1, Constants DEF Slots
    <2>. QED  BY <1>2, <2>1, <2>2 DEF Reserved, StillMine
  <1>4. slots \in [Slots -> Slot] /\ DOMAIN held \subseteq Experts
    BY DEF TypeOK
  <1>. DEFINE Still(n) == n.slot # 0 /\ gen[n.slot] = n.gen
  <1>5. /\ \A k \in DOMAIN misses : misses[k].slot # 0 =>
               /\ misses[k].gen <= gen[misses[k].slot]
               /\ Still(misses[k]) => slots[misses[k].slot].eid = misses[k].eid
        /\ \A i \in Slots : ~slots[i].ready =>
               \E k \in DOMAIN misses : Still(misses[k]) /\ misses[k].slot = i
        /\ StillMine(m) <=> Still(m)
    BY DEF Reserved, StillMine
  \* No later miss has its slot.
  <1>6. \A k \in DOMAIN misses : k # 1 /\ Still(misses[k]) /\ Still(m) => misses[k].slot # m.slot
    <2>. SUFFICES ASSUME NEW k \in DOMAIN misses, k # 1, Still(misses[k]), Still(m),
                         misses[k].slot = m.slot
                  PROVE  FALSE
      OBVIOUS
    <2>1. misses[k].eid = m.eid
      BY <1>2, <1>5
    <2>. QED  BY <1>2, <2>1 DEF IInv, Parts
  <1>7. (\A i \in Slots : slots'[i].ready = slots[i].ready /\ slots'[i].eid = slots[i].eid
                          /\ (slots[i].ready \/ ~(Still(m) /\ m.slot = i)))
            => Reserved'
    <2>. SUFFICES ASSUME \A i \in Slots : slots'[i].ready = slots[i].ready /\ slots'[i].eid = slots[i].eid
                             /\ (slots[i].ready \/ ~(Still(m) /\ m.slot = i))
                  PROVE  Reserved'
      OBVIOUS
    <2>1. ASSUME NEW k \in DOMAIN misses', misses'[k].slot # 0
          PROVE  /\ misses'[k].gen <= gen[misses'[k].slot]
                 /\ Still(misses'[k]) => slots'[misses'[k].slot].eid = misses'[k].eid
      <3>1. misses'[k] = misses[k + 1] /\ k + 1 \in DOMAIN misses /\ misses[k + 1].slot \in Slots
        <4>1. misses'[k] = misses[k + 1] /\ k + 1 \in DOMAIN misses
          BY <1>2
        <4>2. misses[k + 1].slot \in 0 .. NSlots /\ misses[k + 1].slot # 0
          BY <2>1, <4>1, MissTypes
        <4>. QED  BY <4>1, <4>2, Constants DEF Slots
      <3>. QED  BY <1>5, <2>1, <3>1
    <2>2. ASSUME NEW i \in Slots, ~slots'[i].ready
          PROVE  \E k \in DOMAIN misses' : Still(misses'[k]) /\ misses'[k].slot = i
      <3>1. PICK k \in DOMAIN misses : Still(misses[k]) /\ misses[k].slot = i
        BY <1>5, <2>2
      <3>2. k # 1
        BY <2>2, <3>1
      <3>. QED  BY <1>2, <3>1, <3>2
    <2>. QED  BY <1>1, <2>1, <2>2 DEF Reserved, StillMine
  <1>8. ASSUME NEW w \in Slots, w = m.slot, Still(m),
               slots'[w].ready, \A i \in Slots : i # w => slots'[i] = slots[i]
        PROVE  Reserved'
    <2>1. ASSUME NEW k \in DOMAIN misses', misses'[k].slot # 0
          PROVE  /\ misses'[k].gen <= gen[misses'[k].slot]
                 /\ Still(misses'[k]) => slots'[misses'[k].slot].eid = misses'[k].eid
      <3>1. misses'[k] = misses[k + 1] /\ k + 1 \in DOMAIN misses /\ k + 1 # 1
            /\ misses[k + 1].slot \in Slots
        <4>1. misses'[k] = misses[k + 1] /\ k + 1 \in DOMAIN misses /\ k + 1 # 1
          BY <1>2
        <4>2. misses[k + 1].slot \in 0 .. NSlots /\ misses[k + 1].slot # 0
          BY <2>1, <4>1, MissTypes
        <4>. QED  BY <4>1, <4>2, Constants DEF Slots
      <3>2. Still(misses[k + 1]) => misses[k + 1].slot # w
        BY <1>6, <1>8, <3>1
      <3>. QED  BY <1>5, <1>8, <2>1, <3>1, <3>2
    <2>2. ASSUME NEW i \in Slots, ~slots'[i].ready
          PROVE  \E k \in DOMAIN misses' : Still(misses'[k]) /\ misses'[k].slot = i
      <3>1. i # w
        BY <1>8, <2>2
      <3>2. PICK k \in DOMAIN misses : Still(misses[k]) /\ misses[k].slot = i
        BY <1>5, <1>8, <2>2, <3>1
      <3>3. k # 1
        BY <1>8, <3>1, <3>2
      <3>. QED  BY <1>2, <3>2, <3>3
    <2>. QED  BY <1>1, <2>1, <2>2 DEF Reserved, StillMine
  <1>. HIDE DEF Still
  <1>9. \A i \in Slots : ~slots[i].ready => slots[i].inuse = 0
    BY DEF IInv, SlotsOk
  \* Into the slot.
  <1>10. ASSUME CommitRead(m), StillMine(m), slots[m.slot].inuse = 0
         PROVE  Mapped' /\ Reserved' /\ Counted'
    <2>. DEFINE w == m.slot
    <2>1. /\ slots' = [slots EXCEPT ![w] = [eid |-> m.eid, ready |-> TRUE, inuse |-> 1, buf |-> m.buf]]
          /\ held' = [e \in DOMAIN held \cup {m.eid} |->
                IF e = m.eid THEN [tier |-> 0, slot |-> w, buf |-> m.buf, owned |-> FALSE] ELSE held[e]]
          /\ lruOf' = lruOf /\ w \in Slots /\ slots[w].eid = m.eid /\ w # 0
      BY <1>3, <1>10 DEF CommitRead, CopyHeld, StillMine
    <2>2. /\ slots'[w].eid = m.eid /\ slots'[w].ready /\ slots'[w].inuse = 1
          /\ \A i \in Slots : i # w => slots'[i] = slots[i]
      BY <1>4, <2>1
    <2>3. /\ DOMAIN held' = DOMAIN held \cup {m.eid} /\ \A e \in DOMAIN held : held'[e] = held[e]
          /\ held'[m.eid].slot = w /\ held'[m.eid].owned = FALSE /\ held'[m.eid].tier = 0
      BY <1>3, <2>1
    <2>4. Mapped'
      <3>1. \A i \in Slots : slots'[i].eid = slots[i].eid
        BY <2>1, <2>2
      <3>. QED  BY <1>1, <2>1, <3>1, MappedStays
    <2>5. Reserved'
      BY <1>5, <1>8, <1>10, <2>1, <2>2
    <2>6. /\ Uses(held', w) = Uses(held, w) + 1
          /\ \A i \in Slots : i # w => Uses(held', i) = Uses(held, i)
          /\ \A t \in Tier : TierUses(held', t) = TierUses(held, t)
      <3>1. \A t \in Tier : t # 0
        BY Constants DEF Tier
      <3>. QED  BY <1>3, <1>4, <2>3, <3>1, OneMore
    <2>7. Uses(held, w) = 0 /\ lost.slots[w] = 0
      <3>1. Uses(held, w) \in Nat /\ lost.slots[w] \in Nat /\ 0 = Uses(held, w) + lost.slots[w]
        BY <1>4, <1>10, <2>1, UsesFacts DEF Counted, InuseCounts
      <3>. QED  BY <3>1
    <2>8. InuseCounts'
      <3>1. \A i \in Slots : slots'[i].inuse = Uses(held', i) + lost'.slots[i]
        <4>1. \A i \in Slots : slots[i].inuse = Uses(held, i) + lost.slots[i]
          BY DEF Counted, InuseCounts
        <4>. QED  BY <1>1, <2>2, <2>6, <2>7, <4>1
      <3>2. \A t \in Tier : tier'[t].inuse = TierUses(held', t) + lost'.tier[t]
        BY <1>1, <2>6 DEF Counted, InuseCounts
      <3>. QED  BY <3>1, <3>2 DEF InuseCounts
    <2>9. Counted'
      BY <1>1, <2>3, <2>8 DEF Counted
    <2>. QED  BY <2>4, <2>5, <2>9
  \* A private copy.
  <1>11. ASSUME CommitRead(m), ~(StillMine(m) /\ slots[m.slot].inuse = 0)
         PROVE  Mapped' /\ Reserved' /\ Counted'
    <2>1. /\ slots' = slots /\ lruOf' = lruOf
          /\ held' = [e \in DOMAIN held \cup {m.eid} |->
                IF e = m.eid THEN [tier |-> 0, slot |-> 0, buf |-> m.buf, owned |-> TRUE] ELSE held[e]]
      BY <1>11 DEF CommitRead, CopyHeld
    <2>2. /\ DOMAIN held' = DOMAIN held \cup {m.eid} /\ \A e \in DOMAIN held : held'[e] = held[e]
          /\ held'[m.eid].slot = 0 /\ held'[m.eid].owned = TRUE /\ held'[m.eid].tier = 0
      BY <1>3, <2>1
    <2>3. Mapped'
      BY <1>1, <2>1, MappedStays
    <2>4. Reserved'
      BY <1>5, <1>7, <1>9, <1>11, <2>1
    <2>5. /\ \A i \in Slots : Uses(held', i) = Uses(held, i)
          /\ \A t \in Tier : TierUses(held', t) = TierUses(held, t)
      <3>1. \A t \in Tier : t # 0
        BY Constants DEF Tier
      <3>2. \A i : ~(held'[m.eid].slot = i /\ ~held'[m.eid].owned)
        BY <2>2
      <3>3. \A i \in Slots : Uses(held', i) = Uses(held, i)
        BY SMTT(30), <1>3, <1>4, <2>2, <3>2, OneMore
      <3>4. \A t \in Tier : TierUses(held', t) = TierUses(held, t)
        BY <1>3, <1>4, <2>2, <3>1, OneMore
      <3>. QED  BY <3>3, <3>4
    <2>6. InuseCounts'
      BY <1>1, <2>1, <2>5 DEF Counted, InuseCounts
    <2>7. Counted'
      BY <1>1, <2>2, <2>6 DEF Counted
    <2>. QED  BY <2>3, <2>4, <2>7
  \* The slot is emptied.
  <1>12. ASSUME CommitFailed(m), StillMine(m), slots[m.slot].inuse = 0
         PROVE  Mapped' /\ Reserved' /\ Counted'
    <2>. DEFINE w == m.slot
    <2>1. /\ slots' = [slots EXCEPT ![w] = [eid |-> None, ready |-> TRUE, inuse |-> 0, buf |-> 0]]
          /\ lruOf' = Unmapped(w) /\ held' = held /\ w \in Slots
      BY <1>3, <1>12 DEF CommitFailed
    <2>2. /\ slots'[w].eid = None /\ slots'[w].ready /\ slots'[w].inuse = 0
          /\ \A i \in Slots : i # w => slots'[i] = slots[i]
      BY <1>4, <2>1
    <2>3. Mapped'
      <3>1. ASSUME NEW i \in Slots, slots'[i].eid # None
            PROVE  lruOf'[slots'[i].eid] = i /\ i <= nLru
        <4>. DEFINE f == slots[i].eid
        <4>1. i # w /\ slots'[i].eid = f /\ f \in Experts
          BY <2>2, <3>1, SlotTypes
        <4>2. lruOf[f] = i /\ i <= nLru
          BY <3>1, <4>1 DEF Mapped
        <4>. HIDE DEF f
        <4>. QED  BY <2>1, <4>1, <4>2 DEF Unmapped
      <3>2. \A i \in Slots, t \in Tier : slots'[i].eid # None => slots'[i].eid # tier[t].eid
        BY <2>2 DEF Mapped
      <3>. QED  BY <1>1, <3>1, <3>2 DEF Mapped
    <2>4. Reserved'
      BY <1>5, <1>8, <1>12, <2>1, <2>2
    <2>5. \A i \in Slots : slots'[i].inuse = slots[i].inuse
      BY <1>12, <2>2
    <2>6. Counted'
      BY <1>1, <2>1, <2>5 DEF Counted, InuseCounts, Uses, TierUses
    <2>. QED  BY <2>3, <2>4, <2>6
  \* Somebody has the slot, or it is used.
  <1>13. ASSUME CommitFailed(m), ~(StillMine(m) /\ slots[m.slot].inuse = 0)
         PROVE  Mapped' /\ Reserved' /\ Counted'
    <2>1. /\ lruOf' = lruOf /\ held' = held
          /\ slots' = slots \/ (StillMine(m) /\ slots' = [slots EXCEPT ![m.slot].ready = TRUE])
      BY <1>13 DEF CommitFailed
    <2>2. \A i \in Slots : /\ slots'[i].eid = slots[i].eid /\ slots'[i].inuse = slots[i].inuse
                           /\ slots'[i].ready = slots[i].ready
      <3>1. CASE StillMine(m) /\ slots' = [slots EXCEPT ![m.slot].ready = TRUE]
        <4>1. m.slot \in Slots /\ slots[m.slot] \in Slot /\ slots[m.slot].ready \in BOOLEAN
          BY <1>3, <3>1, SlotTypes
        <4>2. slots[m.slot].ready
          BY <1>9, <1>13, <3>1, <4>1
        <4>. QED  BY <1>4, <3>1, <4>1, <4>2 DEF Slot
      <3>. QED  BY <2>1, <3>1
    <2>3. Mapped'
      BY <1>1, <2>1, <2>2, MappedStays
    <2>4. Reserved'
      BY <1>5, <1>7, <1>9, <1>13, <2>2
    <2>5. Counted'
      <3>1. held' = held /\ lost' = lost /\ tier' = tier
        BY <1>1, <2>1
      <3>2. InuseCounts'
        BY <2>2, <3>1 DEF Counted, InuseCounts, Uses, TierUses
      <3>. QED  BY <3>1, <3>2 DEF Counted
    <2>. QED  BY <2>3, <2>4, <2>5
  <1>. QED  BY <1>1, <1>10, <1>11, <1>12, <1>13

\* What a batch that failed held is lost, and still counted.
LEMMA FailsMaps == ASSUME CInv, Fails PROVE Mapped' /\ Reserved' /\ Counted'
  <1>. IInv /\ TypeOK /\ Mapped /\ Reserved /\ Counted
    BY DEF CInv, IInv
  <1>1. /\ slots' = slots /\ nLru' = nLru /\ lruOf' = lruOf /\ tier' = tier /\ tierOf' = tierOf
        /\ misses' = misses /\ DOMAIN misses = {} /\ held' = <<>> /\ DOMAIN held' = {}
        /\ lost'.slots = [i \in Slots |-> lost.slots[i] + Uses(held, i)]
        /\ lost'.tier = [t \in Tier |-> lost.tier[t] + TierUses(held, t)]
    BY DEF Fails, lruVars, tierVars, IInv, Stages
  <1>2. Mapped'
    BY <1>1, MappedStays
  <1>3. Reserved'
    BY <1>1, NothingMissed
  <1>4. \A i : /\ Uses(held, i) \in Nat /\ TierUses(held, i) \in Nat
               /\ Uses(held', i) = 0 /\ TierUses(held', i) = 0
    BY <1>1, UsesFacts, NothingHeld DEF TypeOK
  <1>5. lost'.slots \in [Slots -> Nat] /\ lost'.tier \in [Tier -> Nat]
    BY <1>1, <1>4 DEF Counted
  <1>6. InuseCounts'
    <2>1. /\ \A i \in Slots : slots[i].inuse = Uses(held, i) + lost.slots[i] /\ lost.slots[i] \in Nat
          /\ \A t \in Tier : tier[t].inuse = TierUses(held, t) + lost.tier[t] /\ lost.tier[t] \in Nat
      BY DEF Counted, InuseCounts
    <2>2. /\ \A i \in Slots : slots'[i].inuse = 0 + lost'.slots[i]
          /\ \A t \in Tier : tier'[t].inuse = 0 + lost'.tier[t]
      BY <1>1, <1>4, <2>1
    <2>. QED  BY <1>4, <2>2 DEF InuseCounts
  <1>. QED  BY <1>1, <1>2, <1>3, <1>5, <1>6 DEF Counted

\* A slot, and a place of the device, holds one expert: a batch uses it once.
LEMMA UsedOnce ==
    ASSUME CInv
    PROVE  /\ \A i \in Slots :
                  /\ (\E e \in DOMAIN held : held[e].slot = i /\ ~held[e].owned) => Uses(held, i) = 1
                  /\ ~(\E e \in DOMAIN held : held[e].slot = i /\ ~held[e].owned) => Uses(held, i) = 0
           /\ \A t \in Tier :
                  /\ (\E e \in DOMAIN held : held[e].tier = t) => TierUses(held, t) = 1
                  /\ ~(\E e \in DOMAIN held : held[e].tier = t) => TierUses(held, t) = 0
  <1>. IInv /\ Mapped /\ Counted
    BY DEF CInv
  <1>1. ASSUME NEW S, NEW x \in S, \A y \in S : y = x PROVE Cardinality(S) = 1
    <2>1. S = {x}
      BY <1>1
    <2>. QED  BY <2>1, FS_Singleton
  <1>2. ASSUME NEW i \in Slots
        PROVE  /\ (\E e \in DOMAIN held : held[e].slot = i /\ ~held[e].owned) => Uses(held, i) = 1
               /\ ~(\E e \in DOMAIN held : held[e].slot = i /\ ~held[e].owned) => Uses(held, i) = 0
    <2>. DEFINE S == {e \in DOMAIN held : held[e].slot = i /\ ~held[e].owned}
    <2>1. \A e \in S : slots[i].eid = e
      <3>1. i # 0
        BY Constants DEF Slots
      <3>. QED  BY <3>1 DEF Counted, IInv, HeldOk
    <2>2. S # {} <=> \E e \in DOMAIN held : held[e].slot = i /\ ~held[e].owned
      OBVIOUS
    <2>3. Uses(held, i) = Cardinality(S)
      BY DEF Uses
    <2>. HIDE DEF S
    <2>4. CASE S = {}
      BY <2>2, <2>3, <2>4, FS_EmptySet
    <2>5. CASE S # {}
      <3>1. PICK x \in S : TRUE
        BY <2>5
      <3>2. \A y \in S : y = x
        BY <2>1
      <3>3. Cardinality(S) = 1
        BY <1>1, <3>2
      <3>. QED  BY <2>2, <2>3, <2>5, <3>3
    <2>. QED  BY <2>4, <2>5
  <1>3. ASSUME NEW t \in Tier
        PROVE  /\ (\E e \in DOMAIN held : held[e].tier = t) => TierUses(held, t) = 1
               /\ ~(\E e \in DOMAIN held : held[e].tier = t) => TierUses(held, t) = 0
    <2>. DEFINE S == {e \in DOMAIN held : held[e].tier = t}
    <2>1. \A e \in S : tier[t].eid = e
      <3>1. t # 0
        BY Constants DEF Tier
      <3>. QED  BY <3>1 DEF IInv, HeldOk
    <2>2. S # {} <=> \E e \in DOMAIN held : held[e].tier = t
      OBVIOUS
    <2>3. TierUses(held, t) = Cardinality(S)
      BY DEF TierUses
    <2>. HIDE DEF S
    <2>4. CASE S = {}
      BY <2>2, <2>3, <2>4, FS_EmptySet
    <2>5. CASE S # {}
      <3>1. PICK x \in S : TRUE
        BY <2>5
      <3>2. \A y \in S : y = x
        BY <2>1
      <3>3. Cardinality(S) = 1
        BY <1>1, <3>2
      <3>. QED  BY <2>2, <2>3, <2>5, <3>3
    <2>. QED  BY <2>4, <2>5
  <1>. QED  BY <1>2, <1>3

\* A batch finds again, by their experts, the slots it holds, and no others.
LEMMA FoundAgain ==
    ASSUME CInv
    PROVE  /\ \A i \in Slots :
                  (\E e \in GivenBack : ~InTier(e) /\ InLru(e) /\ lruOf[e] = i) <=>
                      \E e \in DOMAIN held : held[e].slot = i /\ ~held[e].owned
           /\ \A t \in Tier :
                  (\E e \in GivenBack : InTier(e) /\ tierOf[e] = t) <=>
                      \E e \in DOMAIN held : held[e].tier = t
  <1>. IInv /\ TypeOK /\ Mapped /\ Counted
    BY DEF CInv, IInv
  <1>1. \A e \in GivenBack : /\ e \in DOMAIN held /\ ~held[e].owned /\ e \in Experts /\ e # None
                             /\ held[e].slot \in 0 .. NSlots /\ held[e].tier \in 0 .. NTier
                             /\ lruOf[e] \in 0 .. NSlots /\ tierOf[e] \in 0 .. NTier
    BY HeldTypes, Constants DEF GivenBack, TypeOK
  \* What is held on the device is found there, the rest in its slot.
  <1>2. ASSUME NEW e \in GivenBack, held[e].tier # 0
        PROVE  InTier(e) /\ tierOf[e] = held[e].tier
    <2>1. held[e].tier \in Tier /\ tier[held[e].tier].eid = e
      BY <1>1, <1>2, Constants DEF IInv, HeldOk, Tier
    <2>2. tierOf[e] = held[e].tier
      BY <1>1, <2>1 DEF Mapped
    <2>. QED  BY <1>2, <2>1, <2>2 DEF InTier
  <1>3. ASSUME NEW e \in GivenBack, held[e].tier = 0
        PROVE  ~InTier(e) /\ InLru(e) /\ lruOf[e] = held[e].slot /\ held[e].slot \in Slots
    <2>1. /\ held[e].slot \in Slots /\ slots[held[e].slot].eid = e /\ held[e].slot # 0
          /\ held[e].slot <= nLru /\ nLru \in Nat
      BY <1>1, <1>3, Constants DEF IInv, HeldOk, Slots, TypeOK
    <2>2. lruOf[e] = held[e].slot
      BY <1>1, <2>1 DEF Mapped
    <2>3. InLru(e)
      BY <2>1, <2>2, Constants DEF InLru, Slots
    <2>4. ~InTier(e)
      <3>1. tierOf[e] # 0 => tierOf[e] \in Tier
        BY <1>1, Constants DEF Tier
      <3>. QED  BY <1>1, <2>1, <3>1 DEF Mapped, InTier
    <2>. QED  BY <2>1, <2>2, <2>3, <2>4
  <1>4. ASSUME NEW i \in Slots
        PROVE  (\E e \in GivenBack : ~InTier(e) /\ InLru(e) /\ lruOf[e] = i) <=>
                   \E e \in DOMAIN held : held[e].slot = i /\ ~held[e].owned
    <2>1. ASSUME NEW e \in DOMAIN held, held[e].slot = i, ~held[e].owned
          PROVE  e \in GivenBack /\ ~InTier(e) /\ InLru(e) /\ lruOf[e] = i
      <3>1. e \in GivenBack /\ i # 0
        BY <2>1, Constants DEF GivenBack, Slots
      <3>2. held[e].tier = 0
        BY <2>1, <3>1 DEF Counted
      <3>. QED  BY <1>3, <2>1, <3>1, <3>2
    <2>2. ASSUME NEW e \in GivenBack, ~InTier(e), InLru(e), lruOf[e] = i
          PROVE  e \in DOMAIN held /\ held[e].slot = i /\ ~held[e].owned
      BY <1>1, <1>2, <1>3, <2>2
    <2>. QED  BY <2>1, <2>2
  <1>5. ASSUME NEW t \in Tier
        PROVE  (\E e \in GivenBack : InTier(e) /\ tierOf[e] = t) <=>
                   \E e \in DOMAIN held : held[e].tier = t
    <2>1. ASSUME NEW e \in DOMAIN held, held[e].tier = t
          PROVE  e \in GivenBack /\ InTier(e) /\ tierOf[e] = t
      <3>1. held[e].tier # 0
        BY <2>1, Constants DEF Tier
      <3>2. e \in GivenBack
        BY <3>1 DEF IInv, HeldOk, GivenBack
      <3>. QED  BY <1>2, <2>1, <3>1, <3>2
    <2>2. ASSUME NEW e \in GivenBack, InTier(e), tierOf[e] = t
          PROVE  e \in DOMAIN held /\ held[e].tier = t
      BY <1>1, <1>2, <1>3, <2>2
    <2>. QED  BY <2>1, <2>2
  <1>. QED  BY <1>4, <1>5

\* Every use is given back, and no other.
LEMMA ReleaseMaps == ASSUME CInv, Release PROVE Mapped' /\ Reserved' /\ Counted'
  <1>. IInv /\ TypeOK /\ Mapped /\ Reserved /\ Counted
    BY DEF CInv, IInv
  <1>1. /\ nLru' = nLru /\ lruOf' = lruOf /\ tierOf' = tierOf /\ lost' = lost
        /\ misses' = misses /\ DOMAIN misses = {} /\ held' = <<>> /\ DOMAIN held' = {}
    BY DEF Release, IInv, Stages
  <1>2. ASSUME NEW i \in Slots
        PROVE  /\ slots'[i].eid = slots[i].eid /\ slots'[i].ready = slots[i].ready
               /\ slots'[i].inuse = IF \E e \in DOMAIN held : held[e].slot = i /\ ~held[e].owned
                                    THEN Decremented(slots[i].inuse) ELSE slots[i].inuse
    <2>1. slots'[i] = IF \E e \in GivenBack : ~InTier(e) /\ InLru(e) /\ lruOf[e] = i
                      THEN [slots[i] EXCEPT !.inuse = Decremented(@)] ELSE slots[i]
      BY DEF Release
    <2>2. slots[i] \in Slot
      BY SlotTypes
    <2>3. (\E e \in GivenBack : ~InTier(e) /\ InLru(e) /\ lruOf[e] = i) <=>
              \E e \in DOMAIN held : held[e].slot = i /\ ~held[e].owned
      BY FoundAgain
    <2>. QED  BY <2>1, <2>2, <2>3 DEF Slot
  <1>3. ASSUME NEW t \in Tier
        PROVE  /\ tier'[t].eid = tier[t].eid
               /\ tier'[t].inuse = IF \E e \in DOMAIN held : held[e].tier = t
                                   THEN Decremented(tier[t].inuse) ELSE tier[t].inuse
    <2>1. tier'[t] = IF \E e \in GivenBack : InTier(e) /\ tierOf[e] = t
                     THEN [tier[t] EXCEPT !.inuse = Decremented(@)] ELSE tier[t]
      BY DEF Release
    <2>2. tier[t] \in Place
      BY DEF TypeOK
    <2>3. (\E e \in GivenBack : InTier(e) /\ tierOf[e] = t) <=> \E e \in DOMAIN held : held[e].tier = t
      BY FoundAgain
    <2>. QED  BY <2>1, <2>2, <2>3 DEF Place
  <1>4. Mapped'
    BY <1>1, <1>2, <1>3, MappedStays
  <1>5. Reserved'
    BY <1>1, <1>2, NothingMissed
  <1>6. \A n \in Nat : Decremented(1 + n) = n
    BY DEF Decremented
  <1>7. \A i \in Slots : slots'[i].inuse = 0 + lost.slots[i]
    <2>. TAKE i \in Slots
    <2>1. slots[i].inuse = Uses(held, i) + lost.slots[i] /\ lost.slots[i] \in Nat
      BY DEF Counted, InuseCounts
    <2>2. CASE \E e \in DOMAIN held : held[e].slot = i /\ ~held[e].owned
      <3>1. Uses(held, i) = 1 /\ slots'[i].inuse = Decremented(slots[i].inuse)
        BY <1>2, <2>2, UsedOnce
      <3>. QED  BY <1>6, <2>1, <3>1
    <2>3. CASE ~\E e \in DOMAIN held : held[e].slot = i /\ ~held[e].owned
      <3>1. Uses(held, i) = 0 /\ slots'[i].inuse = slots[i].inuse
        BY <1>2, <2>3, UsedOnce
      <3>. QED  BY <2>1, <3>1
    <2>. QED  BY <2>2, <2>3
  <1>8. \A t \in Tier : tier'[t].inuse = 0 + lost.tier[t]
    <2>. TAKE t \in Tier
    <2>1. tier[t].inuse = TierUses(held, t) + lost.tier[t] /\ lost.tier[t] \in Nat
      BY DEF Counted, InuseCounts
    <2>2. CASE \E e \in DOMAIN held : held[e].tier = t
      <3>1. TierUses(held, t) = 1 /\ tier'[t].inuse = Decremented(tier[t].inuse)
        BY <1>3, <2>2, UsedOnce
      <3>. QED  BY <1>6, <2>1, <3>1
    <2>3. CASE ~\E e \in DOMAIN held : held[e].tier = t
      <3>1. TierUses(held, t) = 0 /\ tier'[t].inuse = tier[t].inuse
        BY <1>3, <2>3, UsedOnce
      <3>. QED  BY <2>1, <3>1
    <2>. QED  BY <2>2, <2>3
  <1>9. InuseCounts'
    <2>1. \A i : Uses(held', i) = 0 /\ TierUses(held', i) = 0
      BY <1>1, NothingHeld
    <2>. QED  BY <1>1, <1>7, <1>8, <2>1 DEF InuseCounts
  <1>. QED  BY <1>1, <1>4, <1>5, <1>9 DEF Counted

\* Every step keeps the invariant.
LEMMA NextMaps == ASSUME CInv, [Next]_vars PROVE CInv'
  <1>1. IInv'
    BY NextKeeps DEF CInv
  <1>2. CASE UNCHANGED vars
    <2>1. /\ slots' = slots /\ nLru' = nLru /\ lruOf' = lruOf /\ tier' = tier /\ tierOf' = tierOf
          /\ misses' = misses /\ held' = held /\ lost' = lost /\ gen' = gen
      BY <1>2 DEF vars, lruVars, tierVars, batchVars
    <2>2. Mapped' /\ Reserved'
      BY <2>1 DEF CInv, Mapped, Reserved, StillMine
    <2>3. Counted'
      BY <2>1 DEF CInv, Counted, InuseCounts, Uses, TierUses
    <2>. QED  BY <1>1, <2>2, <2>3 DEF CInv
  <1>. QED  BY <1>1, <1>2, SweepsMap, ScanMaps, CollectMaps, FetchMaps, FetchedMaps, CommitMaps,
               FailsMaps, ReleaseMaps DEF CInv, Next

\* It holds of every behaviour.
LEMMA Accounted == Spec => []CInv
  <1>1. CInv /\ [Next]_vars => CInv'
    BY NextMaps
  <1>. QED  BY <1>1, InitCInv, PTL DEF Spec

\* A slot, and a place of the device, counts as used by as many as hold it
\* (slot_take_ready, miss_commit, live_slot_find, live_slot_unuse).
THEOREM UsesAreCounted == Spec => []InuseCounts
  <1>1. CInv => InuseCounts
    BY DEF CInv, Counted
  <1>. QED  BY <1>1, Accounted, PTL

\* Between batches every slot is ready, has its expert's weights, and an expert
\* is found in one place (layer_insert_lru, miss_commit, tier_sweep).
THEOREM BatchesLeaveItSettled == Spec => []Settled
  <1>1. ASSUME CInv PROVE Settled
    <2>. SUFFICES ASSUME pc = "idle"
                  PROVE  /\ \A i \in Slots : slots[i].ready
                         /\ \A i \in Slots : slots[i].eid # None =>
                                bufs[slots[i].buf] = slots[i].eid /\ lruOf[slots[i].eid] = i
                         /\ \A t \in Tier : tier[t].eid # None => tierOf[tier[t].eid] = t
                         /\ \A e \in Experts : ~(InTier(e) /\ InLru(e))
      BY DEF Settled
    <2>. IInv /\ TypeOK /\ Mapped /\ Reserved
      BY <1>1 DEF CInv, IInv
    <2>1. DOMAIN misses = {}
      BY DEF IInv, Stages
    <2>2. \A i \in Slots : slots[i].ready
      BY <2>1 DEF Reserved
    <2>3. \A i \in Slots : slots[i].eid # None =>
              bufs[slots[i].buf] = slots[i].eid /\ lruOf[slots[i].eid] = i
      BY <2>2 DEF IInv, SlotsOk, Mapped
    <2>4. \A t \in Tier : tier[t].eid # None => tierOf[tier[t].eid] = t
      BY DEF Mapped
    <2>5. ASSUME NEW e \in Experts, InTier(e), InLru(e) PROVE FALSE
      <3>1. /\ lruOf[e] \in 0 .. NSlots /\ tierOf[e] \in 0 .. NTier /\ e # None
            /\ NSlots \in Nat /\ NTier \in Nat /\ nLru \in Nat
        BY Constants DEF TypeOK
      <3>2. lruOf[e] \in Slots /\ tierOf[e] \in Tier
        BY <2>5, <3>1 DEF InTier, InLru, Slots, Tier
      <3>. QED  BY <2>5, <3>1, <3>2 DEF Mapped, InTier, InLru
    <2>. QED  BY <2>2, <2>3, <2>4, <2>5
  <1>. QED  BY <1>1, Accounted, PTL
=============================================================================
