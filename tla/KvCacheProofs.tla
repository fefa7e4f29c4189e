---------------------------- MODULE KvCacheProofs ----------------------------
(***************************************************************************)
(* Proofs about KvCache, for any tokens, any length of the context, of the *)
(* window and of the chunks: a prompt that reuses rows of the turn before, *)
(* moved or not, ends with exactly its tokens fed; and while the first row *)
(* that is kept stays where it is, a token attends to exactly its window.  *)
(*                                                                         *)
(* PlanSafe alone is not inductive.  What keeps chunks moving towards the  *)
(* front is that the two heads of kv_reuse_plan_build stand at the same    *)
(* position only before its first turn, where the tokens differ or the     *)
(* prompt ends; and what is fed stays the prompt because chunks that wait  *)
(* to be adopted remain in order and inside it.                            *)
(***************************************************************************)
EXTENDS KvCache, SequenceTheorems, WellFoundedInduction, TLAPS

Chunk == [src : Nat, dst : Nat, n : Nat]

TypeOK ==
    /\ fed \in Seq(Tokens) /\ ids \in Seq(Tokens)
    /\ reuse \in Nat /\ headC \in Nat /\ headP \in Nat
    /\ plan \in Seq(Chunk)
    /\ pc \in {"idle", "plan", "shift", "prefill", "poisoned"}

\* The heads are past every chunk, and at the same position only where
\* nothing matches.
Heads ==
    pc = "plan" =>
        /\ reuse <= headP /\ headP <= headC /\ headC <= NPos /\ headP <= Len(ids)
        /\ headC = headP => headP >= Len(ids) - 1 \/ fed[headC + 1] # ids[headP + 1]
        /\ \A i \in DOMAIN plan : /\ plan[i].dst + plan[i].n <= headP
                                  /\ plan[i].src + plan[i].n <= headC

\* The tokens that stay where they are.
Prefix ==
    pc \in {"plan", "shift"} =>
        /\ reuse <= NPos /\ reuse <= Len(ids)
        /\ \A t \in 1 .. reuse : fed[t] = ids[t]

\* Chunks that wait to be adopted.
Pending ==
    pc = "prefill" =>
        \A i \in DOMAIN plan :
            /\ plan[i].dst + plan[i].n < Len(ids)
            /\ \A j \in 1 .. i - 1 : plan[j].dst + plan[j].n <= plan[i].dst

IInv == TypeOK /\ Heads /\ Prefix /\ Pending /\ PlanSafe

core == <<fed, pc, ids, reuse, headC, headP, plan>>

-----------------------------------------------------------------------------
(* Longest matches exist.                                                  *)

LEMMA LessIsWellFounded == IsWellFoundedOn({p \in Nat \X Nat : p[1] < p[2]}, Nat)
  BY NatLessThanWellFounded DEF OpToRel

\* A set of natural numbers with an upper bound has a greatest element.
LEMMA Greatest ==
    ASSUME NEW S \in SUBSET Nat, NEW b \in Nat, \A s \in S : s <= b, S # {}
    PROVE  \E m \in S : \A s \in S : s <= m
  <1>. DEFINE T == {b - s : s \in S}
              R == {p \in Nat \X Nat : p[1] < p[2]}
  <1>1. T \in SUBSET Nat /\ T # {}
    <2>1. \A s \in S : b - s \in Nat
      OBVIOUS
    <2>2. T \subseteq Nat
      BY <2>1
    <2>3. PICK s \in S : TRUE
      OBVIOUS
    <2>4. b - s \in T
      OBVIOUS
    <2>. QED  BY <2>2, <2>4
  <1>2. PICK x \in T : \A y \in T : ~ (<<y, x>> \in R)
    <2>. HIDE DEF T
    <2>. QED  BY <1>1, LessIsWellFounded, WFMin
  <1>3. \A y \in T : x <= y
    <2>. HIDE DEF T
    <2>. SUFFICES ASSUME NEW y \in T, ~(x <= y) PROVE FALSE
      OBVIOUS
    <2>1. y \in Nat /\ x \in Nat
      BY <1>1
    <2>2. <<y, x>> \in R
      BY <2>1
    <2>. QED  BY <1>2, <2>2
  <1>4. PICK m \in S : x = b - m
    OBVIOUS
  <1>5. \A s \in S : s <= m
    <2>. SUFFICES ASSUME NEW s \in S PROVE s <= m
      OBVIOUS
    <2>1. b - s \in T
      OBVIOUS
    <2>2. b - m <= b - s
      BY <1>3, <1>4, <2>1
    <2>3. s \in Nat /\ m \in Nat
      OBVIOUS
    <2>. QED  BY <2>2, <2>3
  <1>. QED  BY <1>5

\* Two sequences agree for k tokens from two positions on, and no further if
\* the bound allows for more.
Agree(s, t, o, q, b, k) ==
    /\ \A i \in 1 .. k : s[o + i] = t[q + i]
    /\ k < b => s[o + k + 1] # t[q + k + 1]

LEMMA LongestMatch ==
    ASSUME NEW s, NEW t, NEW o \in Nat, NEW q \in Nat, NEW b \in Nat
    PROVE  \E k \in 0 .. b : Agree(s, t, o, q, b, k)
  <1>. DEFINE S == {k \in 0 .. b : \A i \in 1 .. k : s[o + i] = t[q + i]}
  <1>1. S \in SUBSET Nat /\ (\A k \in S : k <= b) /\ S # {}
    <2>1. 0 \in S
      OBVIOUS
    <2>2. S \subseteq 0 .. b
      OBVIOUS
    <2>. HIDE DEF S
    <2>. QED  BY <2>1, <2>2
  <1>2. PICK m \in S : \A k \in S : k <= m
    <2>. HIDE DEF S
    <2>. QED  BY <1>1, Greatest
  <1>3. ASSUME m < b, s[o + m + 1] = t[q + m + 1] PROVE FALSE
    <2>1. m + 1 \in 0 .. b
      BY <1>3
    <2>2. ASSUME NEW i \in 1 .. m + 1 PROVE s[o + i] = t[q + i]
      <3>1. CASE i \in 1 .. m
        BY <3>1
      <3>2. CASE i = m + 1
        <4>1. o + i = o + m + 1 /\ q + i = q + m + 1
          BY <3>2
        <4>. QED  BY <1>3, <4>1
      <3>. QED  BY <3>1, <3>2
    <2>3. m + 1 \in S
      BY <2>1, <2>2
    <2>4. m + 1 <= m
      <3>. HIDE DEF S
      <3>. QED  BY <1>2, <2>3
    <2>5. m \in Nat
      BY <1>1
    <2>. QED  BY <2>4, <2>5
  <1>. QED  BY <1>3 DEF Agree

\* fed_ids_common_prefix returns the length of a common prefix, the longest.
LEMMA CommonLenFacts ==
    ASSUME TypeOK, NEW p \in Seq(Tokens)
    PROVE  /\ CommonLen(p) \in Nat /\ CommonLen(p) <= NPos /\ CommonLen(p) <= Len(p)
           /\ \A i \in 1 .. CommonLen(p) : fed[i] = p[i]
           /\ CommonLen(p) < NPos /\ CommonLen(p) < Len(p) =>
                  fed[CommonLen(p) + 1] # p[CommonLen(p) + 1]
  <1>. DEFINE b == Min2(NPos, Len(p))
              Is(k) == /\ \A i \in 1 .. k : fed[i] = p[i]
                       /\ k < b => fed[k + 1] # p[k + 1]
  <1>1. b \in Nat /\ b <= NPos /\ b <= Len(p) /\ (b = NPos \/ b = Len(p))
    BY DEF TypeOK, NPos, Min2
  <1>2. PICK k \in 0 .. b : Agree(fed, p, 0, 0, b, k)
    <2>. HIDE DEF b
    <2>1. 0 \in Nat /\ b \in Nat
      BY <1>1
    <2>. QED  BY <2>1, LongestMatch
  <1>3. Is(k)
    <2>1. \A i \in 1 .. k : fed[i] = p[i]
      <3>. HIDE DEF b
      <3>1. \A i \in 1 .. k : 0 + i = i
        BY <1>1, <1>2
      <3>. QED  BY <3>1, <1>2 DEF Agree
    <2>2. k < b => fed[k + 1] # p[k + 1]
      <3>. HIDE DEF b
      <3>1. 0 + k + 1 = k + 1
        BY <1>1, <1>2
      <3>. QED  BY <3>1, <1>2 DEF Agree
    <2>. QED  BY <2>1, <2>2
  <1>4. CommonLen(p) = CHOOSE m \in 0 .. b : Is(m)
    BY DEF CommonLen
  <1>5. CommonLen(p) \in 0 .. b /\ Is(CommonLen(p))
    <2>. HIDE DEF b, Is
    <2>. QED  BY <1>3, <1>4
  <1>. HIDE DEF b
  <1>. QED  BY <1>1, <1>5 DEF TypeOK, NPos

\* What Matched returns while there is a chunk to look for.
LEMMA MatchedFacts ==
    ASSUME TypeOK, headC < NPos, headP < Len(ids) - 1
    PROVE  /\ Matched \in Nat
           /\ headC + Matched <= NPos /\ headP + Matched <= Len(ids) - 1
           /\ \A i \in 1 .. Matched : fed[headC + i] = ids[headP + i]
  <1>. DEFINE b == Min2(NPos - headC, Len(ids) - 1 - headP)
              Is(k) == /\ headC + k <= NPos /\ headP + k <= Len(ids) - 1
                       /\ \A i \in 1 .. k : fed[headC + i] = ids[headP + i]
                       /\ headC + k < NPos /\ headP + k < Len(ids) - 1 =>
                              fed[headC + k + 1] # ids[headP + k + 1]
  <1>1. b \in Nat /\ b <= NPos - headC /\ b <= Len(ids) - 1 - headP
        /\ (b = NPos - headC \/ b = Len(ids) - 1 - headP)
    BY DEF TypeOK, NPos, Min2
  <1>. HIDE DEF b
  <1>2. PICK k \in 0 .. b : Agree(fed, ids, headC, headP, b, k)
    <2>1. headC \in Nat /\ headP \in Nat /\ b \in Nat
      BY <1>1 DEF TypeOK
    <2>. QED  BY <2>1, LongestMatch
  <1>3. Is(k) /\ k \in 0 .. NPos
    BY <1>1, <1>2 DEF TypeOK, NPos, Agree
  <1>4. Matched = CHOOSE m \in 0 .. NPos : Is(m)
    BY DEF Matched
  <1>5. Matched \in 0 .. NPos /\ Is(Matched)
    <2>. HIDE DEF Is
    <2>. QED  BY <1>3, <1>4
  <1>. QED  BY <1>5 DEF TypeOK, NPos

-----------------------------------------------------------------------------
(* The steps.                                                              *)

\* Rows, the first row and other sessions do not touch what is planned.
LEMMA CoreUntouched == ASSUME IInv, UNCHANGED core PROVE IInv'
  BY DEF IInv, TypeOK, Heads, Prefix, Pending, PlanSafe, NPos, core

\* Outside a prompt there is nothing but the types.
LEMMA OutsidePrompt ==
    ASSUME TypeOK', pc' \in {"idle", "poisoned"} PROVE IInv'
  BY DEF IInv, Heads, Prefix, Pending, PlanSafe

LEMMA PromptsAreSequences == ASSUME NEW p \in Prompts PROVE p \in Seq(Tokens) /\ Len(p) > 0
  <1>1. PICK n \in 1 .. NCtx : p \in [1 .. n -> Tokens]
    BY DEF Prompts
  <1>2. n \in Nat /\ n > 0
    BY <1>1, KvAssumption
  <1>. QED  BY <1>1, <1>2, IsASeq

LEMMA PlanFacts ==
    ASSUME TypeOK
    PROVE  /\ DOMAIN plan = 1 .. Len(plan) /\ Len(plan) \in Nat /\ NPos \in Nat /\ Len(ids) \in Nat
           /\ \A i \in DOMAIN plan : plan[i] \in Chunk /\ plan[i].src \in Nat
                                     /\ plan[i].dst \in Nat /\ plan[i].n \in Nat
  <1>1. \A i \in DOMAIN plan : plan[i] \in Chunk
    BY DEF TypeOK
  <1>. QED  BY <1>1 DEF TypeOK, NPos, Chunk

LEMMA BeginKeeps == ASSUME IInv, NEW p \in Prompts, Begin(p) PROVE IInv'
  <1>1. p \in Seq(Tokens) /\ Len(p) \in Nat /\ Len(p) > 0
    BY PromptsAreSequences
  <1>2. TypeOK /\ NPos \in Nat
    BY PlanFacts DEF IInv
  <1>3. /\ CommonLen(p) \in Nat /\ CommonLen(p) <= NPos /\ CommonLen(p) <= Len(p)
        /\ \A i \in 1 .. CommonLen(p) : fed[i] = p[i]
        /\ CommonLen(p) < NPos /\ CommonLen(p) < Len(p) =>
               fed[CommonLen(p) + 1] # p[CommonLen(p) + 1]
    BY <1>1, <1>2, CommonLenFacts
  <1>4. /\ Reused(p) \in Nat /\ Reused(p) <= NPos /\ Reused(p) <= Len(p)
        /\ \A i \in 1 .. Reused(p) : fed[i] = p[i]
        /\ Reused(p) < NPos => Reused(p) >= Len(p) - 1 \/ fed[Reused(p) + 1] # p[Reused(p) + 1]
    BY <1>1, <1>2, <1>3 DEF Reused
  <1>5. /\ ids' = p /\ reuse' = Reused(p) /\ headC' = Reused(p) /\ headP' = Reused(p)
        /\ plan' = <<>>
    BY DEF Begin
  <1>6. plan' \in Seq(Chunk) /\ DOMAIN plan' = {}
    BY <1>5
  <1>7. CASE pc' = "plan" /\ UNCHANGED fed /\ Reused(p) < NPos
    <2>1. TypeOK'
      BY <1>1, <1>2, <1>4, <1>5, <1>6, <1>7 DEF TypeOK
    <2>2. Heads'
      BY <1>1, <1>2, <1>4, <1>5, <1>6, <1>7 DEF Heads, NPos
    <2>3. Prefix'
      BY <1>1, <1>2, <1>4, <1>5, <1>7 DEF Prefix, NPos
    <2>4. Pending' /\ PlanSafe'
      BY <1>6, <1>7 DEF Pending, PlanSafe
    <2>. QED  BY <2>1, <2>2, <2>3, <2>4 DEF IInv
  <1>8. CASE /\ pc' = "prefill"
             /\ \/ UNCHANGED fed /\ Reused(p) >= NPos
                \/ fed' = SubSeq(fed, 1, Reused(p))
    <2>1. /\ fed' \in Seq(Tokens) /\ NPos' = Reused(p)
          /\ \A i \in 1 .. NPos' : fed'[i] = p[i]
      <3>1. CASE UNCHANGED fed /\ Reused(p) >= NPos
        BY <3>1, <1>2, <1>4 DEF TypeOK, NPos
      <3>2. CASE fed' = SubSeq(fed, 1, Reused(p))
        <4>1. \A i \in 1 .. Reused(p) : fed[i] \in Tokens
          BY <1>2, <1>4 DEF TypeOK, NPos
        <4>2. /\ SubSeq(fed, 1, Reused(p)) \in Seq(Tokens)
              /\ Len(SubSeq(fed, 1, Reused(p))) = Reused(p)
              /\ \A i \in 1 .. Reused(p) : SubSeq(fed, 1, Reused(p))[i] = fed[i]
          BY <1>4, <4>1
        <4>. QED  BY <3>2, <4>2, <1>4 DEF NPos
      <3>. QED  BY <1>8, <3>1, <3>2
    <2>2. TypeOK'
      BY <1>1, <1>4, <1>5, <1>6, <1>8, <2>1 DEF TypeOK
    <2>3. Heads' /\ Prefix' /\ Pending'
      BY <1>6, <1>8 DEF Heads, Prefix, Pending
    <2>4. PlanSafe'
      BY <1>1, <1>4, <1>5, <1>6, <1>8, <2>1 DEF PlanSafe
    <2>. QED  BY <2>2, <2>3, <2>4 DEF IInv
  <1>. QED  BY <1>2, <1>4, <1>7, <1>8 DEF Begin

LEMMA PlanSkipKeeps == ASSUME IInv, PlanSkip PROVE IInv'
  <1>1. /\ TypeOK /\ NPos \in Nat /\ headC \in Nat /\ headP \in Nat /\ headC < NPos
        /\ pc = "plan" /\ pc' = "plan" /\ headC' = headC + 1
        /\ UNCHANGED <<fed, ids, reuse, headP, plan>>
    BY PlanFacts DEF IInv, TypeOK, PlanSkip, Planning, cacheVars
  <1>2. TypeOK'
    BY <1>1 DEF TypeOK
  <1>3. Heads'
    BY <1>1, PlanFacts DEF IInv, Heads, NPos
  <1>4. Prefix' /\ Pending' /\ PlanSafe'
    BY <1>1 DEF IInv, Prefix, Pending, PlanSafe, NPos
  <1>. QED  BY <1>2, <1>3, <1>4 DEF IInv

LEMMA PlanTakeKeeps == ASSUME IInv, PlanTake PROVE IInv'
  <1>. DEFINE c == [src |-> headC, dst |-> headP, n |-> Matched]
  <1>1. /\ TypeOK /\ NPos \in Nat /\ headC \in Nat /\ headP \in Nat
        /\ headC < NPos /\ headP < Len(ids) - 1 /\ Matched >= MinChunk
        /\ pc = "plan" /\ pc' = "plan"
        /\ headC' = headC + Matched /\ headP' = headP + Matched /\ plan' = Append(plan, c)
        /\ UNCHANGED <<fed, ids, reuse>>
    BY PlanFacts DEF IInv, TypeOK, PlanTake, Planning, cacheVars
  <1>2. /\ Matched \in Nat
        /\ headC + Matched <= NPos /\ headP + Matched <= Len(ids) - 1
        /\ \A i \in 1 .. Matched : fed[headC + i] = ids[headP + i]
    BY <1>1, MatchedFacts
  <1>3. /\ plan' \in Seq(Chunk) /\ DOMAIN plan' = 1 .. Len(plan) + 1
        /\ \A i \in 1 .. Len(plan) : plan'[i] = plan[i]
        /\ plan'[Len(plan) + 1] = c
    <2>1. c \in Chunk
      BY <1>1, <1>2 DEF Chunk
    <2>. HIDE DEF c
    <2>. QED  BY <1>1, <2>1, AppendProperties DEF TypeOK
  <1>4. MinChunk \in Nat /\ MinChunk > 0
    BY KvAssumption
  <1>5. /\ reuse <= headP /\ headP <= headC
        /\ headC = headP => headP >= Len(ids) - 1 \/ fed[headC + 1] # ids[headP + 1]
    BY <1>1 DEF IInv, Heads
  <1>6. headP < headC
    <2>. SUFFICES ASSUME headC = headP PROVE FALSE
      BY <1>1, <1>5
    <2>1. fed[headC + 1] # ids[headP + 1]
      BY <1>1, <1>5, PlanFacts
    <2>2. 1 \in 1 .. Matched
      BY <1>1, <1>2, <1>4
    <2>. QED  BY <1>2, <2>1, <2>2
  <1>7. TypeOK'
    BY <1>1, <1>2, <1>3 DEF TypeOK
  <1>8. NPos' = NPos /\ Len(ids') = Len(ids) /\ NPos \in Nat /\ Len(ids) \in Nat /\ reuse \in Nat
    BY <1>1, PlanFacts DEF NPos, TypeOK
  <1>9. \A i \in 1 .. Len(plan) : /\ plan[i].dst + plan[i].n <= headP
                                  /\ plan[i].src + plan[i].n <= headC
                                  /\ plan[i].dst \in Nat /\ plan[i].src \in Nat /\ plan[i].n \in Nat
    BY <1>1, PlanFacts DEF IInv, Heads
  <1>10. Heads'
    <2>1. ASSUME NEW i \in 1 .. Len(plan) + 1
          PROVE  /\ plan'[i].dst + plan'[i].n <= headP'
                 /\ plan'[i].src + plan'[i].n <= headC'
      <3>1. CASE i \in 1 .. Len(plan)
        BY SMTT(30), <3>1, <1>1, <1>2, <1>3, <1>9
      <3>2. CASE i = Len(plan) + 1
        BY <3>2, <1>1, <1>2, <1>3
      <3>. QED  BY <3>1, <3>2, <1>1, PlanFacts
    <2>2. /\ reuse' <= headP' /\ headP' <= headC' /\ headC' <= NPos' /\ headP' <= Len(ids')
          /\ headC' # headP'
      BY <1>1, <1>2, <1>5, <1>6, <1>8
    <2>. QED  BY <1>3, <2>1, <2>2 DEF Heads
  <1>11. Prefix' /\ Pending'
    BY <1>1, <1>8 DEF IInv, Prefix, Pending
  <1>12. PlanSafe'
    <2>1. ASSUME NEW i \in 1 .. Len(plan) + 1
          PROVE  /\ plan'[i].n >= MinChunk /\ reuse <= plan'[i].dst
                 /\ plan'[i].dst < plan'[i].src
                 /\ plan'[i].src + plan'[i].n <= NPos /\ plan'[i].dst + plan'[i].n < Len(ids)
                 /\ \A t \in 1 .. plan'[i].n : fed[plan'[i].src + t] = ids[plan'[i].dst + t]
                 /\ \A j \in 1 .. i - 1 : /\ plan'[j].dst + plan'[j].n <= plan'[i].dst
                                          /\ plan'[j].src + plan'[j].n <= plan'[i].src
      <3>1. CASE i \in 1 .. Len(plan)
        <4>1. plan'[i] = plan[i] /\ \A j \in 1 .. i - 1 : plan'[j] = plan[j]
          BY <3>1, <1>1, <1>3, PlanFacts
        <4>2. i \in DOMAIN plan
          BY <3>1, <1>1, PlanFacts
        <4>. QED  BY SMTT(30), <4>1, <4>2, <1>1 DEF IInv, PlanSafe
      <3>2. CASE i = Len(plan) + 1
        <4>1. /\ plan'[i].src = headC /\ plan'[i].dst = headP /\ plan'[i].n = Matched
          BY <3>2, <1>3
        <4>2. \A j \in 1 .. i - 1 : j \in 1 .. Len(plan) /\ plan'[j] = plan[j]
          BY <3>2, <1>1, <1>3, PlanFacts
        <4>3. \A j \in 1 .. i - 1 : /\ plan'[j].dst + plan'[j].n <= headP
                                    /\ plan'[j].src + plan'[j].n <= headC
          BY <4>2, <1>9
        <4>4. headP + Matched < Len(ids)
          BY <1>1, <1>2, <1>8
        <4>. QED  BY <4>1, <4>3, <4>4, <1>1, <1>2, <1>5, <1>6
      <3>3. i \in 1 .. Len(plan) \/ i = Len(plan) + 1
        BY <1>1, PlanFacts
      <3>. QED  BY <3>1, <3>2, <3>3
    <2>2. ids' = ids /\ fed' = fed /\ reuse' = reuse /\ pc' = "plan"
      BY <1>1
    <2>. QED  BY <2>1, <2>2, <1>3, <1>8 DEF PlanSafe
  <1>. QED  BY <1>7, <1>10, <1>11, <1>12 DEF IInv
\* context_rewind to what stays where it is leaves a prefix of the prompt.
LEMMA RewoundFacts ==
    ASSUME TypeOK, Prefix, pc \in {"plan", "shift"}, Rewound, ids' = ids
    PROVE  /\ fed' \in Seq(Tokens) /\ NPos' = reuse /\ NPos' <= Len(ids')
           /\ \A t \in 1 .. NPos' : fed'[t] = ids'[t]
  <1>1. /\ reuse \in Nat /\ reuse <= Len(fed) /\ Len(fed) \in Nat
        /\ \A t \in 1 .. reuse : fed[t] \in Tokens /\ fed[t] = ids[t]
    BY DEF TypeOK, Prefix, NPos
  <1>2. /\ SubSeq(fed, 1, reuse) \in Seq(Tokens)
        /\ Len(SubSeq(fed, 1, reuse)) = reuse
        /\ \A i \in 1 .. reuse : SubSeq(fed, 1, reuse)[i] = fed[i]
    BY <1>1
  <1>3. reuse <= Len(ids)
    BY DEF Prefix
  <1>. QED  BY <1>1, <1>2, <1>3 DEF Rewound, NPos

\* Rows that cannot be moved are fed again.
LEMMA WithoutPlan ==
    ASSUME IInv, pc \in {"plan", "shift"}, Rewound, plan' = <<>>, pc' = "prefill",
           UNCHANGED <<ids, reuse, headC, headP>>
    PROVE  IInv'
  <1>1. /\ fed' \in Seq(Tokens) /\ NPos' <= Len(ids')
        /\ \A t \in 1 .. NPos' : fed'[t] = ids'[t]
    BY RewoundFacts DEF IInv
  <1>2. plan' \in Seq(Chunk) /\ DOMAIN plan' = {}
    OBVIOUS
  <1>3. TypeOK'
    BY <1>1, <1>2 DEF IInv, TypeOK
  <1>4. Heads' /\ Prefix' /\ Pending' /\ PlanSafe'
    BY <1>1, <1>2 DEF Heads, Prefix, Pending, PlanSafe
  <1>. QED  BY <1>3, <1>4 DEF IInv

LEMMA ShiftBeginsKeeps == ASSUME IInv, ShiftBegins PROVE IInv'
  <1>1. pc = "plan" /\ pc' = "shift" /\ UNCHANGED <<fed, ids, reuse, headC, headP, plan>>
    BY DEF ShiftBegins, cacheVars
  <1>2. TypeOK'
    BY <1>1 DEF IInv, TypeOK
  <1>3. Heads' /\ Prefix' /\ Pending' /\ PlanSafe'
    BY <1>1 DEF IInv, Heads, Prefix, Pending, PlanSafe, NPos
  <1>. QED  BY <1>2, <1>3 DEF IInv

LEMMA ShiftEndsKeeps == ASSUME IInv, ShiftEnds PROVE IInv'
  <1>1. /\ pc = "shift" /\ pc' = "prefill" /\ plan' \in {plan, <<>>} /\ Rewound
        /\ UNCHANGED <<ids, reuse, headC, headP>>
    BY DEF ShiftEnds
  <1>2. CASE plan' = <<>>
    BY <1>1, <1>2, WithoutPlan
  <1>3. CASE plan' = plan
    <2>1. /\ fed' \in Seq(Tokens) /\ NPos' = reuse /\ NPos' <= Len(ids')
          /\ \A t \in 1 .. NPos' : fed'[t] = ids'[t]
      BY <1>1, RewoundFacts DEF IInv
    <2>2. TypeOK'
      BY <1>1, <1>3, <2>1 DEF IInv, TypeOK
    <2>3. \A i \in DOMAIN plan :
              /\ reuse <= plan[i].dst /\ plan[i].dst + plan[i].n < Len(ids)
              /\ \A j \in 1 .. i - 1 : plan[j].dst + plan[j].n <= plan[i].dst
      BY <1>1 DEF IInv, PlanSafe
    <2>4. Heads' /\ Prefix'
      BY <1>1 DEF Heads, Prefix
    <2>5. Pending'
      BY <1>1, <1>3, <2>3 DEF Pending
    <2>6. PlanSafe'
      BY <1>1, <1>3, <2>1, <2>3 DEF PlanSafe
    <2>. QED  BY <2>2, <2>4, <2>5, <2>6 DEF IInv
  <1>. QED  BY <1>1, <1>2, <1>3

\* The tokens of a sequence from one position up to another.
LEMMA SliceFacts ==
    ASSUME NEW s \in Seq(Tokens), NEW a \in Nat, NEW b \in Nat, a <= b, b <= Len(s)
    PROVE  /\ SubSeq(s, a + 1, b) \in Seq(Tokens)
           /\ Len(SubSeq(s, a + 1, b)) = b - a
           /\ \A i \in 1 .. b - a : SubSeq(s, a + 1, b)[i] = s[a + i]
  <1>1. \A i \in a + 1 .. b : s[i] \in Tokens
    OBVIOUS
  <1>2. /\ SubSeq(s, a + 1, b) \in Seq(Tokens)
        /\ Len(SubSeq(s, a + 1, b)) = IF a + 1 <= b THEN b - (a + 1) + 1 ELSE 0
        /\ \A i \in 1 .. b - (a + 1) + 1 : SubSeq(s, a + 1, b)[i] = s[a + 1 + i - 1]
    BY <1>1, SubSeqProperties
  <1>. QED  BY <1>2

\* A batch is the next tokens of the prompt, and ends before the next chunk.
LEMMA BatchFacts ==
    ASSUME IInv, pc = "prefill", NPos < GapEnd, NEW size \in ChunkSizes
    PROVE  /\ Batch(size) \in Seq(Tokens) /\ Len(Batch(size)) \in Nat /\ Len(Batch(size)) > 0
           /\ NPos + Len(Batch(size)) <= GapEnd /\ GapEnd \in Nat /\ GapEnd <= Len(ids)
           /\ \A i \in DOMAIN plan : GapEnd <= plan[i].dst
           /\ \A i \in 1 .. Len(Batch(size)) : Batch(size)[i] = ids[NPos + i]
  <1>1. TypeOK /\ pc = "prefill" /\ NPos < GapEnd
    BY DEF IInv
  <1>2. size \in Nat /\ size > 0
    BY KvAssumption
  <1>3. NPos \in Nat /\ Len(ids) \in Nat /\ NPos <= Len(ids)
    BY <1>1, PlanFacts DEF IInv, PlanSafe
  <1>4. /\ GapEnd \in Nat /\ GapEnd <= Len(ids)
        /\ \A i \in DOMAIN plan : GapEnd <= plan[i].dst
    <2>1. CASE plan = <<>>
      BY <2>1, <1>3 DEF GapEnd
    <2>2. CASE plan # <<>>
      <3>1. 1 \in DOMAIN plan /\ GapEnd = plan[1].dst
        BY <2>2, <1>1, PlanFacts, HeadTailProperties DEF TypeOK, GapEnd
      <3>2. \A i \in DOMAIN plan : i = 1 \/ plan[1].dst + plan[1].n <= plan[i].dst
        BY <1>1, <3>1, PlanFacts DEF IInv, Pending
      <3>3. plan[1].dst + plan[1].n < Len(ids)
        BY <1>1, <3>1 DEF IInv, Pending
      <3>. QED  BY <1>1, <1>3, <3>1, <3>2, <3>3, PlanFacts
    <2>. QED  BY <2>1, <2>2
  <1>. DEFINE e == Min2(NPos + size, GapEnd)
  <1>5. e \in Nat /\ NPos < e /\ e <= GapEnd
    BY <1>1, <1>2, <1>3, <1>4 DEF Min2
  <1>6. Batch(size) = SubSeq(ids, NPos + 1, e)
    BY DEF Batch
  <1>. HIDE DEF e
  <1>7. /\ Batch(size) \in Seq(Tokens) /\ Len(Batch(size)) = e - NPos
        /\ \A i \in 1 .. e - NPos : Batch(size)[i] = ids[NPos + i]
    <2>1. NPos <= e /\ e <= Len(ids)
      BY <1>3, <1>4, <1>5
    <2>2. ids \in Seq(Tokens) /\ NPos \in Nat /\ e \in Nat
      BY <1>1, <1>3, <1>5 DEF TypeOK
    <2>. QED  BY <1>6, <2>1, <2>2, SliceFacts
  <1>. QED  BY <1>1, <1>3, <1>4, <1>5, <1>7

LEMMA FeedKeeps == ASSUME IInv, Feed PROVE IInv'
  <1>1. /\ TypeOK /\ pc = "prefill" /\ pc' = "prefill" /\ NPos < GapEnd
        /\ UNCHANGED <<ids, reuse, headC, headP, plan>>
    BY DEF IInv, Feed, planVars
  <1>2. PICK size \in ChunkSizes : fed' = fed \o Batch(size)
    BY DEF Feed, Forward
  <1>3. NPos \in Nat /\ Len(ids) \in Nat /\ NPos <= Len(ids)
    BY <1>1, PlanFacts DEF IInv, PlanSafe
  <1>. DEFINE e == NPos + Len(Batch(size))
  <1>4. /\ e \in Nat /\ NPos < e /\ e <= GapEnd /\ GapEnd \in Nat /\ GapEnd <= Len(ids)
        /\ \A i \in DOMAIN plan : GapEnd <= plan[i].dst
    BY <1>1, <1>3, BatchFacts
  <1>5. /\ Batch(size) \in Seq(Tokens) /\ Len(Batch(size)) = e - NPos
        /\ \A i \in 1 .. e - NPos : Batch(size)[i] = ids[NPos + i]
    <2>1. Len(Batch(size)) \in Nat /\ e - NPos = Len(Batch(size))
      BY <1>1, <1>3, BatchFacts
    <2>. QED  BY <1>1, <2>1, BatchFacts
  <1>. HIDE DEF e
  <1>6. /\ fed' \in Seq(Tokens) /\ NPos' = e
        /\ \A t \in 1 .. NPos : fed'[t] = fed[t]
        /\ \A t \in NPos + 1 .. e : fed'[t] = Batch(size)[t - NPos]
    <2>1. fed \in Seq(Tokens) /\ Len(fed) = NPos
      BY <1>1 DEF TypeOK, NPos
    <2>2. /\ fed \o Batch(size) \in Seq(Tokens)
          /\ Len(fed \o Batch(size)) = Len(fed) + Len(Batch(size))
          /\ \A i \in 1 .. Len(fed) + Len(Batch(size)) : (fed \o Batch(size))[i] =
                 IF i <= Len(fed) THEN fed[i] ELSE Batch(size)[i - Len(fed)]
      BY <1>5, <2>1, ConcatProperties
    <2>. QED  BY <1>2, <1>3, <1>4, <1>5, <2>1, <2>2 DEF NPos
  <1>7. \A t \in 1 .. e : fed'[t] = ids[t]
    <2>1. \A t \in 1 .. NPos : fed[t] = ids[t]
      BY <1>1 DEF IInv, PlanSafe
    <2>2. ASSUME NEW t \in NPos + 1 .. e PROVE fed'[t] = ids[t]
      <3>1. t - NPos \in 1 .. e - NPos /\ NPos + (t - NPos) = t
        BY <1>3, <1>4
      <3>. QED  BY <1>5, <1>6, <3>1
    <2>. QED  BY <1>3, <1>4, <1>6, <2>1, <2>2
  <1>8. TypeOK'
    BY <1>1, <1>6 DEF TypeOK
  <1>9. Heads' /\ Prefix'
    BY <1>1 DEF Heads, Prefix
  <1>10. Pending'
    BY <1>1 DEF IInv, Pending
  <1>11. PlanSafe'
    <2>1. \A i \in DOMAIN plan : e <= plan[i].dst
      BY <1>1, <1>4, PlanFacts
    <2>. QED  BY <1>1, <1>3, <1>4, <1>6, <1>7, <2>1 DEF PlanSafe
  <1>. QED  BY <1>8, <1>9, <1>10, <1>11 DEF IInv
\* The gap before a chunk is filled exactly: the chunk's tokens come next.
LEMMA AdoptFacts ==
    ASSUME IInv, Adopt
    PROVE  /\ plan[1].dst \in Nat /\ plan[1].n \in Nat /\ Len(ids) \in Nat /\ Len(plan) \in Nat
           /\ 1 \in DOMAIN plan /\ NPos = plan[1].dst /\ plan[1].dst + plan[1].n < Len(ids)
           /\ fed' \in Seq(Tokens) /\ NPos' = plan[1].dst + plan[1].n
           /\ \A t \in 1 .. plan[1].dst + plan[1].n : fed'[t] = ids[t]
           /\ plan' \in Seq(Chunk) /\ DOMAIN plan' = 1 .. Len(plan) - 1
           /\ \A i \in DOMAIN plan' : i + 1 \in DOMAIN plan /\ plan'[i] = plan[i + 1]
  <1>. DEFINE d == plan[1].dst
              m == plan[1].n
  <1>1. /\ TypeOK /\ pc = "prefill" /\ pc' = "prefill" /\ plan # <<>>
        /\ NPos >= Head(plan).dst
        /\ fed' = fed \o SubSeq(ids, Head(plan).dst + 1, Head(plan).dst + Head(plan).n)
        /\ plan' = Tail(plan)
        /\ UNCHANGED <<ids, reuse, headC, headP>>
    BY DEF IInv, Adopt
  <1>2. /\ 1 \in DOMAIN plan /\ Head(plan) = plan[1]
        /\ Tail(plan) \in Seq(Chunk) /\ Len(Tail(plan)) = Len(plan) - 1
        /\ \A i \in 1 .. Len(plan) - 1 : Tail(plan)[i] = plan[i + 1]
    BY <1>1, PlanFacts, HeadTailProperties DEF TypeOK
  <1>3. /\ d \in Nat /\ m \in Nat /\ NPos \in Nat /\ Len(ids) \in Nat /\ Len(plan) \in Nat
    BY <1>1, <1>2, PlanFacts
  <1>4. NPos = d /\ d + m < Len(ids)
    BY <1>1, <1>2, <1>3 DEF IInv, PlanSafe, Pending
  <1>5. fed' = fed \o SubSeq(ids, d + 1, d + m)
    BY <1>1, <1>2
  <1>. HIDE DEF d, m
  <1>6. /\ SubSeq(ids, d + 1, d + m) \in Seq(Tokens)
        /\ Len(SubSeq(ids, d + 1, d + m)) = m
        /\ \A i \in 1 .. m : SubSeq(ids, d + 1, d + m)[i] = ids[d + i]
    <2>1. d + m \in Nat /\ d <= d + m /\ d + m <= Len(ids) /\ (d + m) - d = m
      BY <1>3, <1>4
    <2>2. ids \in Seq(Tokens) /\ d \in Nat
      BY <1>1, <1>3 DEF TypeOK
    <2>. QED  BY <2>1, <2>2, SliceFacts
  <1>7. /\ fed' \in Seq(Tokens) /\ NPos' = d + m
        /\ \A t \in 1 .. d : fed'[t] = fed[t]
        /\ \A t \in d + 1 .. d + m : fed'[t] = ids[t]
    <2>. DEFINE s == SubSeq(ids, d + 1, d + m)
    <2>1. fed \in Seq(Tokens) /\ Len(fed) = d
      BY <1>1, <1>4 DEF TypeOK, NPos
    <2>2. s \in Seq(Tokens) /\ Len(s) = m /\ \A i \in 1 .. m : s[i] = ids[d + i]
      BY <1>6
    <2>3. fed' = fed \o s
      BY <1>5
    <2>. HIDE DEF s
    <2>4. /\ fed \o s \in Seq(Tokens) /\ Len(fed \o s) = d + m
          /\ \A i \in 1 .. d + m : (fed \o s)[i] = IF i <= d THEN fed[i] ELSE s[i - d]
      BY <2>1, <2>2, ConcatProperties
    <2>5. ASSUME NEW t \in d + 1 .. d + m PROVE fed'[t] = ids[t]
      <3>1. t - d \in 1 .. m /\ d + (t - d) = t /\ t \in 1 .. d + m /\ ~(t <= d)
        BY <1>3
      <3>. QED  BY <2>2, <2>3, <2>4, <3>1
    <2>6. \A t \in 1 .. d : fed'[t] = fed[t]
      BY <1>3, <2>3, <2>4
    <2>. QED  BY <2>3, <2>4, <2>5, <2>6 DEF NPos
  <1>8. \A t \in 1 .. d + m : fed'[t] = ids[t]
    <2>1. \A t \in 1 .. d : fed[t] = ids[t]
      BY <1>1, <1>4 DEF IInv, PlanSafe
    <2>. QED  BY <1>3, <1>7, <2>1
  <1>9. /\ plan' \in Seq(Chunk) /\ DOMAIN plan' = 1 .. Len(plan) - 1
        /\ \A i \in DOMAIN plan' : i + 1 \in DOMAIN plan /\ plan'[i] = plan[i + 1]
    BY <1>1, <1>2, <1>3, PlanFacts
  <1>. QED  BY <1>2, <1>3, <1>4, <1>7, <1>8, <1>9 DEF d, m

LEMMA AdoptKeeps == ASSUME IInv, Adopt PROVE IInv'
  <1>. DEFINE d == plan[1].dst
              m == plan[1].n
  <1>1. /\ TypeOK /\ pc = "prefill" /\ pc' = "prefill"
        /\ UNCHANGED <<ids, reuse, headC, headP>>
    BY DEF IInv, Adopt
  <1>2. /\ d \in Nat /\ m \in Nat /\ Len(ids) \in Nat /\ Len(plan) \in Nat
        /\ 1 \in DOMAIN plan /\ d + m < Len(ids)
        /\ fed' \in Seq(Tokens) /\ NPos' = d + m
        /\ \A t \in 1 .. d + m : fed'[t] = ids[t]
    BY AdoptFacts
  <1>3. /\ plan' \in Seq(Chunk) /\ DOMAIN plan' = 1 .. Len(plan) - 1
        /\ \A i \in DOMAIN plan' : i + 1 \in DOMAIN plan /\ plan'[i] = plan[i + 1]
    BY AdoptFacts
  <1>. HIDE DEF d, m
  <1>4. TypeOK'
    BY <1>1, <1>2, <1>3 DEF TypeOK
  <1>5. Heads' /\ Prefix'
    BY <1>1 DEF Heads, Prefix
  <1>6. Pending'
    <2>1. ASSUME NEW i \in DOMAIN plan'
          PROVE  /\ plan'[i].dst + plan'[i].n < Len(ids)
                 /\ \A j \in 1 .. i - 1 : plan'[j].dst + plan'[j].n <= plan'[i].dst
      <3>. DEFINE l == Len(plan)
      <3>1. l \in Nat /\ i \in 1 .. l - 1
        BY <1>2, <1>3
      <3>. HIDE DEF l
      <3>2. /\ i \in Nat /\ i >= 1
            /\ \A j \in 1 .. i - 1 : j \in 1 .. l - 1 /\ j + 1 \in 1 .. (i + 1) - 1
        BY <3>1
      <3>3. /\ i \in Nat /\ i >= 1 /\ i + 1 \in DOMAIN plan /\ plan'[i] = plan[i + 1]
            /\ \A j \in 1 .. i - 1 : j + 1 \in 1 .. (i + 1) - 1 /\ plan'[j] = plan[j + 1]
        BY <1>3, <3>2 DEF l
      <3>. QED  BY <1>1, <3>3 DEF IInv, Pending
    <2>. QED  BY <1>1, <2>1 DEF Pending
  <1>7. PlanSafe'
    <2>1. ASSUME NEW i \in DOMAIN plan' PROVE d + m <= plan'[i].dst
      <3>1. i + 1 \in DOMAIN plan /\ plan'[i] = plan[i + 1] /\ 1 \in 1 .. (i + 1) - 1
        BY <1>2, <1>3
      <3>. QED  BY <1>1, <3>1 DEF IInv, Pending, d, m
    <2>2. /\ pc' = "prefill" /\ ids' = ids /\ NPos' = d + m /\ NPos' <= Len(ids')
          /\ \A t \in 1 .. NPos' : fed'[t] = ids'[t]
      <3>1. pc' = "prefill" /\ ids' = ids /\ NPos' = d + m /\ d + m <= Len(ids)
        BY <1>1, <1>2
      <3>. QED  BY <3>1, <1>2
    <2>3. \A i \in DOMAIN plan' : NPos' <= plan'[i].dst
      BY <2>1, <2>2
    <2>. QED  BY <2>2, <2>3 DEF PlanSafe
  <1>. QED  BY <1>4, <1>5, <1>6, <1>7 DEF IInv

LEMMA InitIInv == Init => IInv
  BY DEF Init, IInv, TypeOK, Heads, Prefix, Pending, PlanSafe

\* Steps after which the session is outside a prompt.
LEMMA OutsideKeeps ==
    ASSUME IInv, FeedRefused \/ FeedBreaks \/ PromptEnds \/ Decode \/ Reset
    PROVE  IInv'
  <1>1. pc' \in {"idle", "poisoned"}
    BY DEF FeedRefused, FeedBreaks, PromptEnds, Decode, Reset
  <1>2. fed' \in Seq(Tokens)
    <2>1. CASE Decode
      <3>1. PICK tok \in Tokens : fed' = fed \o <<tok>>
        BY <2>1 DEF Decode, Forward
      <3>2. <<tok>> \in Seq(Tokens) /\ fed \in Seq(Tokens)
        BY DEF IInv, TypeOK
      <3>. QED  BY <3>1, <3>2, ConcatProperties
    <2>2. CASE Reset
      BY <2>2 DEF Reset
    <2>3. CASE FeedRefused \/ FeedBreaks \/ PromptEnds
      BY <2>3 DEF FeedRefused, FeedBreaks, Broken, PromptEnds, cacheVars, IInv, TypeOK
    <2>. QED  BY <2>1, <2>2, <2>3
  <1>3. \/ UNCHANGED <<ids, reuse, headC, headP, plan>>
        \/ ids' = <<>> /\ reuse' = 0 /\ headC' = 0 /\ headP' = 0 /\ plan' = <<>>
    <2>1. CASE FeedRefused \/ FeedBreaks \/ PromptEnds
      BY <2>1 DEF FeedRefused, FeedBreaks, PromptEnds, Forgotten
    <2>2. CASE Decode \/ Reset
      BY <2>2 DEF Decode, Reset, planVars
    <2>. QED  BY <2>1, <2>2
  <1>4. TypeOK'
    <2>1. /\ ids' \in Seq(Tokens) /\ reuse' \in Nat /\ headC' \in Nat /\ headP' \in Nat
          /\ plan' \in Seq(Chunk)
      <3>1. CASE UNCHANGED <<ids, reuse, headC, headP, plan>>
        BY <3>1 DEF IInv, TypeOK
      <3>2. CASE ids' = <<>> /\ reuse' = 0 /\ headC' = 0 /\ headP' = 0 /\ plan' = <<>>
        BY <3>2
      <3>. QED  BY <1>3, <3>1, <3>2
    <2>. QED  BY <1>1, <1>2, <2>1 DEF TypeOK
  <1>. QED  BY <1>1, <1>4, OutsidePrompt

\* Steps that leave the session's prompt and plan alone.
LEMMA CoreSteps ==
    ASSUME ShiftRow \/ DecodeStops \/ OtherCreated \/ OtherFeeds \/ OtherResets
           \/ UNCHANGED vars
    PROVE  UNCHANGED core
  BY DEF ShiftRow, DecodeStops, Broken, OtherCreated, OtherFeeds, OtherResets,
         vars, cacheVars, planVars, core

LEMMA NextKeeps == IInv /\ [Next]_vars => IInv'
  <1>. SUFFICES ASSUME IInv, [Next]_vars PROVE IInv'
    OBVIOUS
  <1>1. CASE \E p \in Prompts : Begin(p)
    BY <1>1, BeginKeeps
  <1>2. CASE PlanSkip
    BY <1>2, PlanSkipKeeps
  <1>3. CASE PlanTake
    BY <1>3, PlanTakeKeeps
  <1>4. CASE PlanDropped
    BY <1>4, WithoutPlan DEF PlanDropped
  <1>5. CASE ShiftBegins
    BY <1>5, ShiftBeginsKeeps
  <1>6. CASE ShiftEnds
    BY <1>6, ShiftEndsKeeps
  <1>7. CASE Feed
    BY <1>7, FeedKeeps
  <1>8. CASE Adopt
    BY <1>8, AdoptKeeps
  <1>9. CASE FeedRefused \/ FeedBreaks \/ PromptEnds \/ Decode \/ Reset
    BY <1>9, OutsideKeeps
  <1>10. CASE ShiftRow \/ DecodeStops \/ OtherCreated \/ OtherFeeds \/ OtherResets
              \/ UNCHANGED vars
    BY <1>10, CoreSteps, CoreUntouched
  <1>. QED  BY <1>1, <1>2, <1>3, <1>4, <1>5, <1>6, <1>7, <1>8, <1>9, <1>10 DEF Next

\* The invariant is inductive.
THEOREM Inductive == Spec => []IInv
  <1>. QED  BY InitIInv, NextKeeps, PTL DEF Spec

\* Rows are only moved where the prompt has their tokens, towards the front and
\* apart from each other, and all that counts as fed while gaps are fed and
\* chunks adopted is the prompt.  (kv_reuse_plan_build, context_prefill_with_plan.)
THEOREM PlansAreSafe == Spec => []PlanSafe
  <1>1. IInv => PlanSafe
    BY DEF IInv
  <1>. QED  BY <1>1, Inductive, PTL

\* When a prompt ends, exactly its tokens are fed.  (context_prefill_with_plan.)
PromptFed == PromptEnds => Len(fed) = Len(ids) /\ \A t \in 1 .. Len(ids) : fed[t] = ids[t]

THEOREM PromptsAreFed == Spec => [][PromptFed]_vars
  <1>1. IInv => PromptFed
    <2>. SUFFICES ASSUME IInv, PromptEnds
                  PROVE  Len(fed) = Len(ids) /\ \A t \in 1 .. Len(ids) : fed[t] = ids[t]
      BY DEF PromptFed
    <2>1. pc = "prefill" /\ NPos >= Len(ids)
      BY DEF PromptEnds
    <2>2. NPos <= Len(ids) /\ NPos \in Nat /\ Len(ids) \in Nat
          /\ \A t \in 1 .. NPos : fed[t] = ids[t]
      BY <2>1, PlanFacts DEF IInv, PlanSafe
    <2>. QED  BY <2>1, <2>2 DEF NPos
  <1>. QED  BY <1>1, Inductive, PTL

-----------------------------------------------------------------------------
(***************************************************************************)
(* The rows.  A token finds its window where every row that is kept is     *)
(* that of the token fed at its position, and the first of them is not     *)
(* past the window of the token that is fed next.                          *)
(***************************************************************************)
\* The first row is not moved behind the session's back, nor does a prompt go
\* back behind it: of a layer that keeps all rows this is so of itself.
FirstRowStays == Cap = NCtx \/ (~DeepRewinds /\ ~LongOthers)

\* Where the first row is.  A layer that keeps all rows never moves it.
Based ==
    /\ base \in Nat /\ NPos <= base + Cap /\ NPos <= NCtx /\ Len(ids) <= NCtx
    /\ Kept(NPos)
    /\ pc \in {"plan", "shift"} => Kept(reuse)
    /\ Cap = NCtx => base = 0

RowAt(pos, tok) == rows[pos - base] = Row(tok, pos)

\* The rows that are kept are those of the tokens fed; while rows are moved, of
\* the tokens that stay where they are.
Placed == IF pc = "shift" THEN reuse ELSE NPos
FedRows == \A p \in base .. Placed - 1 : RowAt(p, fed[p + 1])

\* A row is moved to where the prompt has its token.
MovedRows ==
    pc = "shift" =>
        /\ DOMAIN staged \subseteq Goals
        /\ \A p \in Goals : p >= base =>
               IF p \in DOMAIN staged THEN staged[p] = Row(ids[p + 1], p) ELSE RowAt(p, ids[p + 1])

\* Chunks that wait to be adopted are there.
ChunkRows ==
    pc = "prefill" =>
        \A i \in DOMAIN plan :
            /\ plan[i].dst + plan[i].n <= base + Cap
            /\ \A p \in plan[i].dst .. plan[i].dst + plan[i].n - 1 :
                   p >= base => RowAt(p, ids[p + 1])

RowsInv == Based /\ FedRows /\ MovedRows /\ ChunkRows /\ WindowRead

LEMMA CapFacts ==
    /\ Cap \in Nat /\ Cap > 0 /\ Cap <= NCtx /\ Cap <= Window + Slack
    /\ Cap < NCtx => Cap = Window + Slack
  BY KvAssumption DEF Cap, Min2

LEMMA CapNat == Cap \in Nat /\ Cap > 0
  BY CapFacts

-----------------------------------------------------------------------------
(* What writing rows does.                                                 *)

\* Rows are written at the slots of their positions; those before them keep
\* their positions when all slide down, but for the ones that fall out.
LEMMA PutFacts ==
    ASSUME NEW pos \in Nat, NEW vals, NEW k \in Nat, k = Len(vals), k > 0, k <= Cap,
           base \in Nat, base <= pos, pos <= base + Cap, Cap = NCtx => pos + k <= base + Cap,
           Put(pos, vals)
    PROVE  /\ base' = IF pos + k <= base + Cap THEN base ELSE pos + k - Cap
           /\ base' \in Nat /\ base <= base' /\ base' <= pos /\ pos + k <= base' + Cap
           /\ \A p \in pos .. pos + k - 1 : rows'[p - base'] = vals[p - pos + 1]
           /\ \A p \in base' .. pos - 1 : rows'[p - base'] = rows[p - base]
           /\ pos + k <= base + Cap =>
                  \A p \in pos + k .. base + Cap - 1 : rows'[p - base] = rows[p - base]
  <1>. DEFINE last == pos + k - 1
              down == Slide(last)
  <1>1. last \in Nat
    OBVIOUS
  <1>2. /\ down \in Nat
        /\ down = IF pos + k <= base + Cap THEN 0 ELSE pos + k - Cap - base
    BY <1>1, CapFacts, KvAssumption DEF Slide, Min2
  <1>3. /\ base + down \in Nat /\ base + down <= pos /\ pos + k <= base + down + Cap
        /\ SlotOf(last) = last - (base + down)
    BY <1>1, <1>2, CapFacts DEF SlotOf
  <1>. DEFINE start == IF SlotOf(last) >= k - 1 THEN SlotOf(last) - (k - 1) ELSE 0
  <1>4. start = pos - (base + down)
    BY <1>1, <1>3
  <1>5. /\ base' = base + down
        /\ rows' = [s \in Slots |->
               IF s >= start /\ s < start + k THEN vals[s - start + 1]
               ELSE IF s + down \in Slots THEN rows[s + down] ELSE rows[s]]
    BY DEF Put
  <1>. HIDE DEF last, down, start
  <1>6. ASSUME NEW p \in pos .. pos + k - 1 PROVE rows'[p - base'] = vals[p - pos + 1]
    <2>1. /\ p - base' \in Slots /\ p - base' >= start /\ p - base' < start + k
          /\ (p - base') - start + 1 = p - pos + 1
      BY <1>2, <1>3, <1>4, <1>5, CapFacts DEF Slots
    <2>. QED  BY <1>5, <2>1
  <1>7. ASSUME NEW p \in base' .. pos - 1 PROVE rows'[p - base'] = rows[p - base]
    <2>1. /\ p - base' \in Slots /\ ~(p - base' >= start)
          /\ (p - base') + down = p - base /\ p - base \in Slots
      BY <1>2, <1>3, <1>4, <1>5, CapFacts DEF Slots
    <2>. QED  BY <1>5, <2>1
  <1>8. ASSUME pos + k <= base + Cap, NEW p \in pos + k .. base + Cap - 1
        PROVE  rows'[p - base] = rows[p - base]
    <2>1. /\ down = 0 /\ p - base \in Slots /\ ~(p - base < start + k)
          /\ (p - base) + down = p - base
      BY <1>2, <1>3, <1>4, <1>5, <1>8, CapFacts DEF Slots
    <2>. QED  BY <1>5, <2>1
  <1>9. base' = IF pos + k <= base + Cap THEN base ELSE pos + k - Cap
    BY <1>2, <1>5, CapFacts
  <1>10. base' \in Nat /\ base <= base' /\ base' <= pos /\ pos + k <= base' + Cap
    BY <1>2, <1>3, <1>5, CapFacts
  <1>. QED  BY <1>6, <1>7, <1>8, <1>9, <1>10

\* A position that can be fed lies past the first row.
LEMMA KeptFacts ==
    ASSUME NEW n \in Nat, base \in Nat, Kept(n)
    PROVE  base <= n /\ (base > 0 => base <= n + 1 - Window)
  BY KvAssumption DEF Kept, Max2

LEMMA KeptLater ==
    ASSUME NEW m \in Nat, NEW n \in Nat, m <= n, base \in Nat, Kept(m) PROVE Kept(n)
  BY KvAssumption DEF Kept, Max2

\* Written at n_pos, a batch that fits leaves all that its first token attends to.
LEMMA FitsFacts ==
    ASSUME TypeOK, Based, NEW toks, NEW vals, NEW k \in Nat, k = Len(toks), k = Len(vals), k > 0,
           NPos + k <= NCtx, Fits(toks), Put(NPos, vals)
    PROVE  /\ base' \in Nat /\ base <= base' /\ base' <= NPos /\ NPos + k <= base' + Cap
           /\ base' <= Max2(0, NPos + 1 - Window)
           /\ Cap = NCtx => base' = 0
           /\ \A p \in NPos .. NPos + k - 1 : rows'[p - base'] = vals[p - NPos + 1]
           /\ \A p \in base' .. NPos - 1 : rows'[p - base'] = rows[p - base]
           /\ NPos + k <= base + Cap =>
                  /\ base' = base
                  /\ \A p \in NPos + k .. base + Cap - 1 : rows'[p - base] = rows[p - base]
  <1>1. /\ NPos \in Nat /\ base \in Nat /\ NPos <= base + Cap
        /\ base <= NPos /\ base <= Max2(0, NPos + 1 - Window)
        /\ Cap = NCtx => base = 0
    BY PlanFacts, KeptFacts DEF Based, Kept
  <1>2. NPos + k <= Window + Slack \/ k <= Slack + 1
    BY DEF Fits
  <1>3. k <= Cap /\ (Cap = NCtx => NPos + k <= base + Cap)
    BY <1>1, <1>2, CapFacts, KvAssumption
  <1>4. /\ base' = IF NPos + k <= base + Cap THEN base ELSE NPos + k - Cap
        /\ base' \in Nat /\ base <= base' /\ base' <= NPos /\ NPos + k <= base' + Cap
        /\ \A p \in NPos .. NPos + k - 1 : rows'[p - base'] = vals[p - NPos + 1]
        /\ \A p \in base' .. NPos - 1 : rows'[p - base'] = rows[p - base]
        /\ NPos + k <= base + Cap =>
               \A p \in NPos + k .. base + Cap - 1 : rows'[p - base] = rows[p - base]
    BY <1>1, <1>3, PutFacts
  <1>5. base' <= Max2(0, NPos + 1 - Window)
    <2>1. CASE NPos + k <= base + Cap
      BY <1>1, <1>4, <2>1
    <2>2. CASE ~(NPos + k <= base + Cap)
      <3>1. Cap = Window + Slack /\ k <= Slack + 1 /\ base' = NPos + k - Cap
        BY <1>1, <1>2, <1>3, <1>4, <2>2, CapFacts, KvAssumption
      <3>2. base' <= NPos + 1 - Window
        BY <1>1, <3>1, KvAssumption
      <3>. QED  BY <1>1, <1>4, <3>2, KvAssumption DEF Max2
    <2>. QED  BY <2>1, <2>2
  <1>6. Cap = NCtx => base' = 0
    BY <1>1, <1>3, <1>4
  <1>. QED  BY <1>4, <1>5, <1>6

LEMMA InSlots ==
    ASSUME NEW b \in Nat, NEW n \in Nat, n <= b + Cap, NEW p \in b .. n - 1 PROVE p - b \in Slots
  BY CapFacts DEF Slots

\* Where all rows of a window are kept, cpu_kv_window_to_slots_base finds them.
LEMMA ReadForFacts ==
    ASSUME NEW t, NEW pos \in Nat, NEW b \in Nat, base' = b, b <= Max2(0, pos + 1 - Window),
           pos < b + Cap,
           \A p \in b .. pos : rows'[p - b] = Row(t[p + 1], p)
    PROVE  ReadFor(pos) = WindowOf(t, pos)
  <1>. DEFINE n == Min2(pos + 1, Window)
              start == pos + 1 - n
              lost == IF start < b THEN b - start ELSE 0
              first == IF start < b THEN 0 ELSE start - b
  <1>1. n \in Nat /\ n > 0 /\ n <= pos + 1 /\ start \in Nat /\ start >= b
    BY KvAssumption DEF Min2, Max2
  <1>2. lost = 0 /\ first = start - b /\ Max2(n - lost, 0) = n
    BY <1>1 DEF Max2
  <1>3. ReadFor(pos) = [i \in 1 .. Max2(n - lost, 0) |->
            IF first + i - 1 \in Slots THEN rows'[first + i - 1] ELSE Junk]
    BY DEF ReadFor
  <1>4. WindowOf(t, pos) = [i \in 1 .. n |-> Row(t[pos - n + i + 1], pos - n + i)]
    BY DEF WindowOf
  <1>. HIDE DEF n, lost, first
  <1>5. ASSUME NEW i \in 1 .. n
        PROVE  (IF first + i - 1 \in Slots THEN rows'[first + i - 1] ELSE Junk)
               = Row(t[pos - n + i + 1], pos - n + i)
    <2>. DEFINE p == pos - n + i
    <2>1. /\ p \in b .. pos /\ first + i - 1 = p - b /\ pos - n + i + 1 = p + 1
      BY <1>1, <1>2
    <2>2. first + i - 1 \in Slots
      <3>1. p \in b .. pos
        BY <2>1
      <3>. HIDE DEF p
      <3>2. pos + 1 \in Nat /\ pos + 1 <= b + Cap /\ p \in b .. (pos + 1) - 1
        BY <3>1, CapNat
      <3>3. p - b \in Slots
        BY <3>2, InSlots
      <3>. QED  BY <2>1, <3>3
    <2>3. rows'[p - b] = Row(t[p + 1], p)
      BY <2>1
    <2>. HIDE DEF p
    <2>. QED  BY <2>1, <2>2, <2>3 DEF p
  <1>6. ReadFor(pos) = [i \in 1 .. n |->
            IF first + i - 1 \in Slots THEN rows'[first + i - 1] ELSE Junk]
    BY <1>2, <1>3
  <1>. QED  BY <1>4, <1>5, <1>6

\* A batch that fits writes its rows behind those that are kept, and each of its
\* tokens finds its whole window.
LEMMA ForwardFacts ==
    ASSUME TypeOK, Based, FedRows, pc \in {"idle", "prefill"},
           NEW toks \in Seq(Tokens), toks # <<>>,
           NPos + Len(toks) <= NCtx, Fits(toks), Forward(toks), pc' = pc, UNCHANGED <<ids, reuse>>
    PROVE  /\ Based' /\ FedRows' /\ WindowRead' /\ base <= base'
           /\ NPos + Len(toks) <= base + Cap =>
                  /\ base' = base
                  /\ \A p \in NPos + Len(toks) .. base + Cap - 1 : rows'[p - base] = rows[p - base]
  <1>. DEFINE k == Len(toks)
              vals == RowsFor(NPos, toks)
              t == fed \o toks
  <1>1. k \in Nat /\ k > 0 /\ NPos \in Nat /\ Len(vals) = k
        /\ \A i \in 1 .. k : vals[i] = Row(toks[i], NPos + i - 1)
    <2>1. k \in Nat /\ k > 0 /\ NPos \in Nat
      BY PlanFacts, EmptySeq
    <2>. HIDE DEF k
    <2>2. vals = [i \in 1 .. k |-> Row(toks[i], NPos + i - 1)]
      BY DEF RowsFor, k
    <2>3. Len(vals) = k
      BY <2>1, <2>2
    <2>. QED  BY <2>1, <2>2, <2>3
  <1>2. /\ Len(t) = NPos + k
        /\ \A i \in 1 .. NPos + k : t[i] = IF i <= NPos THEN fed[i] ELSE toks[i - NPos]
    BY ConcatProperties DEF TypeOK, NPos
  <1>3. Put(NPos, vals) /\ fed' = t /\ Attention(NPos, toks)
    BY DEF Forward
  <1>. HIDE DEF vals, t, k
  <1>4. NPos' = NPos + k
    BY <1>2, <1>3 DEF NPos
  <1>5. NPos + k <= NCtx
    BY DEF k
  <1>6. PICK b \in Nat :
        /\ base' = b /\ base <= b /\ b <= NPos /\ NPos + k <= b + Cap
        /\ b <= Max2(0, NPos + 1 - Window)
        /\ Cap = NCtx => b = 0
        /\ \A p \in NPos .. NPos + k - 1 : rows'[p - b] = vals[p - NPos + 1]
        /\ \A p \in b .. NPos - 1 : rows'[p - b] = rows[p - base]
        /\ NPos + k <= base + Cap =>
               /\ b = base
               /\ \A p \in NPos + k .. base + Cap - 1 : rows'[p - base] = rows[p - base]
    <2>1. k \in Nat /\ k = Len(toks) /\ k = Len(vals) /\ k > 0 /\ Put(NPos, vals)
      BY <1>1, <1>3 DEF k
    <2>2. /\ base' \in Nat /\ base <= base' /\ base' <= NPos /\ NPos + k <= base' + Cap
          /\ base' <= Max2(0, NPos + 1 - Window)
          /\ Cap = NCtx => base' = 0
          /\ \A p \in NPos .. NPos + k - 1 : rows'[p - base'] = vals[p - NPos + 1]
          /\ \A p \in base' .. NPos - 1 : rows'[p - base'] = rows[p - base]
          /\ NPos + k <= base + Cap =>
                 /\ base' = base
                 /\ \A p \in NPos + k .. base + Cap - 1 : rows'[p - base] = rows[p - base]
      BY <1>5, <2>1, FitsFacts
    <2>. QED  BY <2>2
  <1>7. /\ k \in Nat /\ NPos \in Nat /\ b <= NPos /\ NPos + k <= b + Cap
        /\ b <= NPos + 1 - Window \/ b = 0
    BY <1>1, <1>6, KvAssumption DEF Max2
  <1>8. ASSUME NEW p \in b .. NPos + k - 1 PROVE rows'[p - b] = Row(t[p + 1], p)
    <2>1. CASE p < NPos
      <3>1. /\ p \in b .. NPos - 1 /\ p \in base .. NPos - 1
            /\ p + 1 \in 1 .. NPos + k /\ p + 1 <= NPos
        BY <1>1, <1>6, <2>1 DEF Based
      <3>2. rows[p - base] = Row(fed[p + 1], p)
        BY <3>1 DEF FedRows, Placed, RowAt
      <3>. QED  BY <1>2, <1>6, <3>1, <3>2
    <2>2. CASE ~(p < NPos)
      <3>1. p \in NPos .. NPos + k - 1 /\ p + 1 \in 1 .. NPos + k /\ ~(p + 1 <= NPos)
            /\ p - NPos + 1 \in 1 .. k /\ p + 1 - NPos = p - NPos + 1
            /\ NPos + (p - NPos + 1) - 1 = p
        BY <1>1, <1>6, <2>2
      <3>2. vals[p - NPos + 1] = Row(toks[p - NPos + 1], p)
        BY <1>1, <3>1
      <3>. DEFINE q == p + 1
      <3>3. q \in 1 .. NPos + k /\ ~(q <= NPos) /\ q - NPos = p - NPos + 1
        BY <1>7, <3>1, KvAssumption
      <3>. HIDE DEF q
      <3>4. t[q] = toks[p - NPos + 1]
        BY <1>2, <3>3
      <3>5. t[p + 1] = toks[p - NPos + 1]
        BY <3>4 DEF q
      <3>. QED  BY <1>6, <3>1, <3>2, <3>5
    <2>. QED  BY <2>1, <2>2
  <1>9. Based'
    <2>1. b <= Max2(0, NPos' + 1 - Window)
      BY <1>1, <1>4, <1>6, KvAssumption DEF Max2
    <2>. QED  BY <1>4, <1>5, <1>6, <2>1 DEF Based, Kept
  <1>10. FedRows'
    <2>1. Placed' = NPos + k
      BY <1>4 DEF Placed
    <2>2. FedRows' = \A p \in base' .. Placed' - 1 : rows'[p - base'] = Row(fed'[p + 1], p)
      BY DEF FedRows, RowAt, Row
    <2>3. fed' = t
      BY <1>3
    <2>4. \A p \in b .. Placed' - 1 : rows'[p - b] = Row(fed'[p + 1], p)
      BY <1>7, <1>8, <2>1, <2>3, KvAssumption
    <2>. QED  BY <1>6, <2>2, <2>4
  <1>11. WindowRead'
    <2>1. /\ attended'.toks = t
          /\ attended'.read = [p \in NPos .. NPos + k - 1 |-> ReadFor(p)]
      BY <1>3 DEF Attention, t, k
    <2>2. ASSUME NEW pos \in NPos .. NPos + k - 1 PROVE ReadFor(pos) = WindowOf(t, pos)
      <3>1. /\ pos \in Nat /\ pos < b + Cap
            /\ b <= Max2(0, pos + 1 - Window)
        <4>1. pos \in Nat /\ pos >= NPos /\ pos < NPos + k
          BY <1>7
        <4>2. pos < b + Cap
          BY <1>7, <4>1, CapNat
        <4>3. b <= pos + 1 - Window \/ b = 0
          BY <1>7, <4>1, KvAssumption
        <4>. QED  BY <4>1, <4>2, <4>3, KvAssumption DEF Max2
      <3>2. \A p \in b .. pos : rows'[p - b] = Row(t[p + 1], p)
        BY <1>7, <1>8, <3>1
      <3>. QED  BY <1>6, <3>1, <3>2, ReadForFacts
    <2>3. WindowRead' = \A pos \in DOMAIN attended'.read :
                            attended'.read[pos] = WindowOf(attended'.toks, pos)
      BY DEF WindowRead, WindowOf
    <2>. QED  BY <2>1, <2>2, <2>3
  <1>. QED  BY <1>6, <1>9, <1>10, <1>11 DEF k

-----------------------------------------------------------------------------
(* What each step does to the rows.                                        *)

LEMMA NothingRead == ASSUME attended' = Nothing PROVE WindowRead'
  BY DEF WindowRead, Nothing, WindowOf

LEMMA StillRead == ASSUME WindowRead, attended' = attended PROVE WindowRead'
  BY DEF WindowRead, WindowOf

\* Nothing is left of a prompt that is over but the rows of its tokens.
LEMMA LeavesRows ==
    ASSUME Based, FedRows, pc # "shift", UNCHANGED <<fed, rows, base>>, Len(ids') <= NCtx,
           pc' \in {"idle", "poisoned"}, WindowRead'
    PROVE  RowsInv'
  <1>1. Based'
    BY DEF Based, NPos, Kept
  <1>2. FedRows'
    BY DEF FedRows, Placed, NPos, RowAt
  <1>. QED  BY <1>1, <1>2 DEF RowsInv, MovedRows, ChunkRows

LEMMA SameRows ==
    ASSUME RowsInv, UNCHANGED <<fed, rows, base, pc, ids, reuse, plan, staged>>, WindowRead'
    PROVE  RowsInv'
  <1>1. Based' /\ FedRows'
    BY DEF RowsInv, Based, FedRows, Placed, NPos, Kept, RowAt
  <1>2. MovedRows' /\ ChunkRows'
    BY DEF RowsInv, MovedRows, ChunkRows, Goals, RowAt
  <1>. QED  BY <1>1, <1>2 DEF RowsInv

\* A turn of the planner's loop.
LEMMA PlanRows == ASSUME RowsInv, PlanSkip \/ PlanTake PROVE RowsInv'
  <1>1. pc = "plan" /\ UNCHANGED <<fed, rows, base, pc, ids, reuse, staged, attended>>
    BY DEF PlanSkip, PlanTake, cacheVars
  <1>2. Based' /\ FedRows'
    BY <1>1 DEF RowsInv, Based, FedRows, Placed, NPos, Kept, RowAt
  <1>. QED  BY <1>1, <1>2, StillRead DEF RowsInv, MovedRows, ChunkRows

\* Interrupted, or failed: what was written lies behind the tokens fed.
LEMMA BrokenRows ==
    ASSUME TypeOK, Based, FedRows, pc \in {"idle", "prefill"},
           NEW toks \in Seq(Tokens), toks # <<>>,
           NPos + Len(toks) <= NCtx, Fits(toks), Broken(toks),
           Len(ids') <= NCtx, pc' \in {"idle", "poisoned"}
    PROVE  RowsInv'
  <1>1. WindowRead' /\ UNCHANGED fed /\ NPos' = NPos /\ NPos \in Nat
    BY NothingRead, PlanFacts DEF Broken, NPos
  <1>2. CASE UNCHANGED <<rows, base>>
    BY <1>1, <1>2, LeavesRows
  <1>3. CASE \E vals : Len(vals) = Len(toks) /\ Put(NPos, vals)
    <2>1. PICK vals : Len(vals) = Len(toks) /\ Put(NPos, vals)
      BY <1>3
    <2>2. Len(toks) \in Nat /\ Len(toks) > 0
      BY EmptySeq
    <2>3. PICK b \in Nat :
          /\ base' = b /\ base <= b /\ b <= NPos /\ NPos + Len(toks) <= b + Cap
          /\ b <= Max2(0, NPos + 1 - Window)
          /\ Cap = NCtx => b = 0
          /\ \A p \in b .. NPos - 1 : rows'[p - b] = rows[p - base]
      BY <2>1, <2>2, FitsFacts
    <2>4. NPos <= b + Cap /\ NPos <= NCtx
      <3>1. NPos <= NCtx
        BY DEF Based
      <3>2. NPos <= b + Cap
        BY <1>1, <2>2, <2>3, CapNat
      <3>. QED  BY <3>1, <3>2
    <2>5. Based'
      BY <1>1, <2>3, <2>4 DEF Based, Kept
    <2>6. ASSUME NEW p \in b .. NPos - 1 PROVE rows'[p - b] = Row(fed[p + 1], p)
      <3>1. p \in base .. NPos - 1
        BY <1>1, <2>3 DEF Based
      <3>2. rows[p - base] = Row(fed[p + 1], p)
        BY <3>1 DEF FedRows, Placed, RowAt
      <3>. QED  BY <2>3, <3>2
    <2>7. FedRows'
      <3>1. Placed' = NPos
        BY <1>1 DEF Placed
      <3>2. FedRows' = \A p \in base' .. Placed' - 1 : rows'[p - base'] = Row(fed'[p + 1], p)
        BY DEF FedRows, RowAt, Row
      <3>. QED  BY <1>1, <2>3, <2>6, <3>1, <3>2
    <2>. QED  BY <1>1, <2>5, <2>7 DEF RowsInv, MovedRows, ChunkRows
  <1>4. /\ Len(RowsFor(NPos, toks)) = Len(toks)
        /\ Len([i \in 1 .. Len(toks) |-> Junk]) = Len(toks)
    <2>1. Len(toks) \in Nat
      OBVIOUS
    <2>. QED  BY <2>1 DEF RowsFor
  <1>. QED  BY <1>2, <1>3, <1>4 DEF Broken

LEMMA BasedNat == ASSUME Based PROVE base \in Nat /\ NPos <= base + Cap
  BY DEF Based

\* A prompt goes back no further than the rows that are kept.
LEMMA BeginRows ==
    ASSUME FirstRowStays, IInv, RowsInv, NEW p \in Prompts, Begin(p) PROVE RowsInv'
  <1>1. p \in Seq(Tokens) /\ Len(p) \in Nat /\ NPos \in Nat /\ base \in Nat
    BY PromptsAreSequences, PlanFacts DEF IInv, RowsInv, Based
  <1>2. Len(p) <= NCtx
    <2>1. PICK n \in 1 .. NCtx : p \in [1 .. n -> Tokens]
      BY DEF Prompts
    <2>2. Len(p) = n
      BY <1>1, <2>1, KvAssumption
    <2>. QED  BY <2>1, <2>2, KvAssumption
  <1>3. Reused(p) \in Nat /\ Reused(p) <= NPos
    <2>1. TypeOK /\ Len(p) > 0
      BY PromptsAreSequences DEF IInv
    <2>2. CommonLen(p) \in Nat /\ CommonLen(p) <= NPos /\ CommonLen(p) <= Len(p)
      BY <1>1, <2>1, CommonLenFacts
    <2>. QED  BY <1>1, <2>1, <2>2 DEF Reused
  <1>4. Kept(Reused(p))
    <2>1. CASE Reused(p) >= NPos
      BY <1>1, <1>3, <2>1 DEF RowsInv, Based
    <2>2. CASE base = 0
      BY <1>3, <2>2, KvAssumption DEF Kept, Max2
    <2>. QED  BY <2>1, <2>2 DEF Begin, FirstRowStays, RowsInv, Based
  <1>5. /\ pc = "idle" /\ ids' = p /\ reuse' = Reused(p) /\ plan' = <<>> /\ UNCHANGED <<rows, base>>
        /\ attended' = Nothing
        /\ pc' \in {"plan", "prefill"}
        /\ fed' = fed \/ fed' = SubSeq(fed, 1, Reused(p))
    BY DEF Begin
  <1>6. PICK n \in Nat :
        /\ NPos' = n /\ n <= NPos /\ (n = NPos \/ n = Reused(p))
        /\ \A t \in 1 .. n : fed'[t] = fed[t]
    <2>1. CASE fed' = fed
      BY <1>1, <2>1 DEF NPos
    <2>2. CASE fed' = SubSeq(fed, 1, Reused(p))
      <3>1. fed \in Seq(Tokens) /\ Len(fed) = NPos
        BY DEF IInv, TypeOK, NPos
      <3>2. \A i \in 1 .. Reused(p) : fed[i] \in Tokens
        BY <1>1, <1>3, <3>1
      <3>3. /\ Len(SubSeq(fed, 1, Reused(p))) = Reused(p)
            /\ \A i \in 1 .. Reused(p) : SubSeq(fed, 1, Reused(p))[i] = fed[i]
        BY <1>3, <3>2
      <3>. QED  BY <1>3, <2>2, <3>3 DEF NPos
    <2>. QED  BY <1>5, <2>1, <2>2
  <1>7. Based'
    <2>1. Kept(NPos) /\ NPos <= NCtx /\ NPos <= base + Cap /\ (Cap = NCtx => base = 0)
      BY DEF RowsInv, Based
    <2>2. base <= Max2(0, n + 1 - Window) /\ base <= Max2(0, Reused(p) + 1 - Window)
      BY <1>4, <1>6, <2>1 DEF Kept
    <2>3. n <= base + Cap /\ n <= NCtx
      BY <1>1, <1>6, <2>1, CapNat, KvAssumption
    <2>. QED  BY <1>1, <1>2, <1>4, <1>5, <1>6, <2>1, <2>2, <2>3 DEF Based, Kept
  <1>8. FedRows'
    <2>1. Placed' = n /\ Placed = NPos
      BY <1>5, <1>6 DEF Placed
    <2>2. ASSUME NEW q \in base .. n - 1 PROVE rows[q - base] = Row(fed'[q + 1], q)
      <3>1. q \in base .. NPos - 1 /\ q + 1 \in 1 .. n
        <4>1. base \in Nat /\ NPos \in Nat /\ n <= NPos
          BY <1>1, <1>6
        <4>. QED  BY <4>1
      <3>2. rows[q - base] = Row(fed[q + 1], q)
        BY <2>1, <3>1 DEF RowsInv, FedRows, RowAt
      <3>. QED  BY <1>6, <3>1, <3>2
    <2>3. FedRows' = \A q \in base' .. Placed' - 1 : rows'[q - base'] = Row(fed'[q + 1], q)
      BY DEF FedRows, RowAt, Row
    <2>. QED  BY <1>5, <2>1, <2>2, <2>3
  <1>. QED  BY <1>5, <1>7, <1>8, NothingRead DEF RowsInv, MovedRows, ChunkRows

\* What is kept of the prompt before has its rows, and lies past the first row.
LEMMA RewoundRows ==
    ASSUME IInv, RowsInv, pc \in {"plan", "shift"}, Rewound, pc' = "prefill",
           UNCHANGED <<rows, base, ids>>, WindowRead'
    PROVE  Based' /\ FedRows'
  <1>1. /\ NPos \in Nat /\ base \in Nat /\ reuse \in Nat /\ reuse <= NPos
        /\ NPos <= NCtx /\ NPos <= base + Cap /\ (Cap = NCtx => base = 0) /\ Kept(reuse)
    BY PlanFacts DEF IInv, TypeOK, Prefix, RowsInv, Based
  <1>2. NPos' = reuse /\ \A t \in 1 .. reuse : fed'[t] = fed[t]
    <2>1. NPos' = reuse /\ \A t \in 1 .. reuse : fed'[t] = ids[t]
      BY RewoundFacts DEF IInv
    <2>2. \A t \in 1 .. reuse : fed[t] = ids[t]
      BY DEF IInv, Prefix
    <2>. QED  BY <2>1, <2>2
  <1>3. Based'
    <2>1. reuse <= base + Cap /\ reuse <= NCtx
      BY <1>1, CapNat, KvAssumption
    <2>2. Len(ids) <= NCtx
      BY DEF RowsInv, Based
    <2>. QED  BY <1>1, <1>2, <2>1, <2>2 DEF Based, Kept
  <1>4. FedRows'
    <2>1. Placed' = reuse /\ Placed \in Nat /\ reuse <= Placed
      BY <1>1, <1>2 DEF Placed
    <2>2. ASSUME NEW q \in base .. reuse - 1 PROVE rows[q - base] = Row(fed'[q + 1], q)
      <3>1. q \in base .. Placed - 1 /\ q + 1 \in 1 .. reuse
        BY <1>1, <2>1
      <3>2. rows[q - base] = Row(fed[q + 1], q)
        BY <3>1 DEF RowsInv, FedRows, RowAt
      <3>. QED  BY <1>2, <3>1, <3>2
    <2>3. FedRows' = \A q \in base' .. Placed' - 1 : rows'[q - base'] = Row(fed'[q + 1], q)
      BY DEF FedRows, RowAt, Row
    <2>. QED  BY <2>1, <2>2, <2>3
  <1>. QED  BY <1>3, <1>4

LEMMA PlanDroppedRows == ASSUME IInv, RowsInv, PlanDropped PROVE RowsInv'
  <1>1. /\ pc = "plan" /\ Rewound /\ pc' = "prefill" /\ plan' = <<>>
        /\ UNCHANGED <<rows, base, ids, attended>>
    BY DEF PlanDropped
  <1>2. WindowRead'
    BY <1>1, StillRead DEF RowsInv
  <1>3. Based' /\ FedRows'
    BY <1>1, <1>2, RewoundRows
  <1>. QED  BY <1>1, <1>2, <1>3 DEF RowsInv, MovedRows, ChunkRows

\* Where rows go, and what the plan says of a chunk.
LEMMA GoalFacts ==
    ASSUME IInv, Based, pc \in {"plan", "shift"}
    PROVE  /\ \A i \in DOMAIN plan :
                  /\ plan[i].src \in Nat /\ plan[i].dst \in Nat /\ plan[i].n \in Nat
                  /\ reuse <= plan[i].dst /\ plan[i].dst < plan[i].src
                  /\ plan[i].src + plan[i].n <= NPos /\ plan[i].dst + plan[i].n <= base + Cap
                  /\ plan[i].dst .. plan[i].dst + plan[i].n - 1 \subseteq Goals
                  /\ \A t \in 1 .. plan[i].n : fed[plan[i].src + t] = ids[plan[i].dst + t]
           /\ \A p \in Goals : p \in Nat /\ reuse <= p /\ p < base + Cap
  <1>1. base \in Nat /\ NPos \in Nat /\ NPos <= base + Cap /\ reuse \in Nat
    BY PlanFacts DEF Based, IInv, TypeOK
  <1>2. ASSUME NEW i \in DOMAIN plan
        PROVE  /\ plan[i].src \in Nat /\ plan[i].dst \in Nat /\ plan[i].n \in Nat
               /\ reuse <= plan[i].dst /\ plan[i].dst < plan[i].src
               /\ plan[i].src + plan[i].n <= NPos
               /\ \A t \in 1 .. plan[i].n : fed[plan[i].src + t] = ids[plan[i].dst + t]
    BY PlanFacts DEF IInv, PlanSafe
  <1>3. ASSUME NEW i \in DOMAIN plan PROVE plan[i].dst + plan[i].n <= base + Cap
    BY <1>1, <1>2, CapNat
  <1>4. ASSUME NEW p \in Goals PROVE p \in Nat /\ reuse <= p /\ p < base + Cap
    <2>1. PICK i \in DOMAIN plan : p \in plan[i].dst .. plan[i].dst + plan[i].n - 1
      BY DEF Goals
    <2>. QED  BY <1>1, <1>2, <1>3, <2>1, CapNat
  <1>5. \A i \in DOMAIN plan : plan[i].dst .. plan[i].dst + plan[i].n - 1 \subseteq Goals
    BY DEF Goals
  <1>. QED  BY <1>2, <1>3, <1>4, <1>5

\* All rows are read before one is written: each is that of the prompt's token,
\* but for those that lie before the first row, which are not written.
LEMMA StagedFacts ==
    ASSUME IInv, Based, FedRows, pc = "plan", NEW p \in Goals, p >= base
    PROVE  Staged(p) = Row(ids[p + 1], p)
  <1>. DEFINE i == ChunkOf(p)
              d == plan[i].src - plan[i].dst
              q == Source(p)
  <1>1. i \in DOMAIN plan /\ p \in plan[i].dst .. plan[i].dst + plan[i].n - 1
    <2>1. \E j \in DOMAIN plan : p \in plan[j].dst .. plan[j].dst + plan[j].n - 1
      BY DEF Goals
    <2>. QED  BY <2>1 DEF ChunkOf
  <1>2. /\ plan[i].src \in Nat /\ plan[i].dst \in Nat /\ plan[i].n \in Nat
        /\ plan[i].dst < plan[i].src /\ plan[i].src + plan[i].n <= NPos
        /\ \A t \in 1 .. plan[i].n : fed[plan[i].src + t] = ids[plan[i].dst + t]
    BY <1>1, GoalFacts
  <1>3. q = p + plan[i].src - plan[i].dst
    BY DEF Source
  <1>. HIDE DEF i, q
  <1>4. base \in Nat /\ NPos \in Nat /\ NPos <= base + Cap
    BY PlanFacts DEF Based, IInv
  <1>5. p \in Nat /\ q \in Nat /\ q >= base /\ q < NPos /\ q \in base .. NPos - 1
    BY <1>1, <1>2, <1>3, <1>4
  <1>6. fed[q + 1] = ids[p + 1]
    <2>. DEFINE t == p - plan[i].dst + 1
    <2>1. t \in 1 .. plan[i].n /\ plan[i].src + t = q + 1 /\ plan[i].dst + t = p + 1
      BY <1>1, <1>2, <1>3, <1>5
    <2>. HIDE DEF t
    <2>2. fed[plan[i].src + t] = ids[plan[i].dst + t]
      BY <1>2, <2>1
    <2>. QED  BY <2>1, <2>2
  <1>7. rows[q - base] = Row(ids[p + 1], q)
    <2>1. Placed = NPos
      BY DEF Placed
    <2>. QED  BY <1>5, <1>6, <2>1 DEF FedRows, RowAt
  <1>8. q - base \in Slots
    BY <1>4, <1>5, InSlots
  <1>9. Row(ids[p + 1], q) # Junk
    BY DEF Row, Junk
  <1>10. Row(ids[p + 1], q)[1] = ids[p + 1] /\ Row(ids[p + 1], q)[2] = q /\ q + p - q = p
    BY <1>5 DEF Row
  <1>. QED  BY <1>7, <1>8, <1>9, <1>10 DEF Staged, q

LEMMA ShiftBeginsRows == ASSUME IInv, RowsInv, ShiftBegins PROVE RowsInv'
  <1>1. /\ pc = "plan" /\ pc' = "shift" /\ staged' = [p \in Goals |-> Staged(p)]
        /\ UNCHANGED <<fed, rows, base, ids, reuse, plan, attended>>
    BY DEF ShiftBegins, cacheVars
  <1>2. Based' /\ WindowRead'
    BY <1>1, StillRead DEF RowsInv, Based, NPos, Kept
  <1>3. FedRows'
    <2>1. /\ base \in Nat /\ reuse \in Nat /\ reuse <= NPos /\ NPos \in Nat
      BY <1>1, PlanFacts DEF IInv, TypeOK, Prefix, RowsInv, Based
    <2>2. Placed = NPos /\ Placed' = reuse
      BY <1>1 DEF Placed
    <2>3. ASSUME NEW q \in base .. reuse - 1 PROVE rows[q - base] = Row(fed[q + 1], q)
      <3>1. q \in base .. NPos - 1
        BY <2>1
      <3>. QED  BY <2>2, <3>1 DEF RowsInv, FedRows, RowAt
    <2>4. FedRows' = \A q \in base' .. Placed' - 1 : rows'[q - base'] = Row(fed'[q + 1], q)
      BY DEF FedRows, RowAt, Row
    <2>. QED  BY <1>1, <2>2, <2>3, <2>4
  <1>4. MovedRows'
    <2>1. Goals' = Goals
      BY <1>1 DEF Goals
    <2>2. \A p \in Goals : p >= base => staged'[p] = Row(ids[p + 1], p)
      BY <1>1, StagedFacts DEF RowsInv
    <2>3. DOMAIN staged' = Goals
      BY <1>1
    <2>. QED  BY <1>1, <2>1, <2>2, <2>3 DEF MovedRows, Row
  <1>. QED  BY <1>1, <1>2, <1>3, <1>4 DEF RowsInv, ChunkRows

\* A row is written where it goes, and none that was written before is lost.
LEMMA ShiftRowRows == ASSUME IInv, RowsInv, ShiftRow PROVE RowsInv'
  <1>1. PICK pos \in DOMAIN staged :
            /\ IF pos < base THEN UNCHANGED <<rows, base>> ELSE Put(pos, <<staged[pos]>>)
            /\ staged' = [p \in DOMAIN staged \ {pos} |-> staged[p]]
    BY DEF ShiftRow
  <1>2. pc = "shift" /\ UNCHANGED <<fed, pc, ids, reuse, plan, attended>>
    BY DEF ShiftRow
  <1>3. Based /\ FedRows /\ MovedRows /\ base \in Nat /\ reuse \in Nat
    BY DEF RowsInv, Based, IInv, TypeOK
  <1>4. /\ DOMAIN staged \subseteq Goals
        /\ \A p \in Goals : p \in Nat /\ reuse <= p /\ p < base + Cap
        /\ \A p \in Goals : p >= base =>
               IF p \in DOMAIN staged THEN staged[p] = Row(ids[p + 1], p)
               ELSE rows[p - base] = Row(ids[p + 1], p)
    BY <1>2, <1>3, GoalFacts DEF MovedRows, RowAt
  <1>5. pos \in Goals /\ pos \in Nat /\ reuse <= pos /\ pos < base + Cap
    BY <1>4
  <1>6. /\ base' = base
        /\ \A p \in base .. base + Cap - 1 : p # pos => rows'[p - base] = rows[p - base]
        /\ pos >= base => rows'[pos - base] = staged[pos]
    <2>1. CASE pos < base
      BY <1>1, <1>3, <1>5, <2>1
    <2>2. CASE pos >= base
      <3>. DEFINE vals == <<staged[pos]>>
      <3>1. Put(pos, vals) /\ Len(vals) = 1 /\ vals[1] = staged[pos]
        BY <1>1, <1>3, <1>5, <2>2
      <3>. HIDE DEF vals
      <3>. DEFINE k == 1
      <3>2. /\ k \in Nat /\ k = Len(vals) /\ k > 0 /\ k <= Cap
            /\ pos + k <= base + Cap /\ base <= pos /\ pos <= base + Cap
        BY <1>3, <1>5, <2>2, <3>1, CapNat
      <3>. HIDE DEF k
      <3>3. /\ base' = base
            /\ \A p \in pos .. pos + k - 1 : rows'[p - base'] = vals[p - pos + 1]
            /\ \A p \in base' .. pos - 1 : rows'[p - base'] = rows[p - base]
            /\ \A p \in pos + k .. base + Cap - 1 : rows'[p - base] = rows[p - base]
        <4>1. /\ base' = IF pos + k <= base + Cap THEN base ELSE pos + k - Cap
              /\ \A p \in pos .. pos + k - 1 : rows'[p - base'] = vals[p - pos + 1]
              /\ \A p \in base' .. pos - 1 : rows'[p - base'] = rows[p - base]
              /\ pos + k <= base + Cap =>
                     \A p \in pos + k .. base + Cap - 1 : rows'[p - base] = rows[p - base]
          <5>1. base \in Nat /\ pos \in Nat
            BY <1>3, <1>5
          <5>2. Put(pos, vals)
            BY <3>1
          <5>. HIDE DEF vals
          <5>. QED  BY <3>2, <5>1, <5>2, PutFacts
        <4>. QED  BY <3>2, <4>1
      <3>. USE DEF k
      <3>4. pos \in pos .. pos + 1 - 1 /\ pos - pos + 1 = 1
        BY <1>5
      <3>5. rows'[pos - base] = staged[pos]
        BY <3>1, <3>3, <3>4
      <3>6. ASSUME NEW p \in base .. base + Cap - 1, p # pos PROVE rows'[p - base] = rows[p - base]
        <4>1. p \in base .. pos - 1 \/ p \in pos + 1 .. base + Cap - 1
          BY <1>3, <1>5, <3>6, CapNat
        <4>. QED  BY <3>3, <4>1
      <3>. QED  BY <3>3, <3>5, <3>6
    <2>. QED  BY <1>3, <1>5, <2>1, <2>2
  <1>7. Based' /\ WindowRead'
    BY <1>2, <1>3, <1>6, StillRead DEF RowsInv, Based, NPos, Kept
  <1>8. FedRows'
    <2>1. Placed = reuse /\ Placed' = reuse
      BY <1>2 DEF Placed
    <2>2. ASSUME NEW q \in base .. reuse - 1 PROVE rows'[q - base] = Row(fed[q + 1], q)
      <3>1. q \in base .. base + Cap - 1 /\ q # pos
        BY <1>3, <1>5, CapNat
      <3>2. rows[q - base] = Row(fed[q + 1], q)
        BY <1>3, <2>1 DEF FedRows, RowAt
      <3>. QED  BY <1>6, <3>1, <3>2
    <2>3. FedRows' = \A q \in base' .. Placed' - 1 : rows'[q - base'] = Row(fed'[q + 1], q)
      BY DEF FedRows, RowAt, Row
    <2>. QED  BY <1>2, <1>6, <2>1, <2>2, <2>3
  <1>9. MovedRows'
    <2>1. Goals' = Goals
      BY <1>2 DEF Goals
    <2>2. DOMAIN staged' = DOMAIN staged \ {pos} /\ \A p \in DOMAIN staged' : staged'[p] = staged[p]
      BY <1>1
    <2>3. ASSUME NEW p \in Goals, p >= base
          PROVE  IF p \in DOMAIN staged' THEN staged'[p] = Row(ids[p + 1], p)
                 ELSE rows'[p - base] = Row(ids[p + 1], p)
      <3>1. CASE p = pos
        BY <1>4, <1>5, <1>6, <2>2, <2>3, <3>1
      <3>2. CASE p # pos
        <4>1. p \in base .. base + Cap - 1
          BY <1>3, <1>4, <2>3, CapNat
        <4>2. rows'[p - base] = rows[p - base]
          BY <1>6, <3>2, <4>1
        <4>. QED  BY <1>4, <2>2, <2>3, <3>2, <4>2
      <3>. QED  BY <3>1, <3>2
    <2>4. MovedRows' = (pc' = "shift" =>
              /\ DOMAIN staged' \subseteq Goals'
              /\ \A p \in Goals' : p >= base' =>
                     IF p \in DOMAIN staged' THEN staged'[p] = Row(ids'[p + 1], p)
                     ELSE rows'[p - base'] = Row(ids'[p + 1], p))
      BY DEF MovedRows, RowAt, Row
    <2>. QED  BY <1>2, <1>4, <1>6, <2>1, <2>2, <2>3, <2>4
  <1>. QED  BY <1>2, <1>7, <1>8, <1>9 DEF RowsInv, ChunkRows

LEMMA ShiftEndsRows == ASSUME IInv, RowsInv, ShiftEnds PROVE RowsInv'
  <1>1. /\ pc = "shift" /\ DOMAIN staged = {} /\ Rewound
        /\ pc' = "prefill" /\ plan' \in {plan, <<>>}
        /\ UNCHANGED <<rows, base, ids, attended>>
    BY DEF ShiftEnds
  <1>2. WindowRead'
    BY <1>1, StillRead DEF RowsInv
  <1>3. Based' /\ FedRows'
    BY <1>1, <1>2, RewoundRows
  <1>4. ChunkRows'
    <2>1. CASE plan' = <<>>
      BY <2>1 DEF ChunkRows
    <2>2. CASE plan' = plan
      <3>1. ASSUME NEW i \in DOMAIN plan
            PROVE  /\ plan[i].dst + plan[i].n <= base + Cap
                   /\ \A p \in plan[i].dst .. plan[i].dst + plan[i].n - 1 :
                          p >= base => rows[p - base] = Row(ids[p + 1], p)
        <4>1. /\ plan[i].dst + plan[i].n <= base + Cap
              /\ plan[i].dst .. plan[i].dst + plan[i].n - 1 \subseteq Goals
          BY <1>1, GoalFacts DEF RowsInv
        <4>2. \A p \in Goals : p >= base => rows[p - base] = Row(ids[p + 1], p)
          BY <1>1 DEF RowsInv, MovedRows, RowAt
        <4>. QED  BY <4>1, <4>2
      <3>2. ChunkRows' = (pc' = "prefill" =>
                \A i \in DOMAIN plan' :
                    /\ plan'[i].dst + plan'[i].n <= base' + Cap
                    /\ \A p \in plan'[i].dst .. plan'[i].dst + plan'[i].n - 1 :
                           p >= base' => rows'[p - base'] = Row(ids'[p + 1], p))
        BY DEF ChunkRows, RowAt, Row, Cap
      <3>. QED  BY <1>1, <2>2, <3>1, <3>2
    <2>. QED  BY <1>1, <2>1, <2>2
  <1>. QED  BY <1>1, <1>2, <1>3, <1>4 DEF RowsInv, MovedRows

\* What is fed between chunks does not reach them, nor does it make rows slide
\* while there are any.
LEMMA FeedRows == ASSUME IInv, RowsInv, Feed PROVE RowsInv'
  <1>1. /\ pc = "prefill" /\ pc' = "prefill" /\ NPos < GapEnd
        /\ UNCHANGED <<ids, reuse, plan>>
    BY DEF Feed, planVars
  <1>2. PICK size \in ChunkSizes : Fits(Batch(size)) /\ Forward(Batch(size))
    BY DEF Feed
  <1>. DEFINE toks == Batch(size)
              k == Len(toks)
  <1>3. /\ toks \in Seq(Tokens) /\ k \in Nat /\ k > 0 /\ NPos + k <= GapEnd /\ GapEnd \in Nat
        /\ GapEnd <= Len(ids) /\ \A i \in DOMAIN plan : GapEnd <= plan[i].dst
    BY <1>1, BatchFacts
  <1>4. Fits(toks) /\ Forward(toks)
    BY <1>2
  <1>. HIDE DEF toks
  <1>5. /\ base \in Nat /\ NPos \in Nat /\ Len(ids) \in Nat /\ Len(ids) <= NCtx
        /\ TypeOK /\ Based /\ FedRows
    BY PlanFacts DEF IInv, RowsInv, Based
  <1>6. toks # <<>> /\ NPos + k <= NCtx
    BY <1>3, <1>5, KvAssumption
  <1>7. /\ Based' /\ FedRows' /\ WindowRead'
        /\ NPos + k <= base + Cap =>
               /\ base' = base
               /\ \A p \in NPos + k .. base + Cap - 1 : rows'[p - base] = rows[p - base]
    BY <1>1, <1>3, <1>4, <1>5, <1>6, ForwardFacts
  <1>. HIDE DEF k
  <1>8. ASSUME NEW i \in DOMAIN plan
        PROVE  /\ plan[i].dst + plan[i].n <= base' + Cap
               /\ \A p \in plan[i].dst .. plan[i].dst + plan[i].n - 1 :
                      p >= base' => rows'[p - base'] = Row(ids[p + 1], p)
    <2>1. /\ plan[i].dst \in Nat /\ plan[i].n \in Nat /\ NPos + k <= plan[i].dst
          /\ plan[i].dst + plan[i].n <= base + Cap
      BY <1>1, <1>3, <1>5, PlanFacts DEF RowsInv, ChunkRows
    <2>2. NPos + k <= base + Cap
      BY <1>3, <1>5, <2>1, CapNat
    <2>3. base' = base /\ \A p \in NPos + k .. base + Cap - 1 : rows'[p - base] = rows[p - base]
      BY <1>7, <2>2
    <2>4. ASSUME NEW p \in plan[i].dst .. plan[i].dst + plan[i].n - 1, p >= base
          PROVE  rows'[p - base] = Row(ids[p + 1], p)
      <3>1. p \in NPos + k .. base + Cap - 1
        BY <1>3, <1>5, <2>1, CapNat
      <3>2. rows[p - base] = Row(ids[p + 1], p)
        BY <1>1, <2>4 DEF RowsInv, ChunkRows, RowAt
      <3>. QED  BY <2>3, <3>1, <3>2
    <2>. QED  BY <2>1, <2>3, <2>4
  <1>9. ChunkRows'
    <2>1. ChunkRows' = (pc' = "prefill" =>
              \A i \in DOMAIN plan' :
                  /\ plan'[i].dst + plan'[i].n <= base' + Cap
                  /\ \A p \in plan'[i].dst .. plan'[i].dst + plan'[i].n - 1 :
                         p >= base' => rows'[p - base'] = Row(ids'[p + 1], p))
      BY DEF ChunkRows, RowAt, Row, Cap
    <2>. QED  BY <1>1, <1>8, <2>1
  <1>. QED  BY <1>1, <1>7, <1>9 DEF RowsInv, MovedRows

LEMMA FeedBreaksRows == ASSUME IInv, RowsInv, FeedRefused \/ FeedBreaks PROVE RowsInv'
  <1>1. pc = "prefill" /\ NPos < GapEnd /\ pc' = "poisoned" /\ ids' = <<>>
    BY DEF FeedRefused, FeedBreaks, Forgotten
  <1>2. Len(ids') = 0 /\ 0 <= NCtx
    BY <1>1, KvAssumption
  <1>3. TypeOK /\ Based /\ FedRows /\ NPos \in Nat /\ Len(ids) \in Nat /\ Len(ids) <= NCtx
    BY PlanFacts DEF IInv, RowsInv, Based
  <1>4. CASE FeedRefused
    <2>1. UNCHANGED <<fed, rows, base>> /\ WindowRead'
      BY <1>4, NothingRead DEF FeedRefused, cacheVars
    <2>. QED  BY <1>1, <1>2, <1>3, <2>1, LeavesRows
  <1>5. CASE FeedBreaks
    <2>1. PICK size \in ChunkSizes : Fits(Batch(size)) /\ Broken(Batch(size))
      BY <1>5 DEF FeedBreaks
    <2>. DEFINE toks == Batch(size)
    <2>2. /\ toks \in Seq(Tokens) /\ Len(toks) \in Nat /\ Len(toks) > 0
          /\ NPos + Len(toks) <= GapEnd /\ GapEnd \in Nat /\ GapEnd <= Len(ids)
      BY <1>1, BatchFacts
    <2>3. Fits(toks) /\ Broken(toks)
      BY <2>1
    <2>. HIDE DEF toks
    <2>4. toks # <<>> /\ NPos + Len(toks) <= NCtx
      BY <1>3, <2>2, KvAssumption
    <2>. QED  BY <1>1, <1>2, <1>3, <2>2, <2>3, <2>4, BrokenRows
  <1>. QED  BY <1>4, <1>5

\* A chunk that was moved is where its tokens are fed.
LEMMA AdoptRows == ASSUME IInv, RowsInv, Adopt PROVE RowsInv'
  <1>. DEFINE e == plan[1].dst + plan[1].n
  <1>1. /\ pc = "prefill" /\ pc' = "prefill" /\ attended' = Nothing
        /\ UNCHANGED <<rows, base, ids, reuse>>
    BY DEF Adopt
  <1>2. /\ plan[1].dst \in Nat /\ plan[1].n \in Nat /\ Len(ids) \in Nat
        /\ 1 \in DOMAIN plan /\ NPos = plan[1].dst /\ e < Len(ids) /\ NPos' = e
        /\ \A t \in 1 .. e : fed'[t] = ids[t]
        /\ \A i \in DOMAIN plan' : i + 1 \in DOMAIN plan /\ plan'[i] = plan[i + 1]
    BY AdoptFacts
  <1>3. /\ base \in Nat /\ Kept(NPos) /\ Len(ids) <= NCtx /\ (Cap = NCtx => base = 0)
        /\ FedRows /\ e <= base + Cap
        /\ \A p \in plan[1].dst .. e - 1 : p >= base => rows[p - base] = Row(ids[p + 1], p)
    BY <1>1, <1>2 DEF RowsInv, Based, ChunkRows, RowAt
  <1>4. Based'
    <2>1. Kept(e) /\ e <= NCtx /\ e \in Nat
      BY <1>2, <1>3, KeptLater, KvAssumption
    <2>. HIDE DEF e
    <2>. QED  BY <1>1, <1>2, <1>3, <2>1 DEF Based, Kept
  <1>5. FedRows'
    <2>1. Placed = NPos /\ Placed' = e
      BY <1>1, <1>2 DEF Placed
    <2>2. ASSUME NEW q \in base .. e - 1 PROVE rows[q - base] = Row(fed'[q + 1], q)
      <3>1. q \in Nat /\ q + 1 \in 1 .. e /\ q >= base
        BY <1>2, <1>3
      <3>2. fed'[q + 1] = ids[q + 1]
        BY <1>2, <3>1
      <3>3. CASE q < NPos
        <4>1. q \in base .. NPos - 1 /\ q + 1 \in 1 .. NPos
          BY <1>2, <1>3, <3>1, <3>3
        <4>2. fed[q + 1] = ids[q + 1]
          BY <1>1, <4>1 DEF IInv, PlanSafe
        <4>. QED  BY <1>3, <2>1, <3>2, <4>1, <4>2 DEF FedRows, RowAt
      <3>4. CASE ~(q < NPos)
        <4>1. q \in plan[1].dst .. e - 1
          BY <1>2, <3>1, <3>4
        <4>. QED  BY <1>3, <3>1, <3>2, <4>1
      <3>. QED  BY <3>3, <3>4
    <2>3. FedRows' = \A q \in base' .. Placed' - 1 : rows'[q - base'] = Row(fed'[q + 1], q)
      BY DEF FedRows, RowAt, Row
    <2>. QED  BY <1>1, <2>1, <2>2, <2>3
  <1>6. ChunkRows'
    <2>1. ChunkRows' = (pc' = "prefill" =>
              \A i \in DOMAIN plan' :
                  /\ plan'[i].dst + plan'[i].n <= base' + Cap
                  /\ \A p \in plan'[i].dst .. plan'[i].dst + plan'[i].n - 1 :
                         p >= base' => rows'[p - base'] = Row(ids'[p + 1], p))
      BY DEF ChunkRows, RowAt, Row, Cap
    <2>2. \A i \in DOMAIN plan :
              /\ plan[i].dst + plan[i].n <= base + Cap
              /\ \A p \in plan[i].dst .. plan[i].dst + plan[i].n - 1 :
                     p >= base => rows[p - base] = Row(ids[p + 1], p)
      BY <1>1 DEF RowsInv, ChunkRows, RowAt
    <2>. QED  BY <1>1, <1>2, <2>1, <2>2
  <1>. QED  BY <1>1, <1>4, <1>5, <1>6, NothingRead DEF RowsInv, MovedRows

LEMMA PromptEndsRows == ASSUME IInv, RowsInv, PromptEnds PROVE RowsInv'
  <1>1. /\ pc = "prefill" /\ pc' = "idle" /\ ids' = <<>> /\ UNCHANGED <<fed, rows, base>>
        /\ attended' = Nothing
    BY DEF PromptEnds, Forgotten, cacheVars
  <1>2. Len(ids') <= NCtx
    BY <1>1, KvAssumption
  <1>. QED  BY <1>1, <1>2, NothingRead, LeavesRows DEF RowsInv

\* One token always fits.
LEMMA DecodeRows == ASSUME IInv, RowsInv, Decode \/ DecodeStops PROVE RowsInv'
  <1>1. /\ pc = "idle" /\ NPos < NCtx /\ UNCHANGED <<pc, ids, reuse>>
        /\ \E tok \in Tokens : Forward(<<tok>>) \/ Broken(<<tok>>)
    BY DEF Decode, DecodeStops, planVars
  <1>2. PICK tok \in Tokens : Forward(<<tok>>) \/ Broken(<<tok>>)
    BY <1>1
  <1>3. TypeOK /\ Based /\ FedRows /\ NPos \in Nat /\ Len(ids) <= NCtx
    BY PlanFacts DEF IInv, RowsInv, Based
  <1>. DEFINE toks == <<tok>>
  <1>4. /\ toks \in Seq(Tokens) /\ Len(toks) = 1 /\ toks # <<>>
        /\ Forward(toks) \/ Broken(toks)
    BY <1>2
  <1>. HIDE DEF toks
  <1>5. Fits(toks) /\ NPos + Len(toks) <= NCtx
    BY <1>1, <1>3, <1>4, KvAssumption DEF Fits
  <1>6. CASE Forward(toks)
    <2>1. Based' /\ FedRows' /\ WindowRead'
      BY <1>1, <1>3, <1>4, <1>5, <1>6, ForwardFacts
    <2>. QED  BY <1>1, <2>1 DEF RowsInv, MovedRows, ChunkRows
  <1>7. CASE Broken(toks)
    <2>1. pc' \in {"idle", "poisoned"} /\ Len(ids') <= NCtx
      BY <1>1, <1>3
    <2>. QED  BY <1>1, <1>3, <1>4, <1>5, <1>7, <2>1, BrokenRows
  <1>. QED  BY <1>4, <1>6, <1>7

LEMMA ResetRows == ASSUME FirstRowStays, IInv, RowsInv, Reset PROVE RowsInv'
  <1>1. /\ pc' = "idle" /\ fed' = <<>> /\ attended' = Nothing /\ UNCHANGED <<rows, base, ids>>
        /\ base = 0 /\ Len(ids) <= NCtx
    BY DEF Reset, FirstRowStays, RowsInv, Based, planVars
  <1>2. NPos' = 0
    BY <1>1 DEF NPos
  <1>3. Based'
    <2>1. 0 <= 0 + Cap /\ 0 <= NCtx /\ 0 <= Max2(0, 0 + 1 - Window)
      BY CapNat, KvAssumption DEF Max2
    <2>. QED  BY <1>1, <1>2, <2>1 DEF Based, Kept
  <1>4. FedRows'
    BY <1>1, <1>2 DEF FedRows, Placed
  <1>. QED  BY <1>1, <1>3, <1>4, NothingRead DEF RowsInv, MovedRows, ChunkRows

\* Other sessions leave the first row where it is: there is nothing to slide.
LEMMA OtherRows ==
    ASSUME FirstRowStays, RowsInv, OtherCreated \/ OtherFeeds \/ OtherResets PROVE RowsInv'
  <1>1. base \in Nat /\ (Cap = NCtx => base = 0)
    BY DEF RowsInv, Based
  <1>2. UNCHANGED <<fed, rows, pc, ids, reuse, plan, staged, attended>>
    BY DEF OtherCreated, OtherFeeds, OtherResets, cacheVars, planVars
  <1>3. base' = base
    <2>1. CASE OtherCreated
      BY <1>1, <2>1 DEF OtherCreated, FirstRowStays
    <2>2. CASE OtherFeeds
      <3>1. /\ other \in Nat /\ other < NCtx /\ base' = base + Slide(other)
            /\ ~LongOthers => other < Cap
        BY <2>2, KvAssumption DEF OtherFeeds
      <3>2. ~(Cap < NCtx /\ other >= base + Cap)
        BY <1>1, <3>1, CapNat, KvAssumption DEF FirstRowStays
      <3>3. Slide(other) = 0
        BY <3>2 DEF Slide
      <3>. QED  BY <1>1, <3>1, <3>3
    <2>3. CASE OtherResets
      BY <2>3 DEF OtherResets, cacheVars
    <2>. QED  BY <2>1, <2>2, <2>3
  <1>4. WindowRead'
    BY <1>2, StillRead DEF RowsInv
  <1>. QED  BY <1>2, <1>3, <1>4, SameRows

LEMMA RowsStep == ASSUME FirstRowStays PROVE IInv /\ RowsInv /\ [Next]_vars => RowsInv'
  <1>. SUFFICES ASSUME IInv, RowsInv, [Next]_vars PROVE RowsInv'
    OBVIOUS
  <1>1. CASE \E p \in Prompts : Begin(p)
    BY <1>1, BeginRows
  <1>2. CASE PlanSkip \/ PlanTake \/ PlanDropped
    BY <1>2, PlanRows, PlanDroppedRows
  <1>3. CASE ShiftBegins \/ ShiftRow \/ ShiftEnds
    BY <1>3, ShiftBeginsRows, ShiftRowRows, ShiftEndsRows
  <1>4. CASE Feed \/ FeedRefused \/ FeedBreaks
    BY <1>4, FeedRows, FeedBreaksRows
  <1>5. CASE Adopt \/ PromptEnds
    BY <1>5, AdoptRows, PromptEndsRows
  <1>6. CASE Decode \/ DecodeStops \/ Reset
    BY <1>6, DecodeRows, ResetRows
  <1>7. CASE OtherCreated \/ OtherFeeds \/ OtherResets
    BY <1>7, OtherRows
  <1>8. CASE UNCHANGED vars
    <2>1. UNCHANGED <<fed, rows, base, pc, ids, reuse, plan, staged, attended>>
      BY <1>8 DEF vars, cacheVars, planVars
    <2>2. WindowRead'
      BY <2>1, StillRead DEF RowsInv
    <2>. QED  BY <2>1, <2>2, SameRows
  <1>. QED  BY <1>1, <1>2, <1>3, <1>4, <1>5, <1>6, <1>7, <1>8 DEF Next

LEMMA InitRows == Init => RowsInv
  <1>. SUFFICES ASSUME Init PROVE RowsInv
    OBVIOUS
  <1>1. /\ fed = <<>> /\ base = 0 /\ pc = "idle" /\ ids = <<>> /\ attended = Nothing
    BY DEF Init
  <1>2. NPos = 0 /\ Len(ids) = 0
    BY <1>1 DEF NPos
  <1>3. Based
    <2>1. 0 <= 0 + Cap /\ 0 <= NCtx /\ 0 <= Max2(0, 0 + 1 - Window)
      BY CapNat, KvAssumption DEF Max2
    <2>. QED  BY <1>1, <1>2, <2>1 DEF Based, Kept
  <1>4. FedRows
    BY <1>1, <1>2 DEF FedRows, Placed
  <1>5. WindowRead
    BY <1>1 DEF WindowRead, Nothing
  <1>. QED  BY <1>1, <1>3, <1>4, <1>5 DEF RowsInv, MovedRows, ChunkRows

\* Where the first row stays, whatever slides, is moved, is fed again, fails or is
\* interrupted, a token attends to the rows of exactly the tokens of its window,
\* each at its own position.  A layer that keeps all rows needs nothing for that:
\* prompts may go back as far as they like, and other sessions may grow.
\* (cpu_kv_put_slot, cpu_kv_window_to_slots_base, cpu_kv_shift, the slack.)
THEOREM WindowsAreRead == ASSUME FirstRowStays PROVE Spec => []WindowRead
  <1>1. Init => IInv /\ RowsInv
    BY InitIInv, InitRows
  <1>2. IInv /\ RowsInv /\ [Next]_vars => (IInv /\ RowsInv)'
    BY NextKeeps, RowsStep
  <1>3. RowsInv => WindowRead
    BY DEF RowsInv
  <1>. QED  BY <1>1, <1>2, <1>3, PTL DEF Spec
=============================================================================
