------------------------- MODULE OpenAiServerProofs -------------------------
(***************************************************************************)
(* Proofs about OpenAiServer, for any number of requests, slots, tokens    *)
(* and chunks: contexts are freed by their last holder, a slot serves one  *)
(* request at a time, no job is left behind, an answered connection leaves *)
(* its slot alone, a client reads its frames in order, a task is resumed   *)
(* with the result of its batch, and an abandoned request stops.           *)
(*                                                                         *)
(* None of these is inductive.  Places says where each job is, by the      *)
(* label its holder is at: in the queue, in the worker's hand, with the    *)
(* thread that cancels, or running, and nowhere twice.  Phases says how    *)
(* far the server's stop has come.  A context that a task uses outlives    *)
(* its connection because the job's reference is counted (RefsCountHolders *)
(* is used in the proof of SlotsExclusive).  Told says, for a connection   *)
(* that is not closed, what its context and its stream show of the job.    *)
(* Waiting, Marks and Ready say which tasks wait for a batch, what was     *)
(* computed for each, and what is left to stop one whose client has left.  *)
(***************************************************************************)
EXTENDS OpenAiServer, SequenceTheorems, TLAPS

Ctx == [refs : Nat, genDone : BOOLEAN, gone : BOOLEAN, producerDone : BOOLEAN,
        frames : Seq(Frames), generated : Nat \cup {-1}, sctx : SlotOrNone, sentAny : BOOLEAN]
Task == [slot : SlotOrNone, left : 0 .. PrefillChunks, pending : BOOLEAN,
         status : {"ok", "interrupted", "failed"}]
Work == [decoded : Nat, late : Nat, told : BOOLEAN, wiped : BOOLEAN]

\* A job that ends with an error, and one that runs as a task.
EndLabels == {"fail", "finish", "last", "producer", "release"}
TaskLabels == {"begin", "setup", "prefill", "decode", "feed", "clear", "done",
               "finish", "last", "producer", "release"}

Inj(s) == \A i, j \in 1 .. Len(s) : s[i] = s[j] => i = j

\* A job is in one place, which its label tells.
Places ==
    /\ \A r \in Requests : job[r] = "queued" <=> r \in InQueue
    /\ Inj(queue) /\ Inj(tasks)
    /\ \A r \in InTasks : job[r] \in TaskLabels
    /\ hand # None => hand \notin InTasks /\ hand # cancel
    /\ cancel # None => cancel \notin InTasks /\ job[cancel] \in EndLabels
    /\ worker \in {"start", "putback"} => hand # None /\ job[hand] = "held"
    /\ worker \in {"failStart", "failBack"} => hand # None /\ job[hand] \in EndLabels
    /\ worker \notin {"start", "putback", "failStart", "failBack"} => hand = None
    /\ \A r \in Requests : job[r] \notin {"none", "over", "queued"} =>
           r = hand \/ r = cancel \/ r \in InTasks
    /\ \A r \in Requests : conn[r] \in {"none", "push"} => job[r] = "none"

\* How far the server is from its end, and who holds sch_mtx on the way.
Phases ==
    /\ schMtx = Main <=> main = "cancelling"
    /\ worker = "sleepy" => schMtx = Worker
    /\ shutting <=> main # "up"
    /\ cancel # None => main = "cancelling"
    /\ main \in {"draining", "joining", "freed"} => queue = <<>>
    /\ worker = "exited" => shutting /\ tasks = <<>>
    /\ main \in {"joining", "freed"} => \A r \in Requests : conn[r] \in {"none", "closed"}
    /\ main = "freed" => worker = "exited"
    /\ worker = "run" => idx <= Len(tasks)
    /\ worker \in {"pop", "start"} => Len(tasks) < SlotsCap

SlotsInv ==
    /\ SlotsExclusive
    /\ \A r \in InTasks : Slot(r) \in Slots

IInv == TypeOK /\ Places /\ Phases /\ RefsCountHolders /\ SlotsInv

-----------------------------------------------------------------------------
(* Sequences without repetition.                                           *)

Elems(s) == {s[i] : i \in 1 .. Len(s)}

LEMMA AppendFacts ==
    ASSUME NEW S, NEW s \in Seq(S), NEW e \in S
    PROVE  /\ Append(s, e) \in Seq(S) /\ Len(Append(s, e)) = Len(s) + 1
           /\ Elems(Append(s, e)) = Elems(s) \cup {e}
           /\ Inj(s) /\ e \notin Elems(s) => Inj(Append(s, e))
           /\ \A i \in 1 .. Len(s) : Append(s, e)[i] = s[i]
           /\ Append(s, e)[Len(s) + 1] = e
  <1>. DEFINE t == Append(s, e)
  <1>1. /\ t \in Seq(S) /\ Len(t) = Len(s) + 1 /\ Len(s) \in Nat
        /\ \A i \in 1 .. Len(s) : t[i] = s[i]
        /\ t[Len(s) + 1] = e
    BY AppendProperties
  <1>. HIDE DEF t
  <1>2. Elems(t) = Elems(s) \cup {e}
    <2>1. \A i \in 1 .. Len(t) : i \in 1 .. Len(s) \/ i = Len(s) + 1
      BY <1>1
    <2>2. \A i \in 1 .. Len(s) : i \in 1 .. Len(t)
      BY <1>1
    <2>3. Len(s) + 1 \in 1 .. Len(t)
      BY <1>1
    <2>. QED  BY <1>1, <2>1, <2>2, <2>3 DEF Elems
  <1>3. Inj(s) /\ e \notin Elems(s) => Inj(t)
    <2>. SUFFICES ASSUME Inj(s), e \notin Elems(s), NEW i \in 1 .. Len(t), NEW j \in 1 .. Len(t), t[i] = t[j]
                  PROVE  i = j
      BY DEF Inj
    <2>1. (i \in 1 .. Len(s) \/ i = Len(s) + 1) /\ (j \in 1 .. Len(s) \/ j = Len(s) + 1)
      BY <1>1
    <2>. QED  BY <1>1, <2>1 DEF Inj, Elems
  <1>. QED  BY <1>1, <1>2, <1>3 DEF t

LEMMA TailFacts ==
    ASSUME NEW S, NEW s \in Seq(S), s # <<>>
    PROVE  /\ Tail(s) \in Seq(S) /\ Head(s) \in S /\ Head(s) \in Elems(s)
           /\ Inj(s) => Inj(Tail(s)) /\ Elems(Tail(s)) = Elems(s) \ {Head(s)}
  <1>. DEFINE t == Tail(s)
  <1>1. /\ t \in Seq(S) /\ Len(t) = Len(s) - 1 /\ Len(s) \in Nat \ {0} /\ Head(s) = s[1] /\ Head(s) \in S
        /\ \A i \in 1 .. Len(t) : t[i] = s[i + 1]
    BY HeadTailProperties, EmptySeq
  <1>. HIDE DEF t
  <1>2. Head(s) \in Elems(s)
    BY <1>1 DEF Elems
  <1>3. ASSUME Inj(s) PROVE Inj(t)
    <2>. SUFFICES ASSUME NEW i \in 1 .. Len(t), NEW j \in 1 .. Len(t), t[i] = t[j]
                  PROVE  i = j
      BY DEF Inj
    <2>1. i + 1 \in 1 .. Len(s) /\ j + 1 \in 1 .. Len(s) /\ s[i + 1] = s[j + 1]
      BY <1>1
    <2>. QED  BY <1>3, <2>1 DEF Inj
  <1>4. ASSUME Inj(s) PROVE Elems(t) = Elems(s) \ {s[1]}
    <2>1. ASSUME NEW i \in 1 .. Len(t) PROVE t[i] \in Elems(s) /\ t[i] # s[1]
      <3>1. i + 1 \in 1 .. Len(s) /\ 1 \in 1 .. Len(s) /\ t[i] = s[i + 1] /\ i + 1 # 1
        BY <1>1
      <3>. QED  BY <1>4, <3>1 DEF Inj, Elems
    <2>2. ASSUME NEW i \in 1 .. Len(s), s[i] # s[1] PROVE s[i] \in Elems(t)
      <3>1. i - 1 \in 1 .. Len(t) /\ t[i - 1] = s[i]
        BY <1>1, <2>2
      <3>. QED  BY <3>1 DEF Elems
    <2>3. \A x \in Elems(t) : x \in Elems(s) /\ x # s[1]
      BY <2>1 DEF Elems
    <2>4. \A x \in Elems(s) : x # s[1] => x \in Elems(t)
      BY <2>2 DEF Elems
    <2>. QED  BY <2>3, <2>4
  <1>. QED  BY <1>1, <1>2, <1>3, <1>4 DEF t

LEMMA ConsFacts ==
    ASSUME NEW S, NEW s \in Seq(S), NEW e \in S
    PROVE  /\ <<e>> \o s \in Seq(S)
           /\ Elems(<<e>> \o s) = Elems(s) \cup {e}
           /\ Inj(s) /\ e \notin Elems(s) => Inj(<<e>> \o s)
  <1>. DEFINE t == <<e>> \o s
  <1>1. /\ t \in Seq(S) /\ Len(t) = Len(s) + 1 /\ Len(s) \in Nat
        /\ t[1] = e /\ \A i \in 2 .. Len(t) : t[i] = s[i - 1]
    <2>1. <<e>> \in Seq(S) /\ Len(<<e>>) = 1 /\ <<e>>[1] = e
      OBVIOUS
    <2>. QED  BY <2>1, ConcatProperties
  <1>. HIDE DEF t
  <1>2. \A i \in 1 .. Len(t) : i = 1 \/ (i \in 2 .. Len(t) /\ i - 1 \in 1 .. Len(s))
    BY <1>1
  <1>3. \A i \in 1 .. Len(s) : i + 1 \in 2 .. Len(t) /\ i + 1 \in 1 .. Len(t) /\ t[i + 1] = s[i]
    BY <1>1
  <1>4. Elems(t) = Elems(s) \cup {e}
    <2>1. \A x \in Elems(t) : x \in Elems(s) \cup {e}
      BY <1>1, <1>2 DEF Elems
    <2>2. 1 \in 1 .. Len(t)
      BY <1>1
    <2>3. \A x \in Elems(s) \cup {e} : x \in Elems(t)
      BY <1>1, <1>3, <2>2 DEF Elems
    <2>. QED  BY <2>1, <2>3
  <1>5. ASSUME Inj(s), e \notin Elems(s) PROVE Inj(t)
    <2>. SUFFICES ASSUME NEW i \in 1 .. Len(t), NEW j \in 1 .. Len(t), t[i] = t[j]
                  PROVE  i = j
      BY DEF Inj
    <2>1. \A k \in 2 .. Len(t) : t[k] # e
      BY <1>1, <1>2, <1>5 DEF Elems
    <2>2. CASE i = 1 \/ j = 1
      BY <1>1, <1>2, <2>1, <2>2
    <2>3. CASE i # 1 /\ j # 1
      <3>1. i - 1 = j - 1
        BY <1>1, <1>2, <1>5, <2>3 DEF Inj
      <3>. QED  BY <3>1
    <2>. QED  BY <2>2, <2>3
  <1>. QED  BY <1>1, <1>4, <1>5 DEF t

\* What is left of the tasks when one ends.
LEMMA WithoutFacts ==
    ASSUME NEW S, NEW s \in Seq(S), NEW n \in 1 .. Len(s), Inj(s)
    PROVE  /\ Without(s, n) \in Seq(S) /\ Len(Without(s, n)) = Len(s) - 1
           /\ Elems(Without(s, n)) = Elems(s) \ {s[n]}
           /\ Inj(Without(s, n))
  <1>. DEFINE t == Without(s, n)
              from(k) == IF k = n THEN Len(s) ELSE k
  <1>1. Len(s) \in Nat /\ Len(s) - 1 \in Nat
    OBVIOUS
  <1>2. \A k \in 1 .. Len(s) - 1 : from(k) \in 1 .. Len(s) /\ from(k) # n
    BY <1>1
  <1>3. t = [k \in 1 .. Len(s) - 1 |-> s[from(k)]]
    BY DEF Without
  <1>4. t \in Seq(S) /\ Len(t) = Len(s) - 1
    <2>1. t \in [1 .. Len(s) - 1 -> S]
      BY <1>2, <1>3
    <2>. QED  BY <1>1, <2>1
  <1>5. \A k \in 1 .. Len(t) : t[k] = s[from(k)]
    BY <1>3, <1>4
  <1>. HIDE DEF t
  <1>6. Elems(t) = Elems(s) \ {s[n]}
    <2>1. ASSUME NEW k \in 1 .. Len(t) PROVE t[k] \in Elems(s) /\ t[k] # s[n]
      <3>1. from(k) \in 1 .. Len(s) /\ from(k) # n /\ t[k] = s[from(k)]
        BY <1>2, <1>4, <1>5
      <3>. HIDE DEF from
      <3>. QED  BY <3>1 DEF Inj, Elems
    <2>2. ASSUME NEW k \in 1 .. Len(s), s[k] # s[n] PROVE s[k] \in Elems(t)
      <3>1. k # n
        BY <2>2
      <3>2. CASE k = Len(s)
        <4>1. n \in 1 .. Len(t) /\ t[n] = s[k]
          BY <1>1, <1>4, <1>5, <3>1, <3>2
        <4>. QED  BY <4>1 DEF Elems
      <3>3. CASE k # Len(s)
        <4>1. k \in 1 .. Len(t) /\ t[k] = s[k]
          BY <1>1, <1>4, <1>5, <3>1, <3>3
        <4>. QED  BY <4>1 DEF Elems
      <3>. QED  BY <3>2, <3>3
    <2>3. \A x \in Elems(t) : x \in Elems(s) /\ x # s[n]
      BY <2>1 DEF Elems
    <2>4. \A x \in Elems(s) : x # s[n] => x \in Elems(t)
      BY <2>2 DEF Elems
    <2>. QED  BY <2>3, <2>4
  <1>7. Inj(t)
    <2>. SUFFICES ASSUME NEW i \in 1 .. Len(t), NEW j \in 1 .. Len(t), t[i] = t[j]
                  PROVE  i = j
      BY DEF Inj
    <2>1. from(i) = from(j)
      BY <1>2, <1>4, <1>5 DEF Inj
    <2>. QED  BY <1>1, <1>4, <2>1
  <1>. QED  BY <1>4, <1>6, <1>7 DEF t

-----------------------------------------------------------------------------
(* TypeOK.                                                                 *)

LEMMA InitIInv == Init => IInv
  <1>. SUFFICES ASSUME Init PROVE IInv
    OBVIOUS
  <1>. USE ServerAssumption
  <1>1. Len(<<>>) = 0 /\ InQueue = {} /\ InTasks = {}
    BY DEF Init, InQueue, InTasks
  <1>2. TypeOK
    <2>1. NoContext \in Ctx /\ NoTask \in Task
      BY DEF NoContext, NoTask, Ctx, Task, SlotOrNone
    <2>2. rc \in [Requests -> Ctx] /\ task \in [Requests -> Task]
      BY <2>1 DEF Init
    <2>3. <<>> \in Seq(Requests)
      OBVIOUS
    <2>4. 1 \in Slots /\ "none" \in JobLabels /\ "none" \in ConnLabels /\ "none" \in Replies
          /\ "look" \in WorkerLabels /\ "up" \in MainLabels
      BY DEF Slots, JobLabels, ConnLabels, WorkerLabels, MainLabels, Replies
    <2>5. /\ busy \in [Slots -> BOOLEAN] /\ interrupt \in [Slots -> BOOLEAN]
          /\ live \in [Requests -> BOOLEAN] /\ work \in [Requests -> Work]
          /\ job \in [Requests -> JobLabels] /\ conn \in [Requests -> ConnLabels]
          /\ reply \in [Requests -> Replies] /\ got \in [Requests -> Frames \cup {"none"}]
      BY <2>4 DEF Init, NoWork, Work
    <2>6. /\ queue \in Seq(Requests) /\ tasks \in Seq(Requests)
          /\ nSlots \in Slots /\ idx \in Nat \ {0}
      BY <2>3, <2>4 DEF Init
    <2>7. /\ shutting \in BOOLEAN /\ schMtx \in {None, Worker, Main} /\ worker \in WorkerLabels
          /\ hand \in Requests \cup {None} /\ main \in MainLabels /\ cancel \in Requests \cup {None}
      BY <2>4 DEF Init
    <2>. QED  BY <2>2, <2>5, <2>6, <2>7 DEF TypeOK, Ctx, Task, Work
  <1>3. Places
    BY <1>1 DEF Init, Places, Inj
  <1>4. Phases
    BY <1>1, ServerAssumption DEF Init, Phases
  <1>5. RefsCountHolders
    BY DEF Init, RefsCountHolders, One, HasResponse, NoContext
  <1>6. SlotsInv
    BY <1>1 DEF Init, SlotsInv, SlotsExclusive, Slots
  <1>. QED  BY <1>2, <1>3, <1>4, <1>5, <1>6 DEF IInv

\* Some fields of one context change.
LEMMA FramesGrow ==
    ASSUME TypeOK, NEW r \in Requests, NEW sent \in BOOLEAN
    PROVE  /\ rc[r].frames \o Preamble(r) \o <<"finish">> \in Seq(Frames)
           /\ Append(rc[r].frames, "[DONE]") \in Seq(Frames)
           /\ rc[r].frames \o Delta(r, sent) \in Seq(Frames)
           /\ rc[r].frames # <<>> => Tail(rc[r].frames) \in Seq(Frames) /\ Head(rc[r].frames) \in Frames
  <1>1. rc[r].frames \in Seq(Frames)
    BY DEF TypeOK
  <1>2. /\ Preamble(r) \in Seq(Frames)
        /\ <<"finish">> \in Seq(Frames) /\ <<"delta">> \in Seq(Frames) /\ "[DONE]" \in Frames
    <2>1. "preamble" \in Frames /\ "delta" \in Frames /\ "finish" \in Frames /\ "[DONE]" \in Frames
      BY DEF Frames
    <2>. QED  BY <2>1 DEF Preamble
  <1>3. Delta(r, sent) \in Seq(Frames)
    <2>1. Preamble(r) \o <<"delta">> \in Seq(Frames)
      BY <1>2, ConcatProperties
    <2>. QED  BY <2>1 DEF Delta
  <1>4. rc[r].frames \o Preamble(r) \in Seq(Frames)
    BY <1>1, <1>2, ConcatProperties
  <1>5. rc[r].frames \o Preamble(r) \o <<"finish">> \in Seq(Frames)
    BY <1>2, <1>4, ConcatProperties
  <1>6. Append(rc[r].frames, "[DONE]") \in Seq(Frames)
    BY <1>1, <1>2, AppendProperties
  <1>7. rc[r].frames \o Delta(r, sent) \in Seq(Frames)
    BY <1>1, <1>3, ConcatProperties
  <1>8. ASSUME rc[r].frames # <<>> PROVE Tail(rc[r].frames) \in Seq(Frames) /\ Head(rc[r].frames) \in Frames
    BY <1>1, <1>8, HeadTailProperties
  <1>. QED  BY <1>5, <1>6, <1>7, <1>8

\* The fields a step sets.
LEMMA SetFields ==
    ASSUME NEW c \in Ctx
    PROVE  /\ NoContext \in Ctx
           /\ \A n \in Nat : [c EXCEPT !.refs = n] \in Ctx
           /\ \A s \in SlotOrNone : [c EXCEPT !.sctx = s] \in Ctx
           /\ [c EXCEPT !.gone = TRUE] \in Ctx /\ [c EXCEPT !.genDone = TRUE] \in Ctx
           /\ [c EXCEPT !.producerDone = TRUE] \in Ctx
           /\ \A f \in Seq(Frames) : [c EXCEPT !.frames = f] \in Ctx
           /\ \A f \in Seq(Frames), b \in BOOLEAN : [c EXCEPT !.frames = f, !.sentAny = b] \in Ctx
           /\ \A f \in Seq(Frames), b \in BOOLEAN, n \in Nat :
                  [c EXCEPT !.generated = n, !.frames = f, !.sentAny = b] \in Ctx
           /\ [c EXCEPT !.generated = -1] \in Ctx
           /\ [c EXCEPT !.generated = -1, !.genDone = TRUE] \in Ctx
           /\ [c EXCEPT !.genDone = FALSE, !.generated = 0, !.sentAny = FALSE] \in Ctx
  <1>1. NoContext \in Ctx
    BY DEF NoContext, Ctx, SlotOrNone
  <1>2. /\ \A n \in Nat : [c EXCEPT !.refs = n] \in Ctx
        /\ \A s \in SlotOrNone : [c EXCEPT !.sctx = s] \in Ctx
    BY DEF Ctx
  <1>3. /\ [c EXCEPT !.gone = TRUE] \in Ctx /\ [c EXCEPT !.genDone = TRUE] \in Ctx
        /\ [c EXCEPT !.producerDone = TRUE] \in Ctx
    BY DEF Ctx
  <1>4. \A f \in Seq(Frames) : [c EXCEPT !.frames = f] \in Ctx
    BY DEF Ctx
  <1>5. \A f \in Seq(Frames), b \in BOOLEAN : [c EXCEPT !.frames = f, !.sentAny = b] \in Ctx
    BY DEF Ctx
  <1>6. \A f \in Seq(Frames), b \in BOOLEAN, n \in Nat :
           [c EXCEPT !.generated = n, !.frames = f, !.sentAny = b] \in Ctx
    BY DEF Ctx
  <1>7. /\ [c EXCEPT !.generated = -1] \in Ctx
        /\ [c EXCEPT !.generated = -1, !.genDone = TRUE] \in Ctx
        /\ [c EXCEPT !.genDone = FALSE, !.generated = 0, !.sentAny = FALSE] \in Ctx
    BY DEF Ctx
  <1>. QED  BY <1>1, <1>2, <1>3, <1>4, <1>5, <1>6, <1>7

\* A thread that drops a reference has one.
LEMMA RefsPositive ==
    ASSUME TypeOK, RefsCountHolders, NEW r \in Requests,
           conn[r] \in {"push", "store", "free"} \/ job[r] = "release"
    PROVE  rc[r].refs \in Nat \ {0}
  <1>1. rc[r].refs \in Nat
    BY DEF TypeOK
  <1>. QED  BY <1>1 DEF RefsCountHolders, One, HasResponse

LEMMA UnrefCtx ==
    ASSUME TypeOK, NEW r \in Requests, rc[r].refs \in Nat \ {0}, Unref(r)
    PROVE  rc' \in [Requests -> Ctx]
  <1>1. rc \in [Requests -> Ctx] /\ rc[r] \in Ctx
    BY DEF TypeOK, Ctx
  <1>2. rc[r].refs - 1 \in Nat
    OBVIOUS
  <1>3. CASE rc[r].refs = 1
    <2>1. rc' = [rc EXCEPT ![r] = NoContext]
      BY <1>3 DEF Unref
    <2>. QED  BY <1>1, <2>1, SetFields
  <1>4. CASE rc[r].refs # 1
    <2>1. rc' = [rc EXCEPT ![r].refs = @ - 1]
      BY <1>4 DEF Unref
    <2>2. [rc[r] EXCEPT !.refs = @ - 1] \in Ctx
      BY <1>1, <1>2, SetFields
    <2>. QED  BY <1>1, <2>1, <2>2
  <1>. QED  BY <1>3, <1>4

LEMMA CtxNext ==
    ASSUME TypeOK, RefsCountHolders, NEW r \in Requests,
           Post(r) \/ Serve(r) \/ EndJob(r) \/ Generate(r)
    PROVE  rc' \in [Requests -> Ctx]
  <1>. /\ rc \in [Requests -> Ctx] /\ rc[r] \in Ctx
       /\ \A c \in Ctx : [rc EXCEPT ![r] = c] \in [Requests -> Ctx]
    BY DEF TypeOK, Ctx
  <1>1. CASE Post(r)
    BY <1>1, SetFields DEF Post
  <1>2. CASE Push(r) \/ RespondFails(r) \/ WaitDone(r) \/ ReadEnd(r)
    BY <1>2 DEF Push, Pushed, RespondFails, WaitDone, ReadEnd
  <1>3. CASE PushRefused(r) \/ StoreInterrupt(r) \/ FreeResponse(r) \/ TaskEnds(r)
    <2>1. rc[r].refs \in Nat \ {0}
      BY <1>3, RefsPositive DEF PushRefused, StoreInterrupt, FreeResponse, TaskEnds
    <2>. QED  BY <1>3, <2>1, UnrefCtx DEF PushRefused, StoreInterrupt, FreeResponse, TaskEnds
  <1>4. CASE Respond(r)
    <2>1. rc[r].refs + 1 \in Nat
      BY DEF Ctx
    <2>2. [rc[r] EXCEPT !.refs = @ + 1] \in Ctx
      BY <2>1, SetFields
    <2>. QED  BY <1>4, <2>2 DEF Respond
  <1>5. CASE ReadFrame(r)
    <2>1. [rc[r] EXCEPT !.frames = Tail(@)] \in Ctx
      BY <1>5, FramesGrow, SetFields DEF ReadFrame
    <2>. QED  BY <1>5, <2>1 DEF ReadFrame
  <1>6. CASE MarkGone(r) \/ FailJob(r) \/ QueueDone(r) \/ PrefillFails(r) \/ Setup(r) \/ GenerationDone(r)
    BY <1>6, SetFields DEF MarkGone, FailJob, QueueDone, PrefillFails, Setup, GenerationDone
  <1>7. CASE FinishChunk(r)
    <2>1. [rc[r] EXCEPT !.frames = @ \o Preamble(r) \o <<"finish">>, !.sentAny = TRUE] \in Ctx
      BY FramesGrow, SetFields
    <2>. QED  BY <1>7, <2>1 DEF FinishChunk
  <1>8. CASE LastFrame(r)
    <2>1. [rc[r] EXCEPT !.frames = Append(@, "[DONE]")] \in Ctx
      BY FramesGrow, SetFields
    <2>. QED  BY <1>8, <2>1 DEF LastFrame
  <1>9. CASE Begin(r)
    <2>1. [rc[r] EXCEPT !.sctx = Slot(r)] \in Ctx
      BY SetFields DEF Slot, TypeOK
    <2>. QED  BY <1>9, <2>1 DEF Begin
  <1>10. CASE DecodeStops(r) \/ FeedStops(r)
    <2>1. PICK held \in BOOLEAN :
            rc' = [rc EXCEPT ![r].frames = @ \o Delta(r, held),
                             ![r].sentAny = @ \/ Delta(r, held) # <<>>]
      BY <1>10 DEF DecodeStops, FeedStops
    <2>2. (rc[r].sentAny \/ Delta(r, held) # <<>>) \in BOOLEAN
      OBVIOUS
    <2>3. rc[r].frames \o Delta(r, held) \in Seq(Frames)
      BY FramesGrow
    <2>. QED  BY <2>1, <2>2, <2>3, SetFields
  <1>11. CASE Token(r)
    <2>1. PICK piece \in {"send", "hold", "stop"} :
            rc' = [rc EXCEPT ![r].generated = @ + 1, ![r].frames = @ \o Delta(r, piece = "send"),
                             ![r].sentAny = @ \/ Delta(r, piece = "send") # <<>>]
      BY <1>11 DEF Token
    <2>2. (rc[r].sentAny \/ Delta(r, piece = "send") # <<>>) \in BOOLEAN
      OBVIOUS
    <2>3. rc[r].generated + 1 \in Nat
      BY DEF Ctx
    <2>4. rc[r].frames \o Delta(r, piece = "send") \in Seq(Frames)
      BY FramesGrow
    <2>. QED  BY <2>1, <2>2, <2>3, <2>4, SetFields
  <1>12. CASE PrefillInterrupted(r) \/ PrefillYields(r) \/ PrefillDone(r) \/ FeedYields(r) \/ ClearInterrupt(r)
    BY <1>12 DEF PrefillInterrupted, PrefillYields, PrefillDone, FeedYields, ClearInterrupt
  <1>. QED  BY <1>1, <1>2, <1>3, <1>4, <1>5, <1>6, <1>7, <1>8, <1>9, <1>10, <1>11, <1>12
            DEF Serve, EndJob, Generate

\* DecodeBatch alone changes several tasks.
LEMMA TaskNext ==
    ASSUME TypeOK, Places, SlotsInv, Next
    PROVE  task' \in [Requests -> Task]
  <1>0. PrefillChunks \in Nat \ {0} /\ 0 \in 0 .. PrefillChunks
    BY ServerAssumption
  <1>1. /\ task \in [Requests -> Task] /\ NoTask \in Task
        /\ \A r \in Requests, t \in Task : [task EXCEPT ![r] = t] \in [Requests -> Task]
    BY <1>0 DEF TypeOK, Task, NoTask, SlotOrNone
  <1>2. ASSUME NEW r \in Requests
        PROVE  /\ \A n \in 0 .. PrefillChunks : [task[r] EXCEPT !.left = n] \in Task
               /\ \A s \in Slots : [task[r] EXCEPT !.slot = s] \in Task
               /\ [task[r] EXCEPT !.pending = TRUE] \in Task
               /\ \A x \in {"ok", "interrupted", "failed"} :
                      [task[r] EXCEPT !.pending = FALSE, !.status = x] \in Task
               /\ task[r].left \in 0 .. PrefillChunks
    BY <1>1 DEF Task, SlotOrNone
  <1>3. ASSUME NEW r \in Requests, Setup(r) PROVE task' \in [Requests -> Task]
    <2>1. PICK n \in 1 .. PrefillChunks : task' = [task EXCEPT ![r].left = n]
      BY <1>3 DEF Setup
    <2>2. n \in 0 .. PrefillChunks
      BY <1>0
    <2>3. [task[r] EXCEPT !.left = n] \in Task
      BY <1>2, <2>2
    <2>. QED  BY <1>1, <2>1, <2>3
  <1>4. ASSUME NEW r \in Requests, PrefillYields(r) PROVE task' \in [Requests -> Task]
    <2>0. task[r].left \in 0 .. PrefillChunks /\ task[r].left > 1
      BY <1>2, <1>4 DEF PrefillYields
    <2>1. task[r].left - 1 \in 0 .. PrefillChunks
      BY <1>0, <2>0
    <2>2. [task[r] EXCEPT !.left = @ - 1] \in Task
      BY <1>2, <2>1
    <2>. QED  BY <1>1, <1>4, <2>2 DEF PrefillYields
  <1>5. ASSUME NEW r \in Requests, PrefillDone(r) \/ FeedYields(r) \/ TaskEnds(r)
        PROVE  task' \in [Requests -> Task]
    <2>1. CASE PrefillDone(r)
      <3>1. [task[r] EXCEPT !.left = 0] \in Task
        BY <1>0, <1>2
      <3>. QED  BY <1>1, <2>1, <3>1 DEF PrefillDone
    <2>2. CASE FeedYields(r)
      BY <1>1, <1>2, <2>2 DEF FeedYields
    <2>3. CASE TaskEnds(r)
      BY <1>1, <2>3 DEF TaskEnds
    <2>. QED  BY <1>5, <2>1, <2>2, <2>3
  <1>6. ASSUME NEW r \in Requests,
               \/ Post(r) \/ Disconnect(r) \/ Serve(r) \/ EndJob(r)
               \/ Begin(r) \/ PrefillInterrupted(r) \/ PrefillFails(r) \/ DecodeStops(r) \/ Token(r)
               \/ FeedStops(r) \/ ClearInterrupt(r) \/ GenerationDone(r)
        PROVE  task' = task
    BY <1>6 DEF Post, Disconnect, Serve, EndJob, Push, PushRefused, Respond, RespondFails, WaitDone,
                ReadFrame, ReadEnd, MarkGone, StoreInterrupt, FreeResponse, FailJob, FinishChunk,
                LastFrame, QueueDone, Begin, PrefillInterrupted, PrefillFails, DecodeStops, Token,
                FeedStops, ClearInterrupt, GenerationDone
  <1>7. ASSUME StartTask PROVE task' \in [Requests -> Task]
    <2>1. hand \in Requests
      BY <1>7 DEF StartTask, Places, TypeOK
    <2>2. PICK s \in Pickable : task' = [task EXCEPT ![hand].slot = s]
      BY <1>7 DEF StartTask
    <2>3. s \in Slots
      BY <2>2, ServerAssumption DEF Pickable, Slots, TypeOK
    <2>. QED  BY <1>1, <1>2, <2>1, <2>2, <2>3
  <1>8. ASSUME DecodeBatch PROVE task' \in [Requests -> Task]
    <2>. DEFINE batch == {r \in Collected : ~interrupt[Slot(r)]}
    <2>1. PICK bad \in SUBSET batch :
            task' = [r \in Requests |-> IF r \in Collected THEN Result(r, batch, bad) ELSE task[r]]
      BY <1>8 DEF DecodeBatch
    <2>. HIDE DEF batch
    <2>2. ASSUME NEW r \in Requests PROVE Result(r, batch, bad) \in Task
      BY <1>2 DEF Result
    <2>. QED  BY <1>1, <2>1, <2>2
  <1>9. ASSUME \/ WorkerLooks \/ WorkerSleeps \/ WorkerChecks \/ AdmitMore \/ AdmitPop \/ AdmitNone
               \/ StartFails \/ StartNoSlot \/ PutBack \/ PutBackLate \/ FailEnds \/ Resume
               \/ WorkerWakes \/ Stop \/ Closing \/ Terminated
        PROVE  task' = task
    BY <1>9 DEF WorkerLooks, WorkerSleeps, WorkerChecks, AdmitMore, AdmitPop, AdmitNone,
                StartFails, StartNoSlot, PutBack, PutBackLate, FailEnds, Resume, WorkerWakes,
                Stop, Closing, CancelBegins, CancelNext, CancelEnds, CancelOver, DaemonStopped,
                Free, Terminated, vars
  <1>. QED  BY <1>1, <1>3, <1>4, <1>5, <1>6, <1>7, <1>8, <1>9 DEF Next, Generate, WorkerStep

\* TypeOK without the records.
Others ==
    /\ shutting \in BOOLEAN /\ queue \in Seq(Requests) /\ schMtx \in {None, Worker, Main}
    /\ nSlots \in Slots /\ busy \in [Slots -> BOOLEAN] /\ interrupt \in [Slots -> BOOLEAN]
    /\ tasks \in Seq(Requests)
    /\ job \in [Requests -> JobLabels] /\ conn \in [Requests -> ConnLabels]
    /\ live \in [Requests -> BOOLEAN]
    /\ worker \in WorkerLabels /\ idx \in Nat \ {0} /\ hand \in Requests \cup {None}
    /\ main \in MainLabels /\ cancel \in Requests \cup {None}
    /\ reply \in [Requests -> Replies] /\ got \in [Requests -> Frames \cup {"none"}]
    /\ work \in [Requests -> Work]

LEMMA TypeParts ==
    /\ TypeOK => rc \in [Requests -> Ctx] /\ task \in [Requests -> Task] /\ Others
    /\ rc' \in [Requests -> Ctx] /\ task' \in [Requests -> Task] /\ Others' => TypeOK'
  BY DEF TypeOK, Others, Ctx, Task, Work

\* The request of a running task.
LEMMA RunsFacts ==
    ASSUME TypeOK, Phases, NEW r \in Requests, Runs(r)
    PROVE  /\ idx \in 1 .. Len(tasks) /\ r = tasks[idx] /\ r \in InTasks
           /\ worker = "run" /\ tasks # <<>>
  <1>1. tasks \in Seq(Requests) /\ idx \in Nat \ {0} /\ Len(tasks) \in Nat
    BY DEF TypeOK
  <1>2. idx <= Len(tasks)
    BY DEF Phases, Runs
  <1>3. idx \in 1 .. Len(tasks)
    BY <1>1, <1>2
  <1>4. tasks # <<>>
    BY <1>1, <1>3, EmptySeq
  <1>. QED  BY <1>3, <1>4 DEF Runs, InTasks

LEMMA ConnOthers ==
    ASSUME TypeOK, Others, NEW r \in Requests, Post(r) \/ Disconnect(r) \/ Serve(r)
    PROVE  Others'
  <1>. USE DEF Others, Conn
  <1>1. CASE Post(r)
    BY <1>1 DEF Post, stateVars, wVars, mVars, ConnLabels
  <1>2. CASE Push(r)
    <2>1. Append(queue, r) \in Seq(Requests)
      BY AppendProperties
    <2>2. Signalled \in WorkerLabels
      BY DEF Signalled, WorkerLabels
    <2>. QED  BY <1>2, <2>1, <2>2 DEF Push, Pushed, Job, JobLabels, ConnLabels, mVars
  <1>3. CASE PushRefused(r)
    BY <1>3 DEF PushRefused, stateVars, wVars, mVars, ConnLabels, Replies
  <1>4. CASE Respond(r)
    BY <1>4 DEF Respond, stateVars, wVars, mVars, ConnLabels, Replies
  <1>5. CASE RespondFails(r)
    BY <1>5 DEF RespondFails, stateVars, wVars, mVars, ConnLabels, Replies
  <1>6. CASE WaitDone(r)
    BY <1>6 DEF WaitDone, stateVars, wVars, mVars, ConnLabels, Replies
  <1>7. CASE ReadFrame(r)
    <2>1. Head(rc[r].frames) \in Frames
      BY <1>7, FramesGrow DEF ReadFrame
    <2>. QED  BY <1>7, <2>1 DEF ReadFrame, stateVars, wVars, mVars
  <1>8. CASE ReadEnd(r)
    BY <1>8 DEF ReadEnd, stateVars, wVars, mVars, ConnLabels, Replies
  <1>9. CASE Disconnect(r)
    BY <1>9 DEF Disconnect, stateVars, wVars, mVars, ConnLabels, Replies
  <1>10. CASE MarkGone(r)
    <2>1. (~rc[r].genDone) \in BOOLEAN
      OBVIOUS
    <2>. QED  BY <1>10, <2>1 DEF MarkGone, stateVars, wVars, mVars, ConnLabels
  <1>11. CASE StoreInterrupt(r)
    BY <1>11 DEF StoreInterrupt, wVars, mVars, ConnLabels, Replies
  <1>12. CASE FreeResponse(r)
    BY <1>12 DEF FreeResponse, stateVars, wVars, mVars, ConnLabels
  <1>. QED  BY <1>1, <1>2, <1>3, <1>4, <1>5, <1>6, <1>7, <1>8, <1>9, <1>10, <1>11, <1>12 DEF Serve

\* The fields of the history a step sets.
LEMMA WorkFields ==
    ASSUME NEW w \in Work
    PROVE  /\ NoWork \in Work
           /\ \A b \in BOOLEAN : [w EXCEPT !.told = b] \in Work
           /\ \A b \in BOOLEAN : [w EXCEPT !.wiped = b] \in Work
           /\ \A d, l \in Nat, b \in BOOLEAN :
                  [w EXCEPT !.decoded = d, !.late = l, !.told = b] \in Work
  BY DEF Work, NoWork

LEMMA WorkOf ==
    ASSUME work \in [Requests -> Work], NEW r \in Requests
    PROVE  /\ PromptWork(r) => work' \in [Requests -> Work]
           /\ [work EXCEPT ![r].wiped = Departed(r)] \in [Requests -> Work]
           /\ \A good \in BOOLEAN : TokenWork(r, good) \in Work
  <1>1. /\ work[r] \in Work /\ work[r].decoded \in Nat /\ work[r].late \in Nat
        /\ (work[r].told \/ Departed(r)) \in BOOLEAN /\ Departed(r) \in BOOLEAN
    BY DEF Work, Departed
  <1>2. [work[r] EXCEPT !.told = @ \/ Departed(r)] \in Work /\ [work[r] EXCEPT !.wiped = Departed(r)] \in Work
    BY <1>1, WorkFields
  <1>3. ASSUME NEW good \in BOOLEAN PROVE TokenWork(r, good) \in Work
    <2>1. work[r].decoded + One(good) \in Nat /\ work[r].late + One(rc[r].gone) \in Nat
      BY <1>1 DEF One
    <2>. QED  BY <1>1, <2>1, WorkFields DEF TokenWork
  <1>. QED  BY <1>2, <1>3 DEF PromptWork

LEMMA JobOthers ==
    ASSUME TypeOK, Others, Phases, Places, NEW r \in Requests, EndJob(r) \/ Generate(r)
    PROVE  Others'
  <1>. USE DEF Others, Job, JobLabels
  <1>1. CASE FailJob(r) \/ FinishChunk(r) \/ LastFrame(r) \/ QueueDone(r)
    BY <1>1 DEF FailJob, FinishChunk, LastFrame, QueueDone, stateVars, connVars, wVars, mVars
  <1>2. CASE Begin(r) \/ PrefillInterrupted(r) \/ PrefillFails(r) \/ PrefillDone(r)
    <2>1. PrefillDone(r) => work' \in [Requests -> Work]
      BY WorkOf DEF PrefillDone
    <2>. QED  BY <1>2, <2>1 DEF Begin, PrefillInterrupted, PrefillFails, PrefillDone, stateVars,
                               connVars, wVars, mVars
  <1>3. CASE Setup(r)
    <2>1. work' \in [Requests -> Work]
      BY <1>3, WorkOf DEF Setup
    <2>. QED  BY <1>3, <2>1 DEF Setup, connVars, wVars, mVars
  <1>4. CASE PrefillYields(r)
    <2>1. work' \in [Requests -> Work]
      BY <1>4, WorkOf DEF PrefillYields
    <2>. QED  BY <1>4, <2>1 DEF PrefillYields, Yield, WorkerLabels, stateVars, connVars, mVars
  <1>5. CASE DecodeStops(r) \/ FeedStops(r) \/ GenerationDone(r)
    BY <1>5 DEF DecodeStops, FeedStops, GenerationDone, stateVars, connVars, wVars, mVars
  <1>6. CASE Token(r)
    BY <1>6 DEF Token, connVars, wVars, mVars
  <1>7. CASE FeedYields(r)
    BY <1>7 DEF FeedYields, Yield, WorkerLabels, stateVars, connVars, mVars
  <1>8. CASE ClearInterrupt(r)
    BY <1>8 DEF ClearInterrupt, connVars, wVars, mVars
  <1>9. CASE TaskEnds(r)
    <2>1. Without(tasks, idx) \in Seq(Requests)
      BY <1>9, RunsFacts, WithoutFacts DEF TaskEnds, Places
    <2>2. NoWork \in Work
      BY DEF NoWork, Work
    <2>. QED  BY <1>9, <2>1, <2>2 DEF TaskEnds, connVars, mVars, WorkerLabels
  <1>. QED  BY <1>1, <1>2, <1>3, <1>4, <1>5, <1>6, <1>7, <1>8, <1>9 DEF EndJob, Generate

LEMMA PickableSlots ==
    ASSUME TypeOK, NEW s \in Pickable
    PROVE  s \in Slots /\ (IF s > nSlots THEN s ELSE nSlots) \in Slots
  BY ServerAssumption DEF Pickable, Slots, TypeOK

LEMMA WorkerOthers ==
    ASSUME TypeOK, Others, Places, WorkerStep \/ WorkerWakes
    PROVE  Others'
  <1>. USE DEF Others, Job, JobLabels, WorkerLabels
  <1>1. CASE WorkerLooks \/ WorkerSleeps \/ WorkerWakes
    BY <1>1 DEF WorkerLooks, WorkerSleeps, WorkerWakes, stateVars, connVars, mVars
  <1>2. CASE WorkerChecks \/ AdmitMore \/ AdmitNone
    <2>1. CASE WorkerChecks
      BY <2>1 DEF WorkerChecks, stateVars, connVars, mVars
    <2>2. CASE AdmitMore
      BY <2>2 DEF AdmitMore, stateVars, connVars, mVars
    <2>3. CASE AdmitNone
      BY <2>3 DEF AdmitNone, stateVars, connVars, mVars
    <2>. QED  BY <1>2, <2>1, <2>2, <2>3
  <1>3. CASE AdmitPop
    <2>1. Head(queue) \in Requests /\ Tail(queue) \in Seq(Requests)
      BY <1>3, TailFacts DEF AdmitPop
    <2>. QED  BY <1>3, <2>1 DEF AdmitPop, stateVars, connVars, mVars
  <1>4. CASE StartTask
    <2>1. hand \in Requests
      BY <1>4 DEF StartTask, Places
    <2>2. PICK s \in Pickable : /\ nSlots' = IF s > nSlots THEN s ELSE nSlots
                                /\ busy' = [busy EXCEPT ![s] = TRUE]
      BY <1>4 DEF StartTask
    <2>3. nSlots' \in Slots /\ busy' \in [Slots -> BOOLEAN]
      BY <2>2, PickableSlots
    <2>4. tasks' \in Seq(Requests)
      BY <1>4, <2>1, AppendProperties DEF StartTask
    <2>. QED  BY <1>4, <2>1, <2>3, <2>4 DEF StartTask, connVars, mVars
  <1>5. CASE StartFails
    <2>1. nSlots' \in Slots
      BY <1>5, PickableSlots DEF StartFails
    <2>. QED  BY <1>5, <2>1 DEF StartFails, connVars, mVars
  <1>6. CASE StartNoSlot
    BY <1>6 DEF StartNoSlot, stateVars, connVars, mVars
  <1>7. CASE PutBack
    <2>1. hand \in Requests
      BY <1>7 DEF PutBack, Places
    <2>2. queue' \in Seq(Requests)
      BY <1>7, <2>1, ConsFacts DEF PutBack
    <2>. QED  BY <1>7, <2>1, <2>2 DEF PutBack, connVars, mVars
  <1>8. CASE PutBackLate \/ FailEnds
    <2>1. CASE PutBackLate
      BY <2>1 DEF PutBackLate, stateVars, connVars, mVars
    <2>2. CASE FailEnds
      <3>1. worker' \in WorkerLabels /\ idx' \in Nat \ {0}
        BY <2>2 DEF FailEnds
      <3>. QED  BY <2>2, <3>1 DEF FailEnds, stateVars, connVars, mVars
    <2>. QED  BY <1>8, <2>1, <2>2
  <1>9. CASE Resume
    BY <1>9 DEF Resume, connVars, mVars
  <1>10. CASE DecodeBatch
    <2>1. work' \in [Requests -> Work]
      <3>1. \A r \in Requests, good \in BOOLEAN : TokenWork(r, good) \in Work
        BY WorkOf
      <3>. DEFINE batch == {r \in Collected : ~interrupt[Slot(r)]}
      <3>2. PICK bad \in SUBSET batch :
              work' = [r \in Requests |-> IF r \in batch THEN TokenWork(r, r \notin bad) ELSE work[r]]
        BY <1>10 DEF DecodeBatch
      <3>. HIDE DEF batch
      <3>3. \A r \in Requests : (r \notin bad) \in BOOLEAN
        OBVIOUS
      <3>. QED  BY <3>1, <3>2, <3>3
    <2>. QED  BY <1>10, <2>1 DEF DecodeBatch, stateVars, connVars, mVars
  <1>. QED  BY <1>1, <1>2, <1>3, <1>4, <1>5, <1>6, <1>7, <1>8, <1>9, <1>10 DEF WorkerStep

LEMMA MainOthers ==
    ASSUME TypeOK, Others, Stop \/ Closing \/ Terminated
    PROVE  Others'
  <1>. USE DEF Others, MainLabels
  <1>1. CASE Stop
    BY <1>1 DEF Stop, connVars, wVars
  <1>2. CASE CancelBegins
    BY <1>2 DEF CancelBegins, connVars, wVars
  <1>3. CASE CancelNext
    <2>1. Head(queue) \in Requests /\ Tail(queue) \in Seq(Requests)
      BY <1>3, TailFacts DEF CancelNext
    <2>. QED  BY <1>3, <2>1 DEF CancelNext, Job, JobLabels, connVars, wVars
  <1>4. CASE CancelEnds
    BY <1>4 DEF CancelEnds, Job, JobLabels, stateVars, connVars, wVars
  <1>5. CASE CancelOver
    <2>1. Signalled \in WorkerLabels
      BY DEF Signalled, WorkerLabels
    <2>. QED  BY <1>5, <2>1 DEF CancelOver, connVars
  <1>6. CASE DaemonStopped \/ Free
    BY <1>6 DEF DaemonStopped, Free, stateVars, connVars, wVars
  <1>7. CASE Terminated
    BY <1>7 DEF Terminated, vars, stateVars, connVars, wVars, mVars
  <1>. QED  BY <1>1, <1>2, <1>3, <1>4, <1>5, <1>6, <1>7 DEF Closing

LEMMA TypeNext == IInv /\ Next => TypeOK'
  <1>. SUFFICES ASSUME IInv, Next PROVE TypeOK'
    OBVIOUS
  <1>. USE DEF IInv
  <1>1. task' \in [Requests -> Task]
    BY TaskNext
  <1>2. Others'
    BY TypeParts, ConnOthers, JobOthers, WorkerOthers, MainOthers DEF Next
  <1>3. rc' \in [Requests -> Ctx]
    <2>1. CASE \E r \in Requests : Post(r) \/ Serve(r) \/ EndJob(r) \/ Generate(r)
      BY <2>1, CtxNext
    <2>2. CASE FailEnds
      <3>1. hand \in Requests /\ job[hand] = "release" /\ Unref(hand)
        BY <2>2 DEF FailEnds, Places, TypeOK
      <3>. QED  BY <3>1, RefsPositive, UnrefCtx
    <2>3. CASE CancelEnds
      <3>1. cancel \in Requests /\ job[cancel] = "release" /\ Unref(cancel)
        BY <2>3 DEF CancelEnds, TypeOK
      <3>. QED  BY <3>1, RefsPositive, UnrefCtx
    <2>4. CASE \/ \E r \in Requests : Disconnect(r)
               \/ WorkerLooks \/ WorkerSleeps \/ WorkerChecks \/ AdmitMore \/ AdmitPop \/ AdmitNone
               \/ StartTask \/ StartFails \/ StartNoSlot \/ PutBack \/ PutBackLate \/ Resume
               \/ DecodeBatch \/ WorkerWakes \/ Stop \/ CancelBegins \/ CancelNext \/ CancelOver
               \/ DaemonStopped \/ Free \/ Terminated
      <3>1. rc' = rc
        BY <2>4 DEF Disconnect, WorkerLooks, WorkerSleeps, WorkerChecks, AdmitMore, AdmitPop,
                    AdmitNone, StartTask, StartFails, StartNoSlot, PutBack, PutBackLate, Resume,
                    DecodeBatch, WorkerWakes, Stop, CancelBegins, CancelNext, CancelOver,
                    DaemonStopped, Free, Terminated, vars
      <3>. QED  BY <3>1, TypeParts
    <2>. QED  BY <2>1, <2>2, <2>3, <2>4 DEF Next, WorkerStep, Closing
  <1>. QED  BY <1>1, <1>2, <1>3, TypeParts

-----------------------------------------------------------------------------
(* Places.                                                                 *)

\* The labels of the worker at which it holds a job.
Holding == {"start", "putback", "failStart", "failBack"}

LEMMA ElemsOf ==
    /\ InQueue = Elems(queue) /\ InQueue' = Elems(queue')
    /\ InTasks = Elems(tasks) /\ InTasks' = Elems(tasks')
    /\ Inj(queue)' = Inj(queue') /\ Inj(tasks)' = Inj(tasks')
  BY DEF InQueue, InTasks, Elems, Inj

LEMMA PlacesTypes ==
    ASSUME TypeOK
    PROVE  /\ queue \in Seq(Requests) /\ tasks \in Seq(Requests)
           /\ InQueue \subseteq Requests /\ InTasks \subseteq Requests
           /\ job \in [Requests -> JobLabels] /\ conn \in [Requests -> ConnLabels]
           /\ hand \in Requests \cup {None} /\ cancel \in Requests \cup {None}
           /\ None \notin Requests
  <1>1. ASSUME NEW s \in Seq(Requests) PROVE Elems(s) \subseteq Requests
    BY ElementOfSeq DEF Elems
  <1>. QED  BY <1>1, ElemsOf, ServerAssumption DEF TypeOK

\* Nothing moves, and the worker stays at its label or away from Holding.
LEMMA PlacesStay ==
    ASSUME TypeOK, Places, UNCHANGED <<queue, tasks, job, hand, cancel>>,
           worker' = worker \/ (worker \notin Holding /\ worker' \notin Holding),
           \A r \in Requests : conn'[r] \in {"none", "push"} => job[r] = "none"
    PROVE  Places'
  BY DEF Places, Holding, InQueue, InTasks, Inj

\* The holder of a job goes on with it.
LEMMA PlacesMove ==
    ASSUME TypeOK, Places, NEW r \in Requests, NEW l,
           UNCHANGED <<queue, tasks, hand, cancel, conn>>, job' = [job EXCEPT ![r] = l],
           worker' = worker \/ (worker \notin Holding /\ worker' \notin Holding),
           \/ r \in InTasks /\ l \in TaskLabels
           \/ (r = cancel \/ (r = hand /\ worker \in {"failStart", "failBack"})) /\ l \in EndLabels
    PROVE  Places'
  <1>1. job \in [Requests -> JobLabels] /\ InTasks \subseteq Requests
    BY PlacesTypes
  <1>2. InQueue' = InQueue /\ InTasks' = InTasks /\ Inj(queue)' /\ Inj(tasks)'
    BY DEF Places, InQueue, InTasks, Inj
  <1>3. \A q \in Requests : job'[q] = IF q = r THEN l ELSE job[q]
    BY <1>1
  <1>4. job[r] \in TaskLabels \cup EndLabels /\ l \in TaskLabels \cup EndLabels
    BY ServerAssumption DEF Places
  <1>. QED  BY <1>1, <1>2, <1>3, <1>4, ServerAssumption DEF Places, Holding, TaskLabels, EndLabels

LEMMA PlacesConn ==
    ASSUME TypeOK, Places, NEW r \in Requests, Post(r) \/ Disconnect(r) \/ Serve(r)
    PROVE  Places'
  <1>0. conn \in [Requests -> ConnLabels] /\ job \in [Requests -> JobLabels] /\ queue \in Seq(Requests)
    BY DEF TypeOK
  <1>1. CASE Post(r)
    <2>1. \A q \in Requests : conn'[q] \in {"none", "push"} => job[q] = "none"
      BY <1>0, <1>1 DEF Post, Conn, Places
    <2>. QED  BY <1>1, <2>1, PlacesStay DEF Post, stateVars, wVars, mVars
  <1>2. CASE Push(r)
    <2>1. job[r] = "none" /\ r \notin InQueue
      BY <1>2 DEF Push, Pushed, Places
    <2>2. /\ queue' \in Seq(Requests) /\ InQueue' = InQueue \cup {r} /\ Inj(queue)'
      BY <1>0, <1>2, <2>1, AppendFacts, ElemsOf DEF Push, Pushed, Places
    <2>3. InTasks' = InTasks /\ Inj(tasks)' /\ tasks' = tasks /\ hand' = hand /\ cancel' = cancel
      BY <1>2 DEF Push, InTasks, Inj, Places, mVars
    <2>4. \A q \in Requests : job'[q] = IF q = r THEN "queued" ELSE job[q]
      BY <1>0, <1>2 DEF Push, Pushed, Job
    <2>5. \A q \in Requests : conn'[q] \in {"none", "push"} => q # r /\ conn[q] \in {"none", "push"}
      BY <1>0, <1>2 DEF Push, Pushed, Conn
    <2>6. worker' = worker \/ (worker \notin Holding /\ worker' \notin Holding)
      BY <1>2 DEF Push, Signalled, Holding
    <2>7. InTasks \subseteq Requests /\ hand \in Requests \cup {None} /\ cancel \in Requests \cup {None}
      BY PlacesTypes
    <2>. QED  BY <2>1, <2>2, <2>3, <2>4, <2>5, <2>6, <2>7 DEF Places, Holding, TaskLabels, EndLabels
  <1>3. CASE \/ PushRefused(r) \/ Respond(r) \/ RespondFails(r) \/ WaitDone(r) \/ ReadEnd(r)
             \/ Disconnect(r) \/ MarkGone(r) \/ StoreInterrupt(r) \/ FreeResponse(r)
    <2>1. \A q \in Requests : conn'[q] \in {"none", "push"} => conn[q] \in {"none", "push"}
      BY <1>0, <1>3 DEF PushRefused, Respond, RespondFails, WaitDone, ReadEnd, Disconnect, MarkGone,
                        StoreInterrupt, FreeResponse, Conn
    <2>2. UNCHANGED <<queue, tasks, job, hand, cancel, worker>>
      BY <1>3 DEF PushRefused, Respond, RespondFails, WaitDone, ReadEnd, Disconnect, MarkGone,
                  StoreInterrupt, FreeResponse, stateVars, wVars, mVars
    <2>. QED  BY <2>1, <2>2, PlacesStay DEF Places
  <1>4. CASE ReadFrame(r)
    BY <1>4, PlacesStay DEF ReadFrame, stateVars, wVars, mVars, Places
  <1>. QED  BY <1>1, <1>2, <1>3, <1>4 DEF Serve

LEMMA PlacesJob ==
    ASSUME TypeOK, Places, Phases, NEW r \in Requests, EndJob(r) \/ Generate(r)
    PROVE  Places'
  <1>1. CASE EndJob(r)
    <2>1. PICK l \in {"finish", "last", "producer", "release"} : job' = [job EXCEPT ![r] = l]
      BY <1>1 DEF EndJob, FailJob, FinishChunk, LastFrame, QueueDone, Job
    <2>2. UNCHANGED <<queue, tasks, hand, cancel, conn, worker>>
      BY <1>1 DEF EndJob, FailJob, FinishChunk, LastFrame, QueueDone, stateVars, connVars, wVars, mVars
    <2>3. AtIt(r)
      BY <1>1 DEF EndJob, FailJob, FinishChunk, LastFrame, QueueDone
    <2>4. r \in InTasks \/ r = cancel \/ (r = hand /\ worker \in {"failStart", "failBack"})
      BY <2>3, RunsFacts DEF AtIt
    <2>. QED  BY <2>1, <2>2, <2>4, PlacesMove DEF TaskLabels, EndLabels
  <1>2. CASE TaskEnds(r)
    <2>0. tasks \in Seq(Requests) /\ job \in [Requests -> JobLabels] /\ InTasks \subseteq Requests
          /\ hand \in Requests \cup {None} /\ cancel \in Requests \cup {None}
      BY PlacesTypes
    <2>1. idx \in 1 .. Len(tasks) /\ r = tasks[idx] /\ r \in InTasks /\ worker = "run"
      BY <1>2, RunsFacts DEF TaskEnds
    <2>2. InTasks' = InTasks \ {r} /\ Inj(tasks)'
      BY <1>2, <2>0, <2>1, WithoutFacts, ElemsOf DEF TaskEnds, Places
    <2>3. InQueue' = InQueue /\ Inj(queue)' /\ UNCHANGED <<hand, cancel, conn>> /\ worker' = "round"
      BY <1>2 DEF TaskEnds, InQueue, Inj, Places, mVars, connVars
    <2>4. job[r] = "release" /\ \A q \in Requests : job'[q] = IF q = r THEN "over" ELSE job[q]
      BY <1>2, <2>0 DEF TaskEnds, Job
    <2>. QED  BY <2>0, <2>1, <2>2, <2>3, <2>4 DEF Places, TaskLabels
  <1>3. CASE /\ Generate(r) /\ ~TaskEnds(r)
    <2>1. CASE PrefillYields(r)
      BY <2>1, PlacesStay DEF PrefillYields, Runs, Yield, Holding, stateVars, connVars, mVars, Places
    <2>2. CASE FeedYields(r)
      <3>1. r \in InTasks
        BY <2>2, RunsFacts DEF FeedYields
      <3>. QED  BY <2>2, <3>1, PlacesMove
                DEF FeedYields, Runs, Yield, Holding, Job, TaskLabels, stateVars, connVars, mVars
    <2>3. CASE ~PrefillYields(r) /\ ~FeedYields(r)
      <3>1. r \in InTasks
        BY <1>3, RunsFacts DEF Generate, Begin, Setup, PrefillInterrupted, PrefillFails, PrefillYields,
           PrefillDone, DecodeStops, Token, FeedYields, FeedStops, ClearInterrupt, GenerationDone, TaskEnds
      <3>2. PICK l \in TaskLabels : job' = [job EXCEPT ![r] = l]
        BY <1>3, <2>3 DEF Generate, Begin, Setup, PrefillInterrupted, PrefillFails,
           PrefillDone, DecodeStops, Token, FeedStops, ClearInterrupt, GenerationDone, Job, TaskLabels
      <3>3. UNCHANGED <<queue, tasks, hand, cancel, conn, worker>>
        BY <1>3, <2>3 DEF Generate, Begin, Setup, PrefillInterrupted, PrefillFails,
           PrefillDone, DecodeStops, Token, FeedStops, ClearInterrupt, GenerationDone,
           stateVars, connVars, wVars, mVars
      <3>. QED  BY <3>1, <3>2, <3>3, PlacesMove
    <2>. QED  BY <2>1, <2>2, <2>3
  <1>. QED  BY <1>1, <1>2, <1>3

\* The first job of the queue, taken out of it.
LEMMA PopFacts ==
    ASSUME TypeOK, Places, queue # <<>>, queue' = Tail(queue)
    PROVE  /\ Head(queue) \in Requests /\ job[Head(queue)] = "queued"
           /\ Head(queue) \notin InTasks /\ Head(queue) # hand /\ Head(queue) # cancel
           /\ InQueue' = InQueue \ {Head(queue)} /\ Inj(queue)'
  <1>1. /\ Head(queue) \in Requests /\ Head(queue) \in InQueue
        /\ InQueue' = InQueue \ {Head(queue)} /\ Inj(queue)'
    BY PlacesTypes, ElemsOf, TailFacts DEF Places
  <1>2. job[Head(queue)] = "queued"
    BY <1>1 DEF Places
  <1>. QED  BY <1>1, <1>2, PlacesTypes DEF Places, TaskLabels, EndLabels

LEMMA PlacesWorker ==
    ASSUME TypeOK, Places, WorkerStep \/ WorkerWakes
    PROVE  Places'
  <1>0. /\ job \in [Requests -> JobLabels] /\ InTasks \subseteq Requests
        /\ hand \in Requests \cup {None} /\ cancel \in Requests \cup {None} /\ None \notin Requests
    BY PlacesTypes
  <1>1. CASE \/ WorkerLooks \/ WorkerSleeps \/ WorkerWakes \/ WorkerChecks \/ AdmitMore \/ AdmitNone
             \/ Resume \/ DecodeBatch
    <2>1. worker \notin Holding /\ worker' \notin Holding
      BY <1>1 DEF WorkerLooks, WorkerSleeps, WorkerWakes, WorkerChecks, AdmitMore, AdmitNone, Resume,
                  DecodeBatch, Holding
    <2>2. UNCHANGED <<queue, tasks, job, hand, cancel, conn>>
      BY <1>1 DEF WorkerLooks, WorkerSleeps, WorkerWakes, WorkerChecks, AdmitMore, AdmitNone, Resume,
                  DecodeBatch, stateVars, connVars, mVars
    <2>. QED  BY <2>1, <2>2, PlacesStay DEF Places
  <1>2. CASE AdmitPop
    <2>1. /\ queue # <<>> /\ queue' = Tail(queue) /\ hand' = Head(queue) /\ worker' = "start"
          /\ tasks' = tasks /\ cancel' = cancel /\ conn' = conn
      BY <1>2 DEF AdmitPop, connVars, mVars
    <2>2. \A q \in Requests : job'[q] = IF q = Head(queue) THEN "held" ELSE job[q]
      BY <1>0, <1>2 DEF AdmitPop, Job
    <2>3. InTasks' = InTasks /\ Inj(tasks)'
      BY <2>1, ElemsOf DEF Places
    <2>4. worker = "pop" /\ hand = None
      BY <1>2 DEF AdmitPop, Places
    <2>. QED  BY <1>0, <2>1, <2>2, <2>3, <2>4, PopFacts DEF Places, TaskLabels, EndLabels
  <1>3. CASE StartTask
    <2>1. hand \in Requests /\ job[hand] = "held" /\ hand \notin InTasks /\ hand # cancel
      BY <1>3 DEF StartTask, Places, TypeOK
    <2>2. InTasks' = InTasks \cup {hand} /\ Inj(tasks)'
      BY <1>3, <2>1, PlacesTypes, ElemsOf, AppendFacts DEF StartTask, Places
    <2>3. InQueue' = InQueue /\ Inj(queue)' /\ UNCHANGED <<cancel, conn>>
          /\ worker' = "admit" /\ hand' = None
      BY <1>3, ElemsOf DEF StartTask, Places, mVars, connVars
    <2>4. \A q \in Requests : job'[q] = IF q = hand THEN "begin" ELSE job[q]
      BY <1>0, <1>3 DEF StartTask, Job
    <2>. QED  BY <1>0, <2>1, <2>2, <2>3, <2>4 DEF Places, TaskLabels, EndLabels
  <1>4. CASE StartFails \/ StartNoSlot \/ PutBackLate
    <2>1. hand \in Requests /\ job[hand] = "held" /\ hand \notin InTasks /\ hand # cancel
      BY <1>4 DEF StartFails, StartNoSlot, PutBackLate, Places, TypeOK
    <2>2. UNCHANGED <<queue, tasks, hand, cancel, conn>>
      BY <1>4 DEF StartFails, StartNoSlot, PutBackLate, stateVars, connVars, mVars
    <2>3. \/ worker' \in {"failStart", "failBack"} /\ \A q \in Requests : job'[q] = IF q = hand THEN "fail" ELSE job[q]
          \/ worker' = "putback" /\ \A q \in Requests : job'[q] = IF q = hand THEN "held" ELSE job[q]
      BY <1>0, <1>4 DEF StartFails, StartNoSlot, PutBackLate, Job
    <2>4. InQueue' = InQueue /\ InTasks' = InTasks /\ Inj(queue)' /\ Inj(tasks)'
      BY <2>2, ElemsOf DEF Places
    <2>. QED  BY <1>0, <2>1, <2>2, <2>3, <2>4 DEF Places, EndLabels, TaskLabels
  <1>5. CASE PutBack
    <2>1. hand \in Requests /\ job[hand] = "held" /\ hand \notin InTasks /\ hand # cancel /\ hand \notin InQueue
      BY <1>5 DEF PutBack, Places, TypeOK
    <2>2. InQueue' = InQueue \cup {hand} /\ Inj(queue)'
      BY <1>5, <2>1, PlacesTypes, ElemsOf, ConsFacts DEF PutBack, Places
    <2>3. InTasks' = InTasks /\ Inj(tasks)' /\ UNCHANGED <<cancel, conn>>
          /\ worker' = "round" /\ hand' = None
      BY <1>5, ElemsOf DEF PutBack, Places, mVars, connVars
    <2>4. \A q \in Requests : job'[q] = IF q = hand THEN "queued" ELSE job[q]
      BY <1>0, <1>5 DEF PutBack, Job
    <2>. QED  BY <1>0, <2>1, <2>2, <2>3, <2>4 DEF Places, TaskLabels, EndLabels
  <1>6. CASE FailEnds
    <2>1. hand \in Requests /\ job[hand] = "release" /\ hand \notin InTasks /\ hand # cancel
      BY <1>6 DEF FailEnds, Places, TypeOK
    <2>2. UNCHANGED <<queue, tasks, cancel, conn>> /\ worker' \in {"admit", "round"} /\ hand' = None
      BY <1>6 DEF FailEnds, stateVars, connVars, mVars
    <2>3. \A q \in Requests : job'[q] = IF q = hand THEN "over" ELSE job[q]
      BY <1>0, <1>6 DEF FailEnds, Job
    <2>4. InQueue' = InQueue /\ InTasks' = InTasks /\ Inj(queue)' /\ Inj(tasks)'
      BY <2>2, ElemsOf DEF Places
    <2>. QED  BY <1>0, <2>1, <2>2, <2>3, <2>4 DEF Places, TaskLabels, EndLabels
  <1>. QED  BY <1>1, <1>2, <1>3, <1>4, <1>5, <1>6 DEF WorkerStep

LEMMA PlacesMain ==
    ASSUME TypeOK, Places, Stop \/ Closing \/ Terminated
    PROVE  Places'
  <1>0. /\ job \in [Requests -> JobLabels] /\ InTasks \subseteq Requests
        /\ hand \in Requests \cup {None} /\ cancel \in Requests \cup {None} /\ None \notin Requests
    BY PlacesTypes
  <1>1. CASE Stop \/ CancelBegins \/ CancelOver \/ DaemonStopped \/ Free \/ Terminated
    <2>1. worker' = worker \/ (worker \notin Holding /\ worker' \notin Holding)
      BY <1>1 DEF Stop, CancelBegins, CancelOver, DaemonStopped, Free, Terminated, vars, wVars, Signalled, Holding
    <2>2. UNCHANGED <<queue, tasks, job, hand, cancel, conn>>
      BY <1>1 DEF Stop, CancelBegins, CancelOver, DaemonStopped, Free, Terminated, vars, stateVars,
                  connVars, wVars, mVars
    <2>. QED  BY <2>1, <2>2, PlacesStay DEF Places
  <1>2. CASE CancelNext
    <2>1. /\ queue # <<>> /\ queue' = Tail(queue) /\ cancel = None /\ cancel' = Head(queue)
          /\ UNCHANGED <<worker, tasks, hand, conn>>
      BY <1>2 DEF CancelNext, connVars, wVars
    <2>2. \A q \in Requests : job'[q] = IF q = Head(queue) THEN "fail" ELSE job[q]
      BY <1>0, <1>2 DEF CancelNext, Job
    <2>3. InTasks' = InTasks /\ Inj(tasks)'
      BY <2>1, ElemsOf DEF Places
    <2>. QED  BY <1>0, <2>1, <2>2, <2>3, PopFacts DEF Places, TaskLabels, EndLabels
  <1>3. CASE CancelEnds
    <2>1. cancel \in Requests /\ job[cancel] = "release" /\ cancel \notin InTasks /\ cancel # hand
      BY <1>0, <1>3 DEF CancelEnds, Places
    <2>2. UNCHANGED <<queue, tasks, hand, conn, worker>> /\ cancel' = None
      BY <1>3 DEF CancelEnds, stateVars, connVars, wVars
    <2>3. \A q \in Requests : job'[q] = IF q = cancel THEN "over" ELSE job[q]
      BY <1>0, <1>3 DEF CancelEnds, Job
    <2>4. InQueue' = InQueue /\ InTasks' = InTasks /\ Inj(queue)' /\ Inj(tasks)'
      BY <2>2, ElemsOf DEF Places
    <2>. QED  BY <1>0, <2>1, <2>2, <2>3, <2>4 DEF Places, TaskLabels, EndLabels
  <1>. QED  BY <1>1, <1>2, <1>3 DEF Closing

LEMMA PlacesNext == IInv /\ Next => Places'
  BY PlacesConn, PlacesJob, PlacesWorker, PlacesMain DEF IInv, Next

-----------------------------------------------------------------------------
(* Phases.                                                                 *)

LEMMA PhasesConn ==
    ASSUME TypeOK, Phases, NEW r \in Requests, Post(r) \/ Disconnect(r) \/ Serve(r)
    PROVE  Phases'
  <1>1. (conn[r] \in {"none"} /\ main \notin {"joining", "freed"}) \/ conn[r] \notin {"none", "closed"}
    BY DEF Post, Disconnect, Serve, Push, Pushed, PushRefused, Respond, RespondFails, WaitDone,
           ReadFrame, ReadEnd, MarkGone, StoreInterrupt, FreeResponse
  <1>2. main \notin {"joining", "freed"}
    BY <1>1 DEF Phases
  <1>3. UNCHANGED <<shutting, schMtx, tasks, idx, main, cancel>>
    BY DEF Post, Disconnect, Serve, Push, Pushed, PushRefused, Respond, RespondFails, WaitDone,
           ReadFrame, ReadEnd, MarkGone, StoreInterrupt, FreeResponse, stateVars, wVars, mVars
  <1>4. queue' = queue \/ ~shutting
    BY DEF Post, Disconnect, Serve, Push, Pushed, PushRefused, Respond, RespondFails, WaitDone,
           ReadFrame, ReadEnd, MarkGone, StoreInterrupt, FreeResponse, stateVars
  <1>5. worker' = worker \/ worker' = "look"
    BY DEF Post, Disconnect, Serve, Push, Signalled, PushRefused, Respond, RespondFails, WaitDone,
           ReadFrame, ReadEnd, MarkGone, StoreInterrupt, FreeResponse, wVars
  <1>. QED  BY <1>2, <1>3, <1>4, <1>5 DEF Phases

LEMMA PhasesJob ==
    ASSUME TypeOK, Phases, NEW r \in Requests, EndJob(r) \/ Generate(r)
    PROVE  Phases'
  <1>1. UNCHANGED <<shutting, schMtx, queue, main, cancel, conn>>
    BY DEF EndJob, FailJob, FinishChunk, LastFrame, QueueDone, Generate, Begin, Setup,
           PrefillInterrupted, PrefillFails, PrefillYields, PrefillDone, DecodeStops, Token, FeedYields,
           FeedStops, ClearInterrupt, GenerationDone, TaskEnds, stateVars, connVars, mVars
  <1>2. UNCHANGED <<worker, idx, tasks>> \/ (worker = "run" /\ worker' = "round")
    BY DEF EndJob, FailJob, FinishChunk, LastFrame, QueueDone, Generate, Begin, Setup, Runs, Yield,
           PrefillInterrupted, PrefillFails, PrefillYields, PrefillDone, DecodeStops, Token, FeedYields,
           FeedStops, ClearInterrupt, GenerationDone, TaskEnds, stateVars, wVars
  <1>. QED  BY <1>1, <1>2 DEF Phases

LEMMA PhasesWorker ==
    ASSUME TypeOK, Phases, WorkerStep \/ WorkerWakes
    PROVE  Phases'
  <1>1. UNCHANGED <<shutting, main, cancel, conn>>
    BY DEF WorkerStep, WorkerWakes, WorkerLooks, WorkerSleeps, WorkerChecks, AdmitMore, AdmitPop,
           AdmitNone, StartTask, StartFails, StartNoSlot, PutBack, PutBackLate, FailEnds, Resume,
           DecodeBatch, stateVars, connVars, mVars
  <1>2. queue' = queue \/ ~shutting \/ queue # <<>>
    BY DEF WorkerStep, WorkerWakes, WorkerLooks, WorkerSleeps, WorkerChecks, AdmitMore, AdmitPop,
           AdmitNone, StartTask, StartFails, StartNoSlot, PutBack, PutBackLate, FailEnds, Resume,
           DecodeBatch, stateVars
  <1>3. worker # "exited"
    BY DEF WorkerStep, WorkerWakes, WorkerLooks, WorkerSleeps, WorkerChecks, AdmitMore, AdmitPop,
           AdmitNone, StartTask, StartFails, StartNoSlot, PutBack, PutBackLate, FailEnds, Resume,
           DecodeBatch
  <1>4. worker' = "exited" => shutting /\ tasks' = <<>>
    BY DEF WorkerStep, WorkerWakes, WorkerLooks, WorkerSleeps, WorkerChecks, AdmitMore, AdmitPop,
           AdmitNone, StartTask, StartFails, StartNoSlot, PutBack, PutBackLate, FailEnds, Resume,
           DecodeBatch, stateVars
  <1>5. worker' = "run" => idx' <= Len(tasks')
    BY DEF WorkerStep, WorkerWakes, WorkerLooks, WorkerSleeps, WorkerChecks, AdmitMore, AdmitPop,
           AdmitNone, StartTask, StartFails, StartNoSlot, PutBack, PutBackLate, FailEnds, Resume,
           DecodeBatch
  <1>6. worker' \in {"pop", "start"} => Len(tasks') < SlotsCap
    BY DEF Phases, WorkerStep, WorkerWakes, WorkerLooks, WorkerSleeps, WorkerChecks, AdmitMore, AdmitPop,
           AdmitNone, StartTask, StartFails, StartNoSlot, PutBack, PutBackLate, FailEnds, Resume,
           DecodeBatch, stateVars
  <1>7. \/ schMtx' = schMtx /\ (worker' = "sleepy" => worker = "sleepy")
        \/ schMtx = None /\ schMtx' = Worker
        \/ worker = "sleepy" /\ schMtx' = None /\ worker' = "asleep"
    BY DEF WorkerStep, WorkerWakes, WorkerLooks, WorkerSleeps, WorkerChecks, AdmitMore, AdmitPop,
           AdmitNone, StartTask, StartFails, StartNoSlot, PutBack, PutBackLate, FailEnds, Resume,
           DecodeBatch, stateVars
  <1>8. /\ schMtx' = Main <=> main' = "cancelling"
        /\ worker' = "sleepy" => schMtx' = Worker
    BY <1>1, <1>7, ServerAssumption DEF Phases
  <1>. QED  BY <1>1, <1>2, <1>3, <1>4, <1>5, <1>6, <1>8 DEF Phases

LEMMA PhasesMain ==
    ASSUME TypeOK, Phases, Stop \/ Closing \/ Terminated
    PROVE  Phases'
  <1>. USE ServerAssumption
  <1>1. CASE Stop
    BY <1>1 DEF Stop, Phases, connVars, wVars
  <1>2. CASE CancelBegins \/ CancelNext \/ CancelEnds
    BY <1>2 DEF CancelBegins, CancelNext, CancelEnds, Phases, stateVars, connVars, wVars
  <1>3. CASE CancelOver
    BY <1>3 DEF CancelOver, Signalled, Phases, connVars
  <1>4. CASE DaemonStopped \/ Free
    BY <1>4 DEF DaemonStopped, Free, Phases, stateVars, connVars, wVars
  <1>5. CASE Terminated
    BY <1>5 DEF Terminated, Phases, vars, stateVars, connVars, wVars, mVars
  <1>. QED  BY <1>1, <1>2, <1>3, <1>4, <1>5 DEF Closing

LEMMA PhasesNext == IInv /\ Next => Phases'
  BY PhasesConn, PhasesJob, PhasesWorker, PhasesMain DEF IInv, Next

-----------------------------------------------------------------------------
(* RefsCountHolders.                                                       *)

Holders(r) == One(conn[r] \notin {"none", "free", "closed"}) + One(HasResponse(r))
              + One(conn[r] = "push" \/ job[r] \notin {"none", "over"})

\* A step of one request.
LEMMA RefsOf ==
    ASSUME TypeOK, RefsCountHolders, NEW r \in Requests,
           \A q \in Requests \ {r} : /\ rc'[q] = rc[q] /\ conn'[q] = conn[q]
                                     /\ reply'[q] = reply[q] /\ job'[q] = job[q],
           rc'[r].refs = Holders(r)'
    PROVE  RefsCountHolders'
  BY DEF RefsCountHolders, Holders, One, HasResponse

LEMMA UnrefRefs ==
    ASSUME TypeOK, NEW r \in Requests, rc[r].refs \in Nat \ {0}, Unref(r)
    PROVE  /\ rc'[r].refs = rc[r].refs - 1
           /\ \A q \in Requests \ {r} : rc'[q] = rc[q]
           /\ rc[r].refs >= 2 => /\ rc'[r].sctx = rc[r].sctx /\ rc'[r].gone = rc[r].gone
                                 /\ rc'[r].generated = rc[r].generated
  <1>1. rc \in [Requests -> Ctx]
    BY TypeParts
  <1>2. CASE rc[r].refs = 1
    BY <1>1, <1>2 DEF Unref, NoContext, Ctx
  <1>3. CASE rc[r].refs # 1
    BY <1>1, <1>3 DEF Unref, Ctx
  <1>. QED  BY <1>2, <1>3

\* Of a step of r, what the counts depend on.
LEMMA RefsConn ==
    ASSUME IInv, NEW r \in Requests, Post(r) \/ Disconnect(r) \/ Serve(r)
    PROVE  RefsCountHolders'
  <1>. USE DEF IInv
  <1>0. /\ rc \in [Requests -> Ctx] /\ conn \in [Requests -> ConnLabels] /\ job \in [Requests -> JobLabels]
        /\ reply \in [Requests -> Replies] /\ rc[r].refs = Holders(r) /\ rc[r].refs \in Nat
    BY DEF TypeOK, Ctx, RefsCountHolders, Holders
  <1>. USE DEF Holders, HasResponse, One, Conn
  <1>1. CASE Post(r)
    <2>1. job[r] = "none"
      BY <1>1 DEF Post, Places
    <2>2. /\ \A q \in Requests \ {r} : rc'[q] = rc[q] /\ conn'[q] = conn[q]
          /\ rc'[r].refs = 2 /\ conn'[r] = "push" /\ job' = job /\ reply' = reply
      BY <1>0, <1>1 DEF Post, Ctx
    <2>. QED  BY <2>1, <2>2, RefsOf
  <1>2. CASE Push(r)
    <2>1. /\ \A q \in Requests \ {r} : conn'[q] = conn[q] /\ job'[q] = job[q]
          /\ rc' = rc /\ conn[r] = "push" /\ conn'[r] \in {"respond", "wait"} /\ job'[r] = "queued" /\ reply' = reply
      BY <1>0, <1>2 DEF Push, Pushed, Job
    <2>. QED  BY <1>0, <2>1, RefsOf
  <1>3. CASE PushRefused(r) \/ StoreInterrupt(r) \/ FreeResponse(r)
    <2>1. rc[r].refs \in Nat \ {0} /\ Unref(r)
      BY <1>3, RefsPositive DEF PushRefused, StoreInterrupt, FreeResponse
    <2>2. /\ rc'[r].refs = rc[r].refs - 1
          /\ \A q \in Requests \ {r} : rc'[q] = rc[q]
      BY <2>1, UnrefRefs
    <2>3. job' = job /\ \A q \in Requests \ {r} : conn'[q] = conn[q] /\ reply'[q] = reply[q]
      BY <1>0, <1>3 DEF PushRefused, StoreInterrupt, FreeResponse
    <2>4. \/ conn[r] = "push" /\ conn'[r] = "mark" /\ reply'[r] = "unavailable"
          \/ conn[r] = "store" /\ conn'[r] = (IF reply[r] \in {"ended", "broken", "left"} THEN "free" ELSE "closed")
          \/ conn[r] = "free" /\ conn'[r] = "closed"
      BY <1>0, <1>3 DEF PushRefused, StoreInterrupt, FreeResponse
    <2>5. conn[r] = "push" => job[r] = "none"
      BY DEF Places
    <2>. QED  BY <1>0, <2>2, <2>3, <2>4, <2>5, RefsOf
  <1>4. CASE Respond(r)
    <2>1. /\ \A q \in Requests \ {r} : rc'[q] = rc[q] /\ conn'[q] = conn[q]
          /\ rc'[r].refs = rc[r].refs + 1 /\ conn[r] = "respond" /\ conn'[r] = "stream"
          /\ job' = job /\ reply' = reply
      BY <1>0, <1>4 DEF Respond, Ctx
    <2>. QED  BY <1>0, <2>1, RefsOf
  <1>5. CASE RespondFails(r) \/ WaitDone(r) \/ ReadEnd(r) \/ Disconnect(r)
    <2>1. /\ \A q \in Requests \ {r} : reply'[q] = reply[q] /\ conn'[q] = conn[q]
          /\ rc' = rc /\ job' = job
      BY <1>0, <1>5 DEF RespondFails, WaitDone, ReadEnd, Disconnect
    <2>2. /\ conn'[r] = "mark"
          /\ \/ conn[r] \in {"respond", "wait"} /\ reply'[r] \in {"none sent", "failed", "ok"}
             \/ conn[r] = "stream" /\ reply'[r] \in {"ended", "broken", "left"}
      BY <1>0, <1>5 DEF RespondFails, WaitDone, ReadEnd, Disconnect
    <2>. QED  BY <1>0, <2>1, <2>2, RefsOf
  <1>6. CASE ReadFrame(r)
    <2>1. /\ \A q \in Requests \ {r} : rc'[q] = rc[q]
          /\ rc'[r].refs = rc[r].refs /\ conn' = conn /\ job' = job /\ reply' = reply
      BY <1>0, <1>6 DEF ReadFrame, Ctx
    <2>. QED  BY <1>0, <2>1, RefsOf
  <1>7. CASE MarkGone(r)
    <2>1. /\ \A q \in Requests \ {r} : rc'[q] = rc[q] /\ conn'[q] = conn[q]
          /\ rc'[r].refs = rc[r].refs /\ conn[r] = "mark" /\ conn'[r] = "store"
          /\ job' = job /\ reply' = reply
      BY <1>0, <1>7 DEF MarkGone, Ctx
    <2>. QED  BY <1>0, <2>1, RefsOf
  <1>. QED  BY <1>1, <1>2, <1>3, <1>4, <1>5, <1>6, <1>7 DEF Serve

\* The labels of a job that is accepted and not over.
Open == JobLabels \ {"none", "over"}

\* The count stays while a job is open.
LEMMA RefsOpen ==
    ASSUME IInv, NEW r \in Requests, NEW l \in Open, job[r] \in Open,
           job' = job \/ job' = [job EXCEPT ![r] = l],
           UNCHANGED <<conn, reply>>,
           \A q \in Requests \ {r} : rc'[q] = rc[q],
           rc'[r].refs = rc[r].refs
    PROVE  RefsCountHolders'
  <1>1. job \in [Requests -> JobLabels]
    BY DEF IInv, TypeOK
  <1>2. /\ \A q \in Requests \ {r} : job'[q] = job[q]
        /\ job'[r] \in Open
    BY <1>1
  <1>3. rc[r].refs = Holders(r)
    BY DEF IInv, RefsCountHolders, Holders
  <1>4. job[r] \notin {"none", "over"} /\ job'[r] \notin {"none", "over"}
    BY <1>2 DEF Open
  <1>5. rc'[r].refs = Holders(r)'
    BY <1>3, <1>4 DEF Holders, HasResponse, One
  <1>. QED  BY <1>2, <1>5, RefsOf DEF IInv

\* The reference of a job goes with it.
LEMMA RefsOver ==
    ASSUME IInv, NEW r \in Requests, job[r] = "release", Unref(r), job' = [job EXCEPT ![r] = "over"],
           UNCHANGED <<conn, reply>>
    PROVE  RefsCountHolders'
  <1>0. job \in [Requests -> JobLabels] /\ conn[r] # "push" /\ rc[r].refs = Holders(r)
    BY DEF IInv, TypeOK, Places, RefsCountHolders, Holders
  <1>1. rc[r].refs \in Nat \ {0}
    BY RefsPositive DEF IInv
  <1>2. rc'[r].refs = rc[r].refs - 1 /\ \A q \in Requests \ {r} : rc'[q] = rc[q]
    BY <1>1, UnrefRefs DEF IInv
  <1>3. job'[r] = "over" /\ \A q \in Requests \ {r} : job'[q] = job[q]
    BY <1>0
  <1>4. rc'[r].refs = Holders(r)'
    BY <1>0, <1>2, <1>3 DEF Holders, HasResponse, One
  <1>. QED  BY <1>2, <1>3, <1>4, RefsOf DEF IInv

LEMMA RefsJob ==
    ASSUME IInv, NEW r \in Requests, EndJob(r) \/ Generate(r)
    PROVE  RefsCountHolders'
  <1>0. rc \in [Requests -> Ctx]
    BY DEF IInv, TypeOK, Ctx
  <1>1. CASE TaskEnds(r)
    BY <1>1, RefsOver DEF TaskEnds, Job, connVars
  <1>2. CASE ~TaskEnds(r)
    <2>1. PICK l \in Open : job' = job \/ job' = [job EXCEPT ![r] = l]
      BY <1>2 DEF EndJob, FailJob, FinishChunk, LastFrame, QueueDone, Generate, Begin, Setup,
           PrefillInterrupted, PrefillFails, PrefillYields, PrefillDone, DecodeStops, Token, FeedYields,
           FeedStops, ClearInterrupt, GenerationDone, Job, Open, JobLabels
    <2>2. job[r] \in Open /\ UNCHANGED <<conn, reply>>
      BY <1>2 DEF EndJob, FailJob, FinishChunk, LastFrame, QueueDone, Generate, Begin, Setup,
           PrefillInterrupted, PrefillFails, PrefillYields, PrefillDone, DecodeStops, Token, FeedYields,
           FeedStops, ClearInterrupt, GenerationDone, Open, JobLabels, connVars
    <2>3. /\ \A q \in Requests \ {r} : rc'[q] = rc[q]
          /\ rc'[r].refs = rc[r].refs
      <3>1. CASE EndJob(r)
        BY <1>0, <3>1 DEF EndJob, FailJob, FinishChunk, LastFrame, QueueDone, Ctx
      <3>2. CASE Begin(r) \/ Setup(r) \/ PrefillFails(r) \/ GenerationDone(r)
        BY <1>0, <3>2 DEF Begin, Setup, PrefillFails, GenerationDone, Ctx
      <3>3. CASE DecodeStops(r) \/ FeedStops(r)
        <4>1. PICK f, b : rc' = [rc EXCEPT ![r].frames = f, ![r].sentAny = b]
          BY <3>3 DEF DecodeStops, FeedStops
        <4>. QED  BY <1>0, <4>1 DEF Ctx
      <3>4. CASE Token(r)
        <4>1. PICK piece \in {"send", "hold", "stop"} :
                rc' = [rc EXCEPT ![r].generated = @ + 1, ![r].frames = @ \o Delta(r, piece = "send"),
                                 ![r].sentAny = @ \/ Delta(r, piece = "send") # <<>>]
          BY <3>4 DEF Token
        <4>. QED  BY <1>0, <4>1 DEF Ctx
      <3>5. CASE PrefillInterrupted(r) \/ PrefillYields(r) \/ PrefillDone(r) \/ FeedYields(r) \/ ClearInterrupt(r)
        BY <3>5 DEF PrefillInterrupted, PrefillYields, PrefillDone, FeedYields, ClearInterrupt
      <3>. QED  BY <1>2, <3>1, <3>2, <3>3, <3>4, <3>5 DEF Generate
    <2>. QED  BY <2>1, <2>2, <2>3, RefsOpen
  <1>. QED  BY <1>1, <1>2

LEMMA RefsRest ==
    ASSUME IInv, WorkerStep \/ WorkerWakes \/ Stop \/ Closing \/ Terminated
    PROVE  RefsCountHolders'
  <1>0. /\ hand \in Requests \cup {None} /\ cancel \in Requests \cup {None} /\ None \notin Requests
    BY PlacesTypes DEF IInv
  <1>1. CASE FailEnds
    <2>1. hand \in Requests
      BY <1>0, <1>1 DEF FailEnds, IInv, Places
    <2>. QED  BY <1>1, <2>1, RefsOver DEF FailEnds, Job, connVars
  <1>2. CASE CancelEnds
    <2>1. cancel \in Requests
      BY <1>0, <1>2 DEF CancelEnds
    <2>. QED  BY <1>2, <2>1, RefsOver DEF CancelEnds, Job, connVars
  <1>3. CASE AdmitPop \/ CancelNext
    <2>1. Head(queue) \in Requests /\ job[Head(queue)] = "queued"
      BY <1>3, PopFacts DEF AdmitPop, CancelNext, IInv
    <2>. QED  BY <1>3, <2>1, RefsOpen DEF AdmitPop, CancelNext, Job, Open, JobLabels, connVars
  <1>4. CASE StartTask \/ StartFails \/ StartNoSlot \/ PutBack \/ PutBackLate
    <2>1. hand \in Requests /\ job[hand] = "held"
      BY <1>0, <1>4 DEF StartTask, StartFails, StartNoSlot, PutBack, PutBackLate, IInv, Places
    <2>2. PICK l \in Open : job' = [job EXCEPT ![hand] = l]
      BY <1>4 DEF StartTask, StartFails, StartNoSlot, PutBack, PutBackLate, Job, Open, JobLabels
    <2>3. UNCHANGED <<rc, conn, reply>>
      BY <1>4 DEF StartTask, StartFails, StartNoSlot, PutBack, PutBackLate, connVars
    <2>. QED  BY <2>1, <2>2, <2>3, RefsOpen DEF Open, JobLabels
  <1>5. CASE \/ WorkerLooks \/ WorkerSleeps \/ WorkerChecks \/ AdmitMore \/ AdmitNone
             \/ Resume \/ DecodeBatch \/ WorkerWakes \/ Stop \/ CancelBegins \/ CancelOver
             \/ DaemonStopped \/ Free \/ Terminated
    <2>1. UNCHANGED <<rc, conn, reply, job>>
      BY <1>5 DEF WorkerLooks, WorkerSleeps, WorkerChecks, AdmitMore, AdmitNone, Resume, DecodeBatch,
                  WorkerWakes, Stop, CancelBegins, CancelOver, DaemonStopped, Free, Terminated,
                  vars, connVars
    <2>. QED  BY <2>1 DEF IInv, RefsCountHolders, HasResponse
  <1>. QED  BY <1>1, <1>2, <1>3, <1>4, <1>5 DEF WorkerStep, Closing

LEMMA RefsNext == IInv /\ Next => RefsCountHolders'
  BY RefsConn, RefsJob, RefsRest DEF Next

-----------------------------------------------------------------------------
(* SlotsInv.                                                               *)

\* Tasks have slots of their own, said without their order.
LEMMA SlotsApart ==
    ASSUME SlotsInv, NEW p \in InTasks, NEW q \in InTasks, p # q
    PROVE  Slot(p) # Slot(q)
  BY DEF SlotsInv, SlotsExclusive, InTasks

LEMMA SlotsFrom ==
    ASSUME Inj(tasks)', Len(tasks') <= SlotsCap,
           \A p, q \in InTasks' : p # q => task'[p].slot # task'[q].slot,
           {s \in Slots : busy'[s]} = {task'[q].slot : q \in InTasks'},
           \A s \in Slots : busy'[s] => s <= nSlots',
           \A q \in InTasks' : /\ task'[q].slot \in Slots
                               /\ job'[q] # "begin" => rc'[q].sctx = task'[q].slot
    PROVE  SlotsInv'
  <1>1. \A i, j \in 1 .. Len(tasks') : i # j => task'[tasks'[i]].slot # task'[tasks'[j]].slot
    BY DEF Inj, InTasks
  <1>. QED  BY <1>1 DEF SlotsInv, SlotsExclusive, Slot

\* Tasks and slots stay, and the tasks keep their contexts.
LEMMA SlotsStay ==
    ASSUME SlotsInv, Inj(tasks), UNCHANGED <<tasks, busy>>,
           \A s \in Slots : s <= nSlots => s <= nSlots',
           \A q \in InTasks : /\ task'[q].slot = task[q].slot
                              /\ job'[q] # "begin" => rc'[q].sctx = task[q].slot
    PROVE  SlotsInv'
  <1>1. InTasks' = InTasks /\ Inj(tasks)'
    BY ElemsOf
  <1>2. \A p, q \in InTasks : p # q => task[p].slot # task[q].slot
    BY SlotsApart DEF Slot
  <1>3. \A p, q \in InTasks' : p # q => task'[p].slot # task'[q].slot
    BY <1>1, <1>2
  <1>4. {s \in Slots : busy[s]} = {task[q].slot : q \in InTasks}
    BY DEF SlotsInv, SlotsExclusive, Slot
  <1>5. {s \in Slots : busy'[s]} = {task'[q].slot : q \in InTasks'}
    <2>1. {task'[q].slot : q \in InTasks'} = {task[q].slot : q \in InTasks}
      <3>1. \A x : (\E q \in InTasks' : x = task'[q].slot) <=> (\E q \in InTasks : x = task[q].slot)
        BY <1>1
      <3>. QED  BY <3>1
    <2>. QED  BY <1>4, <2>1
  <1>6. /\ Len(tasks') <= SlotsCap
        /\ \A s \in Slots : busy'[s] => s <= nSlots'
    BY DEF SlotsInv, SlotsExclusive
  <1>7. \A q \in InTasks' : /\ task'[q].slot \in Slots
                            /\ job'[q] # "begin" => rc'[q].sctx = task'[q].slot
    BY <1>1 DEF SlotsInv, Slot
  <1>. QED  BY <1>1, <1>3, <1>5, <1>6, <1>7, SlotsFrom

LEMMA SlotsConn ==
    ASSUME IInv, NEW r \in Requests, Post(r) \/ Disconnect(r) \/ Serve(r)
    PROVE  SlotsInv'
  <1>. USE DEF IInv
  <1>0. /\ rc \in [Requests -> Ctx] /\ job \in [Requests -> JobLabels] /\ InTasks \subseteq Requests
        /\ Inj(tasks)
    BY PlacesTypes DEF TypeOK, Ctx, Places
  <1>1. UNCHANGED <<tasks, busy, nSlots, task>>
    BY DEF Post, Disconnect, Serve, Push, PushRefused, Respond, RespondFails, WaitDone,
           ReadFrame, ReadEnd, MarkGone, StoreInterrupt, FreeResponse, stateVars
  <1>2. \A q \in InTasks : job'[q] = job[q]
    <2>1. CASE Push(r)
      <3>1. r \notin InTasks
        BY <2>1 DEF Push, Pushed, Places, TaskLabels
      <3>. QED  BY <1>0, <2>1, <3>1 DEF Push, Pushed, Job
    <2>2. CASE ~Push(r)
      BY <2>2 DEF Post, Disconnect, Serve, PushRefused, Respond, RespondFails, WaitDone,
             ReadFrame, ReadEnd, MarkGone, StoreInterrupt, FreeResponse
    <2>. QED  BY <2>1, <2>2
  <1>3. \A q \in InTasks : rc'[q].sctx = rc[q].sctx
    <2>1. CASE PushRefused(r) \/ StoreInterrupt(r) \/ FreeResponse(r)
      <3>1. rc[r].refs \in Nat \ {0} /\ Unref(r) /\ conn[r] \in {"push", "store", "free"}
        BY <2>1, RefsPositive DEF PushRefused, StoreInterrupt, FreeResponse
      <3>2. ASSUME r \in InTasks PROVE rc[r].refs >= 2
        <4>1. job[r] \notin {"none", "over"} /\ conn[r] # "push"
          BY <3>2 DEF Places, TaskLabels
        <4>. QED  BY <3>1, <4>1 DEF RefsCountHolders, One, HasResponse
      <3>3. \A q \in Requests \ {r} : rc'[q] = rc[q]
        BY <3>1, UnrefRefs
      <3>4. r \in InTasks => rc'[r].sctx = rc[r].sctx
        BY <3>1, <3>2, UnrefRefs
      <3>. QED  BY <1>0, <3>3, <3>4
    <2>2. CASE Post(r) \/ Respond(r) \/ ReadFrame(r) \/ MarkGone(r)
      <3>1. rc[r] \in Ctx /\ \A q \in Requests \ {r} : rc'[q] = rc[q]
        BY <1>0, <2>2 DEF Post, Respond, ReadFrame, MarkGone
      <3>2. CASE Post(r)
        BY <1>0, <3>1, <3>2 DEF Post, Ctx
      <3>3. CASE Respond(r)
        BY <1>0, <3>1, <3>3 DEF Respond, Ctx
      <3>4. CASE ReadFrame(r)
        BY <1>0, <3>1, <3>4 DEF ReadFrame, Ctx
      <3>5. CASE MarkGone(r)
        BY <1>0, <3>1, <3>5 DEF MarkGone, Ctx
      <3>. QED  BY <2>2, <3>2, <3>3, <3>4, <3>5
    <2>3. CASE Push(r) \/ RespondFails(r) \/ WaitDone(r) \/ ReadEnd(r) \/ Disconnect(r)
      BY <2>3 DEF Push, RespondFails, WaitDone, ReadEnd, Disconnect
    <2>. QED  BY <2>1, <2>2, <2>3 DEF Serve
  <1>. QED  BY <1>0, <1>1, <1>2, <1>3, SlotsStay DEF SlotsInv, SlotsExclusive, Slot

LEMMA SlotsTaskEnds ==
    ASSUME IInv, NEW r \in Requests, TaskEnds(r)
    PROVE  SlotsInv'
  <1>. USE DEF IInv
  <1>0. /\ rc \in [Requests -> Ctx] /\ job \in [Requests -> JobLabels] /\ InTasks \subseteq Requests
        /\ task \in [Requests -> Task] /\ busy \in [Slots -> BOOLEAN]
        /\ tasks \in Seq(Requests) /\ Len(tasks) \in Nat /\ Inj(tasks) /\ SlotsCap \in Nat
    BY PlacesTypes, TypeParts, ServerAssumption DEF Others, Places
  <1>1. idx \in 1 .. Len(tasks) /\ r = tasks[idx] /\ r \in InTasks
    BY RunsFacts DEF TaskEnds
  <1>2. InTasks' = InTasks \ {r} /\ Inj(tasks)' /\ Len(tasks') = Len(tasks) - 1
    BY <1>0, <1>1, WithoutFacts, ElemsOf DEF TaskEnds
  <1>3. Len(tasks') <= SlotsCap
    BY <1>0, <1>2 DEF SlotsInv, SlotsExclusive
  <1>4. ASSUME NEW q \in InTasks'
        PROVE  q \in InTasks /\ q # r /\ task'[q] = task[q] /\ job'[q] = job[q] /\ rc'[q] = rc[q]
    <2>1. rc[r].refs \in Nat \ {0}
      BY RefsPositive DEF TaskEnds
    <2>2. \A p \in Requests \ {r} : rc'[p] = rc[p]
      BY <2>1, UnrefRefs DEF TaskEnds
    <2>. QED  BY <1>0, <1>2, <1>4, <2>2 DEF TaskEnds, Job
  <1>5. \A p, q \in InTasks' : p # q => task'[p].slot # task'[q].slot
    BY <1>4, SlotsApart DEF Slot
  <1>6. {s \in Slots : busy'[s]} = {task'[q].slot : q \in InTasks'}
    <2>1. \A s \in Slots : busy'[s] = (busy[s] /\ s # Slot(r))
      BY <1>0 DEF TaskEnds
    <2>2. \A q \in InTasks : q # r => Slot(q) # Slot(r)
      BY <1>1, SlotsApart
    <2>3. \A q \in InTasks' : task'[q].slot = Slot(q)
      BY <1>4 DEF Slot
    <2>4. ASSUME NEW s \in Slots, busy[s], s # Slot(r) PROVE \E q \in InTasks' : s = Slot(q)
      BY <1>2, <2>4 DEF SlotsInv, SlotsExclusive
    <2>5. ASSUME NEW q \in InTasks' PROVE Slot(q) \in Slots /\ busy[Slot(q)] /\ Slot(q) # Slot(r)
      BY <1>4, <2>2 DEF SlotsInv, SlotsExclusive
    <2>6. \A s \in Slots : busy'[s] => \E q \in InTasks' : s = task'[q].slot
      BY <2>1, <2>3, <2>4
    <2>7. \A q \in InTasks' : task'[q].slot \in Slots /\ busy'[task'[q].slot]
      BY <2>1, <2>3, <2>5
    <2>. QED  BY <2>6, <2>7
  <1>7. \A s \in Slots : busy'[s] => s <= nSlots'
    BY <1>0 DEF TaskEnds, SlotsInv, SlotsExclusive
  <1>8. \A q \in InTasks' : /\ task'[q].slot \in Slots
                            /\ job'[q] # "begin" => rc'[q].sctx = task'[q].slot
    BY <1>4 DEF SlotsInv, SlotsExclusive, Slot
  <1>. QED  BY <1>2, <1>3, <1>5, <1>6, <1>7, <1>8, SlotsFrom

LEMMA SlotsJob ==
    ASSUME IInv, NEW r \in Requests, EndJob(r) \/ (Generate(r) /\ ~TaskEnds(r))
    PROVE  SlotsInv'
  <1>. USE DEF IInv
  <1>0. /\ rc \in [Requests -> Ctx] /\ job \in [Requests -> JobLabels] /\ InTasks \subseteq Requests
        /\ task \in [Requests -> Task] /\ Inj(tasks)
    BY PlacesTypes, TypeParts DEF Places
  <1>1. UNCHANGED <<tasks, busy, nSlots>>
    BY DEF EndJob, FailJob, FinishChunk, LastFrame, QueueDone, Generate, Begin, Setup,
           PrefillInterrupted, PrefillFails, PrefillYields, PrefillDone, DecodeStops, Token, FeedYields,
           FeedStops, ClearInterrupt, GenerationDone, stateVars
  <1>2. \A q \in Requests : task'[q].slot = task[q].slot
    <2>1. CASE Setup(r) \/ PrefillYields(r) \/ PrefillDone(r) \/ FeedYields(r)
      BY <1>0, <2>1 DEF Setup, PrefillYields, PrefillDone, FeedYields, Task
    <2>2. CASE ~(Setup(r) \/ PrefillYields(r) \/ PrefillDone(r) \/ FeedYields(r))
      BY <2>2 DEF EndJob, FailJob, FinishChunk, LastFrame, QueueDone, Generate, Begin,
           PrefillInterrupted, PrefillFails, DecodeStops, Token, FeedStops, ClearInterrupt, GenerationDone
    <2>. QED  BY <2>1, <2>2
  <1>3. \A q \in InTasks : q # r => job'[q] = job[q] /\ rc'[q] = rc[q]
    <2>1. \E l : job' = job \/ job' = [job EXCEPT ![r] = l]
      BY DEF EndJob, FailJob, FinishChunk, LastFrame, QueueDone, Generate, Begin, Setup,
           PrefillInterrupted, PrefillFails, PrefillYields, PrefillDone, DecodeStops, Token, FeedYields,
           FeedStops, ClearInterrupt, GenerationDone, Job
    <2>2. \A q \in Requests \ {r} : rc'[q] = rc[q]
      BY <1>0 DEF EndJob, FailJob, FinishChunk, LastFrame, QueueDone, Generate, Begin, Setup,
           PrefillInterrupted, PrefillFails, PrefillYields, PrefillDone, DecodeStops, Token, FeedYields,
           FeedStops, ClearInterrupt, GenerationDone
    <2>. QED  BY <1>0, <2>1, <2>2
  <1>4. CASE Begin(r)
    <2>1. rc'[r].sctx = Slot(r)
      BY <1>0, <1>4 DEF Begin, Ctx
    <2>. QED  BY <1>0, <1>1, <1>2, <1>3, <2>1, SlotsStay DEF SlotsInv, SlotsExclusive, Slot
  <1>5. CASE ~Begin(r)
    <2>1. job[r] # "begin"
      BY <1>5 DEF EndJob, FailJob, FinishChunk, LastFrame, QueueDone, Generate, Setup,
           PrefillInterrupted, PrefillFails, PrefillYields, PrefillDone, DecodeStops, Token, FeedYields,
           FeedStops, ClearInterrupt, GenerationDone
    <2>2. rc'[r].sctx = rc[r].sctx
      <3>0. rc[r] \in Ctx
        BY <1>0
      <3>1. CASE FailJob(r) \/ QueueDone(r) \/ Setup(r) \/ PrefillFails(r) \/ GenerationDone(r)
        BY <1>0, <3>0, <3>1 DEF FailJob, QueueDone, Setup, PrefillFails, GenerationDone, Ctx
      <3>2. CASE FinishChunk(r) \/ LastFrame(r)
        BY <1>0, <3>0, <3>2 DEF FinishChunk, LastFrame, Ctx
      <3>3. CASE DecodeStops(r) \/ FeedStops(r)
        <4>1. PICK held \in BOOLEAN :
                rc' = [rc EXCEPT ![r].frames = @ \o Delta(r, held),
                                 ![r].sentAny = @ \/ Delta(r, held) # <<>>]
          BY <3>3 DEF DecodeStops, FeedStops
        <4>. QED  BY <1>0, <3>0, <4>1 DEF Ctx
      <3>4. CASE Token(r)
        <4>1. PICK piece \in {"send", "hold", "stop"} :
                rc' = [rc EXCEPT ![r].generated = @ + 1, ![r].frames = @ \o Delta(r, piece = "send"),
                                 ![r].sentAny = @ \/ Delta(r, piece = "send") # <<>>]
          BY <3>4 DEF Token
        <4>. QED  BY <1>0, <3>0, <4>1 DEF Ctx
      <3>5. CASE PrefillInterrupted(r) \/ PrefillYields(r) \/ PrefillDone(r) \/ FeedYields(r) \/ ClearInterrupt(r)
        BY <3>5 DEF PrefillInterrupted, PrefillYields, PrefillDone, FeedYields, ClearInterrupt
      <3>. QED  BY <1>5, <3>1, <3>2, <3>3, <3>4, <3>5 DEF EndJob, Generate
    <2>. QED  BY <1>0, <1>1, <1>2, <1>3, <2>1, <2>2, SlotsStay DEF SlotsInv, SlotsExclusive, Slot
  <1>. QED  BY <1>4, <1>5

LEMMA SlotsStart ==
    ASSUME IInv, StartTask
    PROVE  SlotsInv'
  <1>. USE DEF IInv
  <1>0. /\ rc \in [Requests -> Ctx] /\ job \in [Requests -> JobLabels] /\ InTasks \subseteq Requests
        /\ task \in [Requests -> Task] /\ busy \in [Slots -> BOOLEAN] /\ nSlots \in Nat
        /\ tasks \in Seq(Requests) /\ Len(tasks) \in Nat /\ Inj(tasks) /\ SlotsCap \in Nat
    BY PlacesTypes, TypeParts, ServerAssumption DEF Others, Places, Slots
  <1>1. hand \in Requests /\ hand \notin InTasks
    BY DEF StartTask, Places, TypeOK
  <1>2. PICK s \in Pickable : /\ nSlots' = IF s > nSlots THEN s ELSE nSlots
                              /\ busy' = [busy EXCEPT ![s] = TRUE]
                              /\ task' = [task EXCEPT ![hand].slot = s]
    BY DEF StartTask
  <1>3. s \in Slots /\ ~busy[s]
    <2>1. s \in Slots
      BY <1>2, PickableSlots
    <2>2. (s \in 1 .. nSlots /\ ~busy[s]) \/ s = nSlots + 1
      BY <1>0, <1>2 DEF Pickable
    <2>. QED  BY <1>0, <2>1, <2>2 DEF SlotsInv, SlotsExclusive
  <1>4. InTasks' = InTasks \cup {hand} /\ Inj(tasks)' /\ Len(tasks') = Len(tasks) + 1
    BY <1>0, <1>1, AppendFacts, ElemsOf DEF StartTask
  <1>5. Len(tasks') <= SlotsCap
    BY <1>0, <1>4 DEF StartTask, Phases
  <1>6. /\ task'[hand].slot = s
        /\ \A q \in InTasks : task'[q].slot = Slot(q) /\ Slot(q) # s /\ Slot(q) \in Slots
    <2>1. task'[hand].slot = s /\ \A q \in InTasks : task'[q] = task[q]
      BY <1>0, <1>1, <1>2 DEF Task
    <2>2. \A q \in InTasks : Slot(q) \in Slots /\ busy[Slot(q)]
      BY DEF SlotsInv, SlotsExclusive
    <2>. QED  BY <1>3, <2>1, <2>2 DEF Slot
  <1>7. \A p, q \in InTasks' : p # q => task'[p].slot # task'[q].slot
    BY <1>4, <1>6, SlotsApart
  <1>8. {x \in Slots : busy'[x]} = {task'[q].slot : q \in InTasks'}
    <2>1. busy'[s] /\ \A x \in Slots : x # s => busy'[x] = busy[x]
      BY <1>0, <1>2, <1>3
    <2>2. \A x \in Slots : busy[x] => \E q \in InTasks : x = Slot(q)
      BY DEF SlotsInv, SlotsExclusive
    <2>3. \A q \in InTasks : busy[Slot(q)]
      BY DEF SlotsInv, SlotsExclusive
    <2>4. \A x \in Slots : busy'[x] => \E q \in InTasks' : x = task'[q].slot
      BY <1>4, <1>6, <2>1, <2>2
    <2>5. \A q \in InTasks' : task'[q].slot \in Slots /\ busy'[task'[q].slot]
      BY <1>3, <1>4, <1>6, <2>1, <2>3
    <2>. QED  BY <2>4, <2>5
  <1>9. \A x \in Slots : busy'[x] => x <= nSlots'
    <2>1. \A x \in Slots : x \in Nat
      BY DEF Slots
    <2>2. \A x \in Slots : busy'[x] => busy[x] \/ x = s
      BY <1>0, <1>2, <1>3
    <2>. QED  BY <1>0, <1>2, <1>3, <2>1, <2>2 DEF SlotsInv, SlotsExclusive
  <1>10. \A q \in InTasks' : /\ task'[q].slot \in Slots
                             /\ job'[q] # "begin" => rc'[q].sctx = task'[q].slot
    <2>1. job'[hand] = "begin" /\ rc' = rc /\ \A q \in InTasks : job'[q] = job[q]
      BY <1>0, <1>1 DEF StartTask, Job
    <2>. QED  BY <1>3, <1>4, <1>6, <2>1 DEF SlotsInv, SlotsExclusive
  <1>. QED  BY <1>4, <1>5, <1>7, <1>8, <1>9, <1>10, SlotsFrom

LEMMA SlotsRest ==
    ASSUME IInv, (WorkerStep /\ ~StartTask) \/ WorkerWakes \/ Stop \/ Closing \/ Terminated
    PROVE  SlotsInv'
  <1>. USE DEF IInv
  <1>0. /\ rc \in [Requests -> Ctx] /\ job \in [Requests -> JobLabels] /\ InTasks \subseteq Requests
        /\ task \in [Requests -> Task] /\ Inj(tasks) /\ nSlots \in Slots
        /\ hand \in Requests \cup {None} /\ cancel \in Requests \cup {None} /\ None \notin Requests
    BY PlacesTypes, TypeParts DEF Places, Others
  <1>1. UNCHANGED <<tasks, busy>>
    BY DEF WorkerStep, WorkerWakes, WorkerLooks, WorkerSleeps, WorkerChecks, AdmitMore, AdmitPop,
           AdmitNone, StartFails, StartNoSlot, PutBack, PutBackLate, FailEnds, Resume,
           DecodeBatch, stateVars, Stop, Closing, CancelBegins, CancelNext, CancelEnds, CancelOver,
           DaemonStopped, Free, Terminated, vars
  <1>2. \A s \in Slots : s <= nSlots => s <= nSlots'
    <2>1. CASE StartFails
      BY <1>0, <2>1 DEF StartFails, Slots
    <2>2. CASE ~StartFails
      <3>1. nSlots' = nSlots
        BY <2>2 DEF WorkerStep, WorkerWakes, WorkerLooks, WorkerSleeps, WorkerChecks, AdmitMore, AdmitPop,
           AdmitNone, StartNoSlot, PutBack, PutBackLate, FailEnds, Resume,
           DecodeBatch, stateVars, Stop, Closing, CancelBegins, CancelNext, CancelEnds, CancelOver,
           DaemonStopped, Free, Terminated, vars
      <3>. QED  BY <3>1
    <2>. QED  BY <2>1, <2>2
  <1>3. \A q \in InTasks : task'[q].slot = task[q].slot
    <2>1. CASE DecodeBatch
      <3> DEFINE batch == {r \in Collected : ~interrupt[Slot(r)]}
      <3>1. PICK bad \in SUBSET batch :
              task' = [r \in Requests |-> IF r \in Collected THEN Result(r, batch, bad) ELSE task[r]]
        BY <2>1 DEF DecodeBatch
      <3> HIDE DEF batch
      <3>2. \A r \in Requests : Result(r, batch, bad).slot = task[r].slot
        BY <1>0 DEF Result, Task
      <3>. QED  BY <1>0, <3>1, <3>2
    <2>2. CASE ~DecodeBatch
      BY <2>2 DEF WorkerStep, WorkerWakes, WorkerLooks, WorkerSleeps, WorkerChecks, AdmitMore, AdmitPop,
           AdmitNone, StartFails, StartNoSlot, PutBack, PutBackLate, FailEnds, Resume,
           Stop, Closing, CancelBegins, CancelNext, CancelEnds, CancelOver,
           DaemonStopped, Free, Terminated, vars
    <2>. QED  BY <2>1, <2>2
  <1>4. \A q \in InTasks : job'[q] = job[q] /\ rc'[q] = rc[q]
    <2>1. CASE AdmitPop \/ CancelNext
      <3>1. Head(queue) \notin InTasks
        BY <2>1, PopFacts DEF AdmitPop, CancelNext
      <3>. QED  BY <1>0, <2>1, <3>1 DEF AdmitPop, CancelNext, Job
    <2>2. CASE StartFails \/ StartNoSlot \/ PutBack \/ PutBackLate
      <3>1. hand \in Requests /\ hand \notin InTasks
        BY <1>0, <2>2 DEF StartFails, StartNoSlot, PutBack, PutBackLate, Places
      <3>. QED  BY <1>0, <2>2, <3>1 DEF StartFails, StartNoSlot, PutBack, PutBackLate, Job
    <2>3. CASE FailEnds
      <3>1. hand \in Requests /\ hand \notin InTasks /\ rc[hand].refs \in Nat \ {0} /\ Unref(hand)
        BY <1>0, <2>3, RefsPositive DEF FailEnds, Places
      <3>2. \A q \in Requests \ {hand} : rc'[q] = rc[q]
        BY <3>1, UnrefRefs
      <3>. QED  BY <1>0, <2>3, <3>1, <3>2 DEF FailEnds, Job
    <2>4. CASE CancelEnds
      <3>1. cancel \in Requests /\ cancel \notin InTasks /\ rc[cancel].refs \in Nat \ {0} /\ Unref(cancel)
        BY <1>0, <2>4, RefsPositive DEF CancelEnds, Places
      <3>2. \A q \in Requests \ {cancel} : rc'[q] = rc[q]
        BY <3>1, UnrefRefs
      <3>. QED  BY <1>0, <2>4, <3>1, <3>2 DEF CancelEnds, Job
    <2>5. CASE \/ WorkerLooks \/ WorkerSleeps \/ WorkerChecks \/ AdmitMore \/ AdmitNone
               \/ Resume \/ DecodeBatch \/ WorkerWakes \/ Stop \/ CancelBegins \/ CancelOver
               \/ DaemonStopped \/ Free \/ Terminated
      BY <2>5 DEF WorkerLooks, WorkerSleeps, WorkerChecks, AdmitMore, AdmitNone, Resume, DecodeBatch,
                  WorkerWakes, Stop, CancelBegins, CancelOver, DaemonStopped, Free, Terminated, vars
    <2>. QED  BY <2>1, <2>2, <2>3, <2>4, <2>5 DEF WorkerStep, Closing
  <1>. QED  BY <1>0, <1>1, <1>2, <1>3, <1>4, SlotsStay DEF SlotsInv, SlotsExclusive, Slot

LEMMA SlotsNext == IInv /\ Next => SlotsInv'
  BY SlotsConn, SlotsJob, SlotsTaskEnds, SlotsStart, SlotsRest DEF Next, Generate

-----------------------------------------------------------------------------
(* The theorems.                                                           *)

LEMMA StutterIInv == IInv /\ UNCHANGED vars => IInv'
  <1>. SUFFICES ASSUME IInv, UNCHANGED vars PROVE IInv'
    OBVIOUS
  <1>. USE DEF IInv, vars, stateVars, connVars, wVars, mVars
  <1>1. TypeOK'
    BY DEF TypeOK
  <1>2. Places'
    BY PlacesStay DEF Places
  <1>3. Phases'
    BY DEF Phases
  <1>4. RefsCountHolders'
    BY DEF RefsCountHolders, HasResponse
  <1>5. SlotsInv'
    BY SlotsStay DEF SlotsInv, SlotsExclusive, Slot, Places
  <1>. QED  BY <1>1, <1>2, <1>3, <1>4, <1>5

LEMMA NextIInv == IInv /\ [Next]_vars => IInv'
  <1>1. IInv /\ Next => IInv'
    BY TypeNext, PlacesNext, PhasesNext, RefsNext, SlotsNext DEF IInv
  <1>. QED  BY <1>1, StutterIInv

\* The invariant that carries the others: the type, where each job is, how far
\* the stop has come, the counts of the contexts and the slots of the tasks
\* (every handler of openai.c and the worker).
THEOREM ServerInductive == Spec => []IInv
  BY InitIInv, NextIInv, PTL DEF Spec

\* Every variable keeps its type; in particular the count of a context is
\* never negative, since rc_unref is only called by one that holds it.
THEOREM ServerTypes == Spec => []TypeOK
  <1>1. IInv => TypeOK
    BY DEF IInv
  <1>. QED  BY ServerInductive, <1>1, PTL

\* The count of a req_ctx is the number of its holders at every step (rc_ref,
\* rc_unref), so it is freed by the last one and used by nobody afterwards.
THEOREM ContextsCounted == Spec => []RefsCountHolders
  <1>1. IInv => RefsCountHolders
    BY DEF IInv
  <1>. QED  BY ServerInductive, <1>1, PTL

\* A session slot serves one request at a time, and a generation uses the
\* context of its own slot (task_start, task_finish).
THEOREM SlotsNeverShared == Spec => []SlotsExclusive
  <1>1. IInv => SlotsExclusive
    BY DEF IInv, SlotsInv
  <1>. QED  BY ServerInductive, <1>1, PTL

LEMMA OnePlace ==
    ASSUME IInv, NEW r \in Requests
    PROVE  One(r \in InQueue) + One(r = hand) + One(r = cancel) + One(r \in InTasks)
               = One(job[r] \notin {"none", "over"})
  <1>0. None \notin Requests
    BY ServerAssumption
  <1>1. r \in InQueue <=> job[r] = "queued"
    BY DEF IInv, Places
  <1>2. r \in InTasks => job[r] \in TaskLabels
    BY DEF IInv, Places
  <1>3. r = hand => r \notin InTasks /\ r # cancel /\ job[r] \in EndLabels \cup {"held"}
    BY <1>0 DEF IInv, Places
  <1>4. r = cancel => r \notin InTasks /\ job[r] \in EndLabels
    BY <1>0 DEF IInv, Places
  <1>5. job[r] \notin {"none", "over", "queued"} => r = hand \/ r = cancel \/ r \in InTasks
    BY DEF IInv, Places
  <1>. QED  BY <1>1, <1>2, <1>3, <1>4, <1>5 DEF One, TaskLabels, EndLabels

\* An accepted job is in exactly one place until it is over, none is left when
\* the worker has exited and the queue was cancelled, and every context is
\* freed before the server's state (admit_jobs, jobs_cancel, openai_free).
THEOREM NobodyLeft == Spec => []NoneLeftBehind
  <1>1. IInv => NoneLeftBehind
    <2>. SUFFICES ASSUME IInv PROVE NoneLeftBehind
      OBVIOUS
    <2>1. ASSUME worker = "exited", main \in {"draining", "joining", "freed"}, NEW r \in Requests
          PROVE  job[r] \in {"none", "over"}
      <3>1. queue = <<>> /\ tasks = <<>> /\ cancel = None /\ hand = None
        BY <2>1 DEF IInv, Phases, Places
      <3>2. InQueue = {} /\ InTasks = {}
        BY <3>1 DEF InQueue, InTasks
      <3>. QED  BY <3>1, <3>2, ServerAssumption DEF IInv, Places
    <2>2. ASSUME main = "freed", NEW r \in Requests PROVE rc[r].refs = 0
      <3>1. job[r] \in {"none", "over"} /\ conn[r] \in {"none", "closed"}
        BY <2>1, <2>2 DEF IInv, Phases
      <3>. QED  BY <3>1 DEF IInv, RefsCountHolders, HasResponse, One
    <2>. QED  BY <2>1, <2>2, OnePlace DEF NoneLeftBehind
  <1>. QED  BY ServerInductive, <1>1, PTL

-----------------------------------------------------------------------------
(* What a client is told, and by when.  A context is open from the arrival *)
(* of its request to request_completed: until then rc tells what happened. *)

Unclosed(r) == conn[r] \notin {"free", "closed"}

\* The labels after gen_done is set, and those before anything is generated.
Over  == {"finish", "last", "producer", "release", "over"}
Early == {"none", "queued", "held", "begin", "setup", "prefill", "fail"}

\* An answer is given when the label of the job says so, and a connection that
\* was answered found its request no longer in flight.
Answered(r) ==
    /\ reply[r] # "none" => conn[r] \in {"mark", "store"}
    /\ Unclosed(r) =>
          /\ rc[r].genDone <=> job[r] \in Over
          /\ rc[r].producerDone => job[r] \in {"release", "over"}
          /\ job[r] = "none" => rc[r].sctx = None
          /\ rc[r].gone => conn[r] = "store"
          /\ reply[r] \in {"ok", "failed"} => rc[r].genDone
          /\ reply[r] = "ended" => rc[r].producerDone
          /\ reply[r] = "unavailable" => job[r] = "none"
          /\ conn[r] = "store" /\ reply[r] \in {"ok", "failed", "ended"} => ~live[r]

\* What was read and what is queued, as one chain, and the frame it ends with.
Linked(g, f) ==
    \A i \in 1 .. Len(f) : <<IF i = 1 THEN g ELSE f[i - 1], f[i]>> \in Follows
LastOf(g, f) == IF f = <<>> THEN g ELSE f[Len(f)]

\* The stream of r is a chain whose end the label of the job tells.
Streamed(r) ==
    /\ Unclosed(r) =>
          /\ Linked(got[r], rc[r].frames)
          /\ job[r] \in Early => ~rc[r].sentAny
          /\ ~rc[r].sentAny => got[r] = "none" /\ rc[r].frames = <<>>
          /\ rc[r].sentAny /\ job[r] \notin Over \ {"finish"} =>
                 LastOf(got[r], rc[r].frames) = "delta"
          /\ job[r] = "last" => LastOf(got[r], rc[r].frames) = "finish"
          /\ job[r] \in {"producer", "release", "over"} /\ ~rc[r].gone /\ ~shutting =>
                 LastOf(got[r], rc[r].frames) = "[DONE]"
    /\ reply[r] = "ended" /\ ~shutting => got[r] = "[DONE]"

Told(r) == Answered(r) /\ (r \in Streaming => Streamed(r))
AInv == IInv /\ \A r \in Requests : Told(r)

-----------------------------------------------------------------------------
(* Chains of frames.                                                       *)

LEMMA LinkAppend ==
    ASSUME NEW f \in Seq(Frames), NEW g, NEW e \in Frames,
           Linked(g, f), <<LastOf(g, f), e>> \in Follows
    PROVE  Linked(g, Append(f, e)) /\ LastOf(g, Append(f, e)) = e
  <1>. DEFINE t == Append(f, e)
  <1>1. /\ t \in Seq(Frames) /\ Len(t) = Len(f) + 1 /\ Len(f) \in Nat
        /\ \A i \in 1 .. Len(f) : t[i] = f[i]
        /\ t[Len(f) + 1] = e
    BY AppendProperties
  <1>2. t # <<>> /\ (f = <<>> <=> Len(f) = 0)
    BY <1>1, EmptySeq
  <1>. HIDE DEF t
  <1>3. LastOf(g, t) = e
    BY <1>1, <1>2 DEF LastOf
  <1>4. ASSUME NEW i \in 1 .. Len(t)
        PROVE  <<IF i = 1 THEN g ELSE t[i - 1], t[i]>> \in Follows
    <2>1. CASE i \in 1 .. Len(f)
      <3>1. t[i] = f[i] /\ (i # 1 => t[i - 1] = f[i - 1])
        BY <1>1, <2>1
      <3>. QED  BY <2>1, <3>1 DEF Linked
    <2>2. CASE i = Len(f) + 1
      <3>1. t[i] = e /\ (IF i = 1 THEN g ELSE t[i - 1]) = LastOf(g, f)
        BY <1>1, <1>2, <2>2 DEF LastOf
      <3>. QED  BY <3>1
    <2>. QED  BY <1>1, <2>1, <2>2
  <1>. QED  BY <1>3, <1>4 DEF Linked, t

\* Reading the first frame moves the chain along.
LEMMA LinkTail ==
    ASSUME NEW f \in Seq(Frames), NEW g, Linked(g, f), f # <<>>
    PROVE  /\ Linked(Head(f), Tail(f))
           /\ LastOf(Head(f), Tail(f)) = LastOf(g, f)
  <1>. DEFINE t == Tail(f)
  <1>1. /\ t \in Seq(Frames) /\ Len(t) = Len(f) - 1 /\ Len(f) \in Nat \ {0} /\ Head(f) = f[1]
        /\ \A i \in 1 .. Len(t) : t[i] = f[i + 1]
    BY HeadTailProperties, EmptySeq
  <1>2. t = <<>> <=> Len(t) = 0
    BY <1>1, EmptySeq
  <1>. HIDE DEF t
  <1>3. ASSUME NEW i \in 1 .. Len(t)
        PROVE  <<IF i = 1 THEN f[1] ELSE t[i - 1], t[i]>> \in Follows
    <2>1. i + 1 \in 1 .. Len(f) /\ t[i] = f[i + 1] /\ (i # 1 => t[i - 1] = f[i])
      BY <1>1
    <2>2. <<f[i], f[i + 1]>> \in Follows
      BY <2>1 DEF Linked
    <2>. QED  BY <2>1, <2>2
  <1>4. LastOf(f[1], t) = f[Len(f)]
    <2>1. CASE Len(t) = 0
      <3>1. t = <<>>
        BY <1>2, <2>1
      <3>2. Len(f) = 1
        BY <1>1, <2>1
      <3>3. LastOf(f[1], t) = f[1]
        BY <3>1 DEF LastOf
      <3>. QED  BY <3>2, <3>3
    <2>2. CASE Len(t) # 0
      <3>1. Len(t) \in 1 .. Len(t)
        BY <1>1, <2>2
      <3>. QED  BY <1>1, <1>2, <2>2, <3>1 DEF LastOf
    <2>. QED  BY <2>1, <2>2
  <1>. QED  BY <1>1, <1>3, <1>4 DEF Linked, LastOf, t

LEMMA ConcatOne ==
    ASSUME NEW f \in Seq(Frames), NEW e \in Frames
    PROVE  f \o <<e>> = Append(f, e)
  BY AppendIsConcat

\* A preamble where one is due, and one frame more.
LEMMA LinkSent ==
    ASSUME NEW f \in Seq(Frames), NEW g, NEW e \in {"delta", "finish"}, NEW sent \in BOOLEAN,
           Linked(g, f), ~sent => g = "none" /\ f = <<>>, sent => LastOf(g, f) = "delta",
           NEW pre, pre = IF sent THEN <<>> ELSE <<"preamble">>
    PROVE  /\ f \o (pre \o <<e>>) = f \o pre \o <<e>>
           /\ Linked(g, f \o pre \o <<e>>) /\ LastOf(g, f \o pre \o <<e>>) = e
           /\ pre \o <<e>> # <<>>
  <1>0. e \in Frames /\ "preamble" \in Frames /\ <<e>> \in Seq(Frames) /\ pre \in Seq(Frames)
    <2>1. e \in Frames /\ "preamble" \in Frames
      BY DEF Frames
    <2>2. <<e>> \in Seq(Frames) /\ <<"preamble">> \in Seq(Frames) /\ <<>> \in Seq(Frames)
      BY <2>1
    <2>. QED  BY <2>1, <2>2
  <1>1. f \o (pre \o <<e>>) = f \o pre \o <<e>>
    BY <1>0, ConcatAssociative
  <1>2. pre \o <<e>> # <<>>
    <2>1. pre \o <<e>> = Append(pre, e)
      BY <1>0, ConcatOne
    <2>. QED  BY <1>0, <2>1, AppendProperties
  <1>3. CASE sent
    <2>1. f \o pre = f
      BY <1>3, ConcatEmptySeq
    <2>2. f \o pre \o <<e>> = Append(f, e)
      BY <1>0, <2>1, ConcatOne
    <2>3. <<LastOf(g, f), e>> \in Follows
      BY <1>3 DEF Follows
    <2>4. Linked(g, Append(f, e)) /\ LastOf(g, Append(f, e)) = e
      BY <1>0, <2>3, LinkAppend
    <2>. QED  BY <1>1, <1>2, <2>2, <2>4
  <1>4. CASE ~sent
    <2>1. f \o pre = Append(f, "preamble")
      BY <1>0, <1>4, ConcatOne
    <2>2. Append(f, "preamble") \in Seq(Frames)
      BY <1>0, AppendProperties
    <2>3. f \o pre \o <<e>> = Append(Append(f, "preamble"), e)
      BY <1>0, <2>1, <2>2, ConcatOne
    <2>4. <<LastOf(g, f), "preamble">> \in Follows
      BY <1>4 DEF LastOf, Follows
    <2>5. Linked(g, Append(f, "preamble")) /\ LastOf(g, Append(f, "preamble")) = "preamble"
      BY <1>0, <2>4, LinkAppend
    <2>. DEFINE h == Append(f, "preamble")
    <2>. HIDE DEF h
    <2>6. <<LastOf(g, h), e>> \in Follows
      BY <2>5 DEF Follows, h
    <2>7. h \in Seq(Frames) /\ Linked(g, h)
      BY <2>2, <2>5 DEF h
    <2>8. Linked(g, Append(h, e)) /\ LastOf(g, Append(h, e)) = e
      BY <1>0, <2>6, <2>7, LinkAppend
    <2>. QED  BY <1>1, <1>2, <2>3, <2>8 DEF h
  <1>. QED  BY <1>3, <1>4

\* The chain as the property states it.
LEMMA LinkedFollows ==
    ASSUME NEW f \in Seq(Frames), NEW g \in Frames \cup {"none"}, Linked(g, f)
    PROVE  LET sent == <<g>> \o f
           IN  \A i \in 1 .. Len(sent) - 1 : <<sent[i], sent[i + 1]>> \in Follows
  <1>. DEFINE S == Frames \cup {"none"}
              sent == <<g>> \o f
  <1>1. f \in Seq(S) /\ <<g>> \in Seq(S) /\ Len(<<g>>) = 1 /\ <<g>>[1] = g /\ Len(f) \in Nat
    OBVIOUS
  <1>2. /\ Len(sent) = Len(f) + 1 /\ sent[1] = g
        /\ \A i \in 2 .. Len(f) + 1 : sent[i] = f[i - 1]
    <2>1. /\ Len(sent) = Len(<<g>>) + Len(f)
          /\ \A i \in 1 .. Len(<<g>>) + Len(f) :
                 sent[i] = IF i <= Len(<<g>>) THEN <<g>>[i] ELSE f[i - Len(<<g>>)]
      BY <1>1, ConcatProperties
    <2>. HIDE DEF sent
    <2>. QED  BY <1>1, <2>1
  <1>. HIDE DEF sent
  <1>3. ASSUME NEW i \in 1 .. Len(sent) - 1 PROVE <<sent[i], sent[i + 1]>> \in Follows
    <2>1. i \in 1 .. Len(f) /\ sent[i + 1] = f[i] /\ sent[i] = IF i = 1 THEN g ELSE f[i - 1]
      BY <1>1, <1>2, <1>3
    <2>. QED  BY <2>1 DEF Linked
  <1>. QED  BY <1>3 DEF sent

-----------------------------------------------------------------------------
(* Every step keeps AInv.                                                  *)

\* The fields Told is about, and the variables of a request beside its job.
Kept(q) ==
    /\ rc'[q].genDone = rc[q].genDone /\ rc'[q].gone = rc[q].gone
    /\ rc'[q].producerDone = rc[q].producerDone /\ rc'[q].frames = rc[q].frames
    /\ rc'[q].sctx = rc[q].sctx /\ rc'[q].sentAny = rc[q].sentAny
SameConn(q) ==
    /\ conn'[q] = conn[q] /\ live'[q] = live[q] /\ reply'[q] = reply[q] /\ got'[q] = got[q]

\* The labels of a job on the way, in three stretches.
Working == {"prefill", "decode", "feed", "clear", "done"}
Onward(a, b) ==
    \/ a = b
    \/ a \in Early \ {"none"} /\ b \in Early \ {"none"}
    \/ a \in Working /\ b \in Working \ {"prefill"}
    \/ a = "release" /\ b = "over"

LEMMA ToldStays ==
    ASSUME NEW q \in Requests, Told(q), SameConn(q), Onward(job[q], job'[q]),
           Unclosed(q) => Kept(q), shutting \in BOOLEAN, shutting => shutting'
    PROVE  Told(q)'
  <1>1. Unclosed(q)' <=> Unclosed(q)
    BY DEF Unclosed, SameConn
  <1>2. /\ job'[q] \in Over <=> job[q] \in Over
        /\ job[q] \in {"release", "over"} <=> job'[q] \in {"release", "over"}
        /\ job[q] = "none" <=> job'[q] = "none"
        /\ job'[q] \in Early => job[q] \in Early
        /\ job'[q] \in Over \ {"finish"} <=> job[q] \in Over \ {"finish"}
        /\ job'[q] = "last" <=> job[q] = "last"
        /\ job'[q] = "producer" <=> job[q] = "producer"
    BY DEF Onward, Over, Early, Working
  <1>3. Answered(q)'
    BY <1>1, <1>2 DEF Told, Answered, SameConn, Kept
  <1>4. ASSUME q \in Streaming PROVE Streamed(q)'
    <2>1. CASE Unclosed(q)
      <3>1. Linked(got[q], rc[q].frames)'
        BY <1>4, <2>1 DEF Told, Streamed, SameConn, Kept, Linked
      <3>2. LastOf(got[q], rc[q].frames)' = LastOf(got[q], rc[q].frames)
        BY <2>1 DEF SameConn, Kept, LastOf
      <3>3. job'[q] \in {"producer", "release", "over"} => job[q] \in {"producer", "release", "over"}
        BY <1>2
      <3>. QED  BY <1>1, <1>2, <1>4, <2>1, <3>1, <3>2, <3>3 DEF Told, Streamed, SameConn, Kept
    <2>2. CASE ~Unclosed(q)
      BY <1>1, <1>4, <2>2 DEF Told, Streamed, SameConn
    <2>. QED  BY <2>1, <2>2
  <1>. QED  BY <1>3, <1>4 DEF Told

\* A step of one request leaves the others as they are.
LEMMA ToldOthers ==
    ASSUME AInv, NEW r \in Requests, shutting' = shutting,
           \A q \in Requests \ {r} : rc'[q] = rc[q] /\ job'[q] = job[q] /\ SameConn(q),
           Told(r)'
    PROVE  \A q \in Requests : Told(q)'
  <1>1. ASSUME NEW q \in Requests \ {r} PROVE Told(q)'
    <2>1. shutting \in BOOLEAN
      BY DEF AInv, IInv, TypeOK
    <2>. QED  BY <2>1, ToldStays DEF AInv, Kept, Onward
  <1>. QED  BY <1>1

LEMMA UnrefKept ==
    ASSUME TypeOK, NEW r \in Requests, rc[r].refs \in Nat \ {0, 1}, Unref(r)
    PROVE  Kept(r)
  <1>1. rc \in [Requests -> Ctx]
    BY TypeParts
  <1>2. rc' = [rc EXCEPT ![r].refs = @ - 1]
    BY DEF Unref
  <1>. QED  BY <1>1, <1>2 DEF Kept, Ctx

\* The steps of a connection thread that leave what is told as it is, or tell.
LEMMA ToldReply ==
    ASSUME AInv, NEW r \in Requests,
           Post(r) \/ Push(r) \/ PushRefused(r) \/ Respond(r) \/ RespondFails(r) \/ WaitDone(r)
           \/ ReadEnd(r) \/ Disconnect(r)
    PROVE  \A q \in Requests : Told(q)'
  <1>. USE DEF AInv, IInv
  <1>0. /\ rc \in [Requests -> Ctx] /\ job \in [Requests -> JobLabels]
        /\ conn \in [Requests -> ConnLabels] /\ reply \in [Requests -> Replies]
    BY TypeParts DEF Others
  <1>1. /\ UNCHANGED <<shutting, live, got>>
        /\ \A q \in Requests \ {r} : job'[q] = job[q] /\ conn'[q] = conn[q] /\ reply'[q] = reply[q]
    BY <1>0 DEF Post, Push, Pushed, PushRefused, Respond, RespondFails, WaitDone, ReadEnd, Disconnect,
                Conn, Job, stateVars
  <1>2. Kept(r) /\ \A q \in Requests \ {r} : rc'[q] = rc[q]
    <2>1. CASE Post(r)
      BY <1>0, <2>1 DEF Post, Kept, Ctx
    <2>2. CASE Respond(r)
      BY <1>0, <2>2 DEF Respond, Kept, Ctx
    <2>3. CASE PushRefused(r)
      <3>1. rc[r].refs = 2 /\ Unref(r)
        BY <2>3 DEF PushRefused, RefsCountHolders, HasResponse, One
      <3>. QED  BY <3>1, UnrefKept, UnrefRefs
    <2>4. CASE Push(r) \/ RespondFails(r) \/ WaitDone(r) \/ ReadEnd(r) \/ Disconnect(r)
      BY <2>4 DEF Push, Pushed, RespondFails, WaitDone, ReadEnd, Disconnect, Kept
    <2>. QED  BY <2>1, <2>2, <2>3, <2>4
  <1>3. /\ Unclosed(r) /\ Unclosed(r)' /\ conn[r] \notin {"mark", "store"} /\ conn'[r] # "store"
        /\ Answered(r) /\ reply[r] = "none"
    <2>1. /\ conn[r] \in {"none", "push", "respond", "wait", "stream"}
          /\ conn'[r] \in {"push", "respond", "wait", "stream", "mark"}
      BY <1>0 DEF Post, Push, Pushed, PushRefused, Respond, RespondFails, WaitDone, ReadEnd, Disconnect,
                  Conn
    <2>. QED  BY <2>1 DEF Unclosed, Told, Answered
  <1>4. CASE Push(r)
    <2>1. conn[r] = "push" /\ job[r] = "none" /\ job'[r] = "queued" /\ reply' = reply
      BY <1>0, <1>4 DEF Push, Pushed, Places, Job
    <2>2. Answered(r)'
      BY <1>2, <1>3, <2>1 DEF Answered, Kept, Over
    <2>3. ASSUME r \in Streaming PROVE Streamed(r)'
      <3>1. Streamed(r)
        BY <2>3 DEF Told
      <3>2. Linked(got[r], rc[r].frames)' /\ ~rc'[r].sentAny
        BY <1>1, <1>2, <1>3, <2>1, <3>1 DEF Streamed, Kept, Linked, Early
      <3>. QED  BY <1>1, <1>2, <1>3, <2>1, <3>1, <3>2 DEF Streamed, Kept
    <2>. QED  BY <1>1, <1>2, <2>2, <2>3, ToldOthers DEF Told, SameConn
  <1>5. CASE ~Push(r)
    <2>1. job'[r] = job[r]
      BY <1>0, <1>5 DEF Post, PushRefused, Respond, RespondFails, WaitDone, ReadEnd, Disconnect, stateVars
    <2>2. /\ reply'[r] # "none" => conn'[r] = "mark"
          /\ reply'[r] \in {"ok", "failed"} => rc[r].genDone
          /\ reply'[r] = "ended" => rc[r].producerDone /\ rc[r].frames = <<>>
          /\ reply'[r] = "unavailable" => job[r] = "none"
      BY <1>0, <1>3, <1>5 DEF Post, PushRefused, Respond, RespondFails, WaitDone, ReadEnd, Disconnect,
                  Conn, Places
    <2>3. Answered(r)'
      BY <1>2, <1>3, <2>1, <2>2 DEF Answered, Kept
    <2>4. ASSUME r \in Streaming PROVE Streamed(r)'
      <3>1. Streamed(r)
        BY <2>4 DEF Told
      <3>2. Linked(got[r], rc[r].frames)' /\ LastOf(got[r], rc[r].frames)' = LastOf(got[r], rc[r].frames)
        BY <1>1, <1>2, <1>3, <3>1 DEF Streamed, Kept, Linked, LastOf
      <3>3. reply'[r] = "ended" /\ ~shutting => got[r] = "[DONE]"
        <4>1. rc[r].producerDone => job[r] \in {"release", "over"}
          BY <1>3 DEF Answered
        <4>2. ~rc[r].gone
          BY <1>3 DEF Answered
        <4>. QED  BY <1>3, <2>2, <3>1, <4>1, <4>2 DEF Streamed, LastOf
      <3>. QED  BY <1>1, <1>2, <1>3, <2>1, <3>1, <3>2, <3>3 DEF Streamed, Kept
    <2>. QED  BY <1>1, <1>2, <2>1, <2>3, <2>4, ToldOthers DEF Told, SameConn
  <1>. QED  BY <1>4, <1>5

\* The other steps of a connection thread: a frame is read, the client is
\* marked gone, the connection is closed.
LEMMA ToldClose ==
    ASSUME AInv, NEW r \in Requests,
           ReadFrame(r) \/ MarkGone(r) \/ StoreInterrupt(r) \/ FreeResponse(r)
    PROVE  \A q \in Requests : Told(q)'
  <1>. USE DEF AInv, IInv
  <1>0. /\ rc \in [Requests -> Ctx] /\ rc[r] \in Ctx /\ job \in [Requests -> JobLabels]
        /\ conn \in [Requests -> ConnLabels] /\ reply \in [Requests -> Replies]
        /\ live \in [Requests -> BOOLEAN] /\ got \in [Requests -> Frames \cup {"none"}]
    BY TypeParts DEF Others
  <1>1. /\ UNCHANGED <<shutting, job>>
        /\ \A q \in Requests \ {r} : SameConn(q)
    BY <1>0 DEF ReadFrame, MarkGone, StoreInterrupt, FreeResponse, Conn, stateVars, SameConn
  <1>2. \A q \in Requests \ {r} : rc'[q] = rc[q]
    <2>1. CASE StoreInterrupt(r) \/ FreeResponse(r)
      <3>1. rc[r].refs \in Nat \ {0} /\ Unref(r)
        BY <2>1, RefsPositive DEF StoreInterrupt, FreeResponse
      <3>. QED  BY <3>1, UnrefRefs
    <2>2. CASE ReadFrame(r) \/ MarkGone(r)
      BY <1>0, <2>2 DEF ReadFrame, MarkGone
    <2>. QED  BY <2>1, <2>2
  <1>3. CASE StoreInterrupt(r) \/ FreeResponse(r)
    <2>1. conn'[r] \in {"free", "closed"} /\ reply'[r] = "none"
      <3>1. CASE StoreInterrupt(r)
        BY <1>0, <3>1 DEF StoreInterrupt, Conn
      <3>2. CASE FreeResponse(r)
        BY <1>0, <3>2 DEF FreeResponse, Conn, Told, Answered
      <3>. QED  BY <1>3, <3>1, <3>2
    <2>2. Told(r)'
      BY <2>1 DEF Told, Answered, Streamed, Unclosed
    <2>. QED  BY <1>1, <1>2, <2>2, ToldOthers
  <1>4. CASE MarkGone(r)
    <2>1. /\ conn[r] = "mark" /\ conn'[r] = "store" /\ live'[r] = ~rc[r].genDone
          /\ UNCHANGED <<reply, got>>
      BY <1>0, <1>4 DEF MarkGone, Conn
    <2>2. /\ rc'[r].genDone = rc[r].genDone /\ rc'[r].gone
          /\ rc'[r].producerDone = rc[r].producerDone /\ rc'[r].frames = rc[r].frames
          /\ rc'[r].sctx = rc[r].sctx /\ rc'[r].sentAny = rc[r].sentAny
      BY <1>0, <1>4 DEF MarkGone, Ctx
    <2>3. Unclosed(r) /\ Unclosed(r)' /\ Answered(r)
      BY <2>1 DEF Unclosed, Told
    <2>4. reply[r] = "ended" => rc[r].genDone
      BY <2>3 DEF Answered, Over
    <2>5. Answered(r)'
      BY <1>1, <2>1, <2>2, <2>3, <2>4 DEF Answered
    <2>6. ASSUME r \in Streaming PROVE Streamed(r)'
      <3>1. Streamed(r)
        BY <2>6 DEF Told
      <3>2. Linked(got[r], rc[r].frames)' /\ LastOf(got[r], rc[r].frames)' = LastOf(got[r], rc[r].frames)
        BY <2>1, <2>2, <2>3, <3>1 DEF Streamed, Linked, LastOf
      <3>. QED  BY <1>1, <2>1, <2>2, <2>3, <3>1, <3>2 DEF Streamed
    <2>. QED  BY <1>1, <1>2, <2>5, <2>6, ToldOthers DEF Told
  <1>5. CASE ReadFrame(r)
    <2>1. /\ conn[r] = "stream" /\ got'[r] = Head(rc[r].frames) /\ rc[r].frames # <<>>
          /\ UNCHANGED <<conn, reply, live>>
      BY <1>0, <1>5 DEF ReadFrame
    <2>2. /\ rc'[r].genDone = rc[r].genDone /\ rc'[r].gone = rc[r].gone
          /\ rc'[r].producerDone = rc[r].producerDone /\ rc'[r].frames = Tail(rc[r].frames)
          /\ rc'[r].sctx = rc[r].sctx /\ rc'[r].sentAny = rc[r].sentAny
      BY <1>0, <1>5 DEF ReadFrame, Ctx
    <2>3. Unclosed(r) /\ Unclosed(r)' /\ Answered(r) /\ reply[r] = "none"
      BY <2>1 DEF Unclosed, Told, Answered
    <2>4. Answered(r)'
      BY <1>1, <2>1, <2>2, <2>3 DEF Answered
    <2>5. ASSUME r \in Streaming PROVE Streamed(r)'
      <3>1. Streamed(r) /\ Linked(got[r], rc[r].frames) /\ rc[r].frames \in Seq(Frames)
        BY <1>0, <2>3, <2>5 DEF Told, Streamed, Ctx
      <3>2. /\ Linked(Head(rc[r].frames), Tail(rc[r].frames))
            /\ LastOf(Head(rc[r].frames), Tail(rc[r].frames)) = LastOf(got[r], rc[r].frames)
        BY <2>1, <3>1, LinkTail
      <3>3. Linked(got[r], rc[r].frames)' /\ LastOf(got[r], rc[r].frames)' = LastOf(got[r], rc[r].frames)
        BY <2>1, <2>2, <3>2 DEF Linked, LastOf
      <3>4. rc[r].sentAny
        BY <2>1, <2>3, <3>1 DEF Streamed
      <3>. QED  BY <1>1, <2>1, <2>2, <2>3, <3>1, <3>3, <3>4 DEF Streamed
    <2>. QED  BY <1>1, <1>2, <2>4, <2>5, ToldOthers DEF Told
  <1>. QED  BY <1>3, <1>4, <1>5

\* Nothing is told of a closed connection.
LEMMA ToldClosed ==
    ASSUME NEW r \in Requests, Told(r), ~Unclosed(r), SameConn(r), shutting' = shutting
    PROVE  Told(r)'
  BY DEF Told, Answered, Streamed, Unclosed, SameConn

\* What a step of a job changes.
LEMMA JobStep ==
    ASSUME AInv, NEW r \in Requests, EndJob(r) \/ (Generate(r) /\ ~TaskEnds(r))
    PROVE  /\ shutting' = shutting
           /\ \A q \in Requests : SameConn(q)
           /\ \A q \in Requests \ {r} : rc'[q] = rc[q] /\ job'[q] = job[q]
  <1>0. rc \in [Requests -> Ctx] /\ job \in [Requests -> JobLabels]
    BY TypeParts DEF AInv, IInv, Others
  <1>1. UNCHANGED <<shutting, connVars>>
    BY DEF EndJob, FailJob, FinishChunk, LastFrame, QueueDone, Generate, Begin, Setup,
           PrefillInterrupted, PrefillFails, PrefillYields, PrefillDone, DecodeStops, Token, FeedYields,
           FeedStops, ClearInterrupt, GenerationDone, stateVars
  <1>2. \E l : job' = job \/ job' = [job EXCEPT ![r] = l]
    BY DEF EndJob, FailJob, FinishChunk, LastFrame, QueueDone, Generate, Begin, Setup,
           PrefillInterrupted, PrefillFails, PrefillYields, PrefillDone, DecodeStops, Token, FeedYields,
           FeedStops, ClearInterrupt, GenerationDone, Job
  <1>3. \A q \in Requests \ {r} : rc'[q] = rc[q]
    BY <1>0 DEF EndJob, FailJob, FinishChunk, LastFrame, QueueDone, Generate, Begin, Setup,
           PrefillInterrupted, PrefillFails, PrefillYields, PrefillDone, DecodeStops, Token, FeedYields,
           FeedStops, ClearInterrupt, GenerationDone
  <1>. QED  BY <1>0, <1>1, <1>2, <1>3 DEF connVars, SameConn

\* The steps that send nothing and set no flag.
LEMMA ToldOnward ==
    ASSUME AInv, NEW r \in Requests,
           \/ PrefillInterrupted(r) \/ PrefillFails(r) \/ PrefillYields(r) \/ PrefillDone(r)
           \/ FeedYields(r) \/ ClearInterrupt(r)
    PROVE  Told(r)'
  <1>0. /\ rc \in [Requests -> Ctx] /\ job \in [Requests -> JobLabels] /\ shutting \in BOOLEAN
        /\ Told(r)
    BY TypeParts DEF AInv, IInv, Others
  <1>1. Kept(r)
    BY <1>0 DEF PrefillInterrupted, PrefillFails, PrefillYields, PrefillDone, FeedYields, ClearInterrupt,
                Kept, Ctx
  <1>2. Onward(job[r], job'[r])
    BY <1>0 DEF PrefillInterrupted, PrefillFails, PrefillYields, PrefillDone, FeedYields, ClearInterrupt,
                Onward, Working, Job
  <1>3. SameConn(r) /\ shutting' = shutting
    BY JobStep DEF EndJob, Generate, PrefillInterrupted, PrefillFails, PrefillYields, PrefillDone,
                   FeedYields, ClearInterrupt, TaskEnds
  <1>. QED  BY <1>0, <1>1, <1>2, <1>3, ToldStays

\* The context a generation starts with.
LEMMA ToldBegin ==
    ASSUME AInv, NEW r \in Requests, Begin(r) \/ Setup(r), SameConn(r), shutting' = shutting
    PROVE  Told(r)'
  <1>0. rc \in [Requests -> Ctx] /\ rc[r] \in Ctx /\ job \in [Requests -> JobLabels] /\ Told(r)
    BY TypeParts DEF AInv, IInv, Others
  <1>. SUFFICES ASSUME Unclosed(r) PROVE Told(r)'
    BY <1>0, ToldClosed
  <1>1. /\ job[r] \in {"begin", "setup"} /\ job'[r] \in {"setup", "prefill", "done"}
        /\ rc'[r].gone = rc[r].gone /\ rc'[r].producerDone = rc[r].producerDone
        /\ rc'[r].frames = rc[r].frames
        /\ (rc'[r].genDone => rc[r].genDone) /\ (rc'[r].sentAny => rc[r].sentAny)
    <2>1. CASE Begin(r)
      <3>1. rc' = [rc EXCEPT ![r].sctx = Slot(r)] /\ job[r] = "begin" /\ job'[r] \in {"done", "setup"}
        BY <1>0, <2>1 DEF Begin, Job
      <3>. QED  BY <1>0, <3>1 DEF Ctx
    <2>2. CASE Setup(r)
      <3>1. /\ rc' = [rc EXCEPT ![r].genDone = FALSE, ![r].generated = 0, ![r].sentAny = FALSE]
            /\ job[r] = "setup" /\ job'[r] = "prefill"
        BY <1>0, <2>2 DEF Setup, Job
      <3>. QED  BY <1>0, <3>1 DEF Ctx
    <2>. QED  BY <2>1, <2>2
  <1>2. ~rc[r].genDone /\ ~rc'[r].genDone /\ Answered(r) /\ Unclosed(r)'
    BY <1>0, <1>1 DEF Told, Answered, Over, Unclosed, SameConn
  <1>3. Answered(r)'
    BY <1>1, <1>2 DEF Answered, Over, SameConn
  <1>4. ASSUME r \in Streaming PROVE Streamed(r)'
    <2>1. Streamed(r) /\ ~rc'[r].sentAny
      BY <1>0, <1>1, <1>4 DEF Told, Streamed, Early
    <2>2. Linked(got[r], rc[r].frames)'
      BY <1>1, <2>1 DEF Streamed, SameConn, Linked
    <2>. QED  BY <1>1, <1>2, <2>1, <2>2 DEF Streamed, Early, SameConn
  <1>. QED  BY <1>3, <1>4 DEF Told

\* A piece of text goes out, or is held back.
LEMMA ToldDelta ==
    ASSUME AInv, NEW r \in Requests, DecodeStops(r) \/ Token(r) \/ FeedStops(r),
           SameConn(r), shutting' = shutting
    PROVE  Told(r)'
  <1>0. rc \in [Requests -> Ctx] /\ rc[r] \in Ctx /\ job \in [Requests -> JobLabels] /\ Told(r)
    BY TypeParts DEF AInv, IInv, Others
  <1>. SUFFICES ASSUME Unclosed(r) PROVE Told(r)'
    BY <1>0, ToldClosed
  <1>1. /\ job[r] \in {"decode", "feed"} /\ job'[r] \in {"feed", "clear"}
    BY <1>0 DEF DecodeStops, Token, FeedStops, Job
  <1>2. PICK sent \in BOOLEAN :
           /\ rc'[r].frames = rc[r].frames \o Delta(r, sent)
           /\ rc'[r].sentAny = (rc[r].sentAny \/ Delta(r, sent) # <<>>)
           /\ rc'[r].gone = rc[r].gone /\ rc'[r].producerDone = rc[r].producerDone
           /\ rc'[r].genDone = rc[r].genDone /\ rc'[r].sctx = rc[r].sctx
    <2>1. CASE DecodeStops(r) \/ FeedStops(r)
      <3>1. PICK held \in BOOLEAN :
              rc' = [rc EXCEPT ![r].frames = @ \o Delta(r, held),
                               ![r].sentAny = @ \/ Delta(r, held) # <<>>]
        BY <2>1 DEF DecodeStops, FeedStops
      <3>. QED  BY <1>0, <3>1 DEF Ctx
    <2>2. CASE Token(r)
      <3>1. PICK piece \in {"send", "hold", "stop"} :
              rc' = [rc EXCEPT ![r].generated = @ + 1, ![r].frames = @ \o Delta(r, piece = "send"),
                               ![r].sentAny = @ \/ Delta(r, piece = "send") # <<>>]
        BY <2>2 DEF Token
      <3>2. (piece = "send") \in BOOLEAN
        OBVIOUS
      <3>. DEFINE b == piece = "send"
      <3>3. /\ b \in BOOLEAN
            /\ rc' = [rc EXCEPT ![r].generated = @ + 1, ![r].frames = @ \o Delta(r, b),
                                ![r].sentAny = @ \/ Delta(r, b) # <<>>]
        BY <3>1, <3>2
      <3>. HIDE DEF b
      <3>. QED  BY <1>0, <3>3 DEF Ctx
    <2>. QED  BY <2>1, <2>2
  <1>3. Answered(r)' /\ Unclosed(r)'
    BY <1>0, <1>1, <1>2 DEF Told, Answered, Over, SameConn, Unclosed
  <1>4. ASSUME r \in Streaming PROVE Streamed(r)'
    <2>1. Streamed(r) /\ rc[r].frames \in Seq(Frames) /\ rc[r].sentAny \in BOOLEAN
      BY <1>0, <1>4 DEF Told, Ctx
    <2>2. /\ Linked(got[r], rc[r].frames)
          /\ ~rc[r].sentAny => got[r] = "none" /\ rc[r].frames = <<>>
          /\ rc[r].sentAny => LastOf(got[r], rc[r].frames) = "delta"
      BY <1>1, <2>1 DEF Streamed, Over
    <2>3. CASE Delta(r, sent) = <<>>
      <3>1. rc'[r].frames = rc[r].frames /\ rc'[r].sentAny = rc[r].sentAny
        BY <1>2, <2>1, <2>3, ConcatEmptySeq
      <3>2. Linked(got[r], rc[r].frames)' /\ LastOf(got[r], rc[r].frames)' = LastOf(got[r], rc[r].frames)
        BY <2>2, <3>1 DEF SameConn, Linked, LastOf
      <3>. QED  BY <1>1, <1>3, <2>1, <2>2, <3>1, <3>2 DEF Streamed, Early, SameConn
    <2>4. CASE Delta(r, sent) # <<>>
      <3>1. Delta(r, sent) = Preamble(r) \o <<"delta">>
        BY <2>4 DEF Delta
      <3>2. /\ rc'[r].frames = rc[r].frames \o Preamble(r) \o <<"delta">>
            /\ Linked(got[r], rc'[r].frames) /\ LastOf(got[r], rc'[r].frames) = "delta"
        <4>1. Preamble(r) = IF rc[r].sentAny THEN <<>> ELSE <<"preamble">>
          BY DEF Preamble
        <4>. DEFINE f == rc[r].frames
                    pre == Preamble(r)
                    sentAny == rc[r].sentAny
        <4>2. /\ f \in Seq(Frames) /\ sentAny \in BOOLEAN /\ Linked(got[r], f)
              /\ ~sentAny => got[r] = "none" /\ f = <<>>
              /\ sentAny => LastOf(got[r], f) = "delta"
              /\ pre = IF sentAny THEN <<>> ELSE <<"preamble">>
          BY <2>1, <2>2, <4>1
        <4>. HIDE DEF f, pre, sentAny
        <4>3. "delta" \in {"delta", "finish"}
          OBVIOUS
        <4>4. /\ f \o (pre \o <<"delta">>) = f \o pre \o <<"delta">>
              /\ Linked(got[r], f \o pre \o <<"delta">>) /\ LastOf(got[r], f \o pre \o <<"delta">>) = "delta"
          BY <4>2, <4>3, LinkSent
        <4>5. /\ rc[r].frames \o (Preamble(r) \o <<"delta">>) = rc[r].frames \o Preamble(r) \o <<"delta">>
              /\ Linked(got[r], rc[r].frames \o Preamble(r) \o <<"delta">>)
              /\ LastOf(got[r], rc[r].frames \o Preamble(r) \o <<"delta">>) = "delta"
          BY <4>4 DEF f, pre
        <4>. QED  BY <1>2, <3>1, <4>5
      <3>3. Linked(got[r], rc[r].frames)' /\ LastOf(got[r], rc[r].frames)' = "delta"
        BY <3>2 DEF SameConn, Linked, LastOf
      <3>4. rc'[r].sentAny
        BY <1>2, <2>4
      <3>. QED  BY <1>1, <1>3, <2>1, <3>3, <3>4 DEF Streamed, Early, SameConn
    <2>. QED  BY <2>3, <2>4
  <1>. QED  BY <1>3, <1>4 DEF Told

\* The generation or the failure of a job is complete.
LEMMA ToldFlags ==
    ASSUME AInv, NEW r \in Requests, GenerationDone(r) \/ FailJob(r) \/ QueueDone(r),
           SameConn(r), shutting' = shutting
    PROVE  Told(r)'
  <1>0. rc \in [Requests -> Ctx] /\ rc[r] \in Ctx /\ job \in [Requests -> JobLabels] /\ Told(r)
    BY TypeParts DEF AInv, IInv, Others
  <1>. SUFFICES ASSUME Unclosed(r) PROVE Told(r)'
    BY <1>0, ToldClosed
  <1>1. Answered(r) /\ Unclosed(r)' /\ (r \in Streaming => Streamed(r))
    BY <1>0 DEF Told, Unclosed, SameConn
  <1>2. CASE GenerationDone(r)
    <2>1. /\ job[r] = "done" /\ job'[r] \in {"finish", "release"}
          /\ r \in Streaming => job'[r] = "finish"
          /\ rc' = [rc EXCEPT ![r].genDone = TRUE]
      BY <1>0, <1>2 DEF GenerationDone, Job
    <2>2. /\ rc'[r].genDone /\ rc'[r].gone = rc[r].gone /\ rc'[r].frames = rc[r].frames
          /\ rc'[r].producerDone = rc[r].producerDone /\ rc'[r].sctx = rc[r].sctx
          /\ rc'[r].sentAny = rc[r].sentAny
      BY <1>0, <2>1 DEF Ctx
    <2>3. ~rc[r].genDone /\ ~rc[r].producerDone
      BY <1>1, <2>1 DEF Answered, Over
    <2>4. reply[r] \notin {"ok", "failed", "ended", "unavailable"}
      BY <1>1, <2>1, <2>3 DEF Answered
    <2>5. Answered(r)'
      BY <1>1, <2>1, <2>2, <2>3, <2>4 DEF Answered, Over, SameConn
    <2>6. ASSUME r \in Streaming PROVE Streamed(r)'
      <3>1. Linked(got[r], rc[r].frames)' /\ LastOf(got[r], rc[r].frames)' = LastOf(got[r], rc[r].frames)
        BY <1>1, <2>2, <2>6 DEF Streamed, SameConn, Linked, LastOf
      <3>. QED  BY <1>1, <2>1, <2>2, <2>6, <3>1 DEF Streamed, Early, Over, SameConn
    <2>. QED  BY <2>5, <2>6 DEF Told
  <1>3. CASE FailJob(r)
    <2>1. /\ job[r] = "fail" /\ job'[r] = "finish"
          /\ rc' = [rc EXCEPT ![r].generated = -1, ![r].genDone = TRUE]
      BY <1>0, <1>3 DEF FailJob, Job
    <2>2. /\ rc'[r].genDone /\ rc'[r].gone = rc[r].gone /\ rc'[r].frames = rc[r].frames
          /\ rc'[r].producerDone = rc[r].producerDone /\ rc'[r].sctx = rc[r].sctx
          /\ rc'[r].sentAny = rc[r].sentAny
      BY <1>0, <2>1 DEF Ctx
    <2>3. ~rc[r].genDone /\ ~rc[r].producerDone
      BY <1>1, <2>1 DEF Answered, Over
    <2>4. reply[r] \notin {"ok", "failed", "ended", "unavailable"}
      BY <1>1, <2>1, <2>3 DEF Answered
    <2>5. Answered(r)'
      BY <1>1, <2>1, <2>2, <2>3, <2>4 DEF Answered, Over, SameConn
    <2>6. ASSUME r \in Streaming PROVE Streamed(r)'
      <3>1. Linked(got[r], rc[r].frames)' /\ ~rc[r].sentAny
        BY <1>1, <2>1, <2>2, <2>6 DEF Streamed, SameConn, Linked, Early
      <3>. QED  BY <1>1, <2>1, <2>2, <2>6, <3>1 DEF Streamed, Early, Over, SameConn
    <2>. QED  BY <2>5, <2>6 DEF Told
  <1>4. CASE QueueDone(r)
    <2>1. /\ job[r] = "producer" /\ job'[r] = "release"
          /\ rc' = [rc EXCEPT ![r].producerDone = TRUE]
      BY <1>0, <1>4 DEF QueueDone, Job
    <2>2. /\ rc'[r].genDone = rc[r].genDone /\ rc'[r].gone = rc[r].gone /\ rc'[r].frames = rc[r].frames
          /\ rc'[r].producerDone /\ rc'[r].sctx = rc[r].sctx
          /\ rc'[r].sentAny = rc[r].sentAny
      BY <1>0, <2>1 DEF Ctx
    <2>3. Answered(r)'
      BY <1>1, <2>1, <2>2 DEF Answered, Over, SameConn
    <2>4. ASSUME r \in Streaming PROVE Streamed(r)'
      <3>1. Linked(got[r], rc[r].frames)' /\ LastOf(got[r], rc[r].frames)' = LastOf(got[r], rc[r].frames)
        BY <1>1, <2>2, <2>4 DEF Streamed, SameConn, Linked, LastOf
      <3>. QED  BY <1>1, <2>1, <2>2, <2>4, <3>1 DEF Streamed, Early, Over, SameConn
    <2>. QED  BY <2>3, <2>4 DEF Told
  <1>. QED  BY <1>2, <1>3, <1>4

\* The last two chunks of a stream, unless nobody will read them.
LEMMA ToldFinish ==
    ASSUME AInv, NEW r \in Requests, FinishChunk(r) \/ LastFrame(r),
           SameConn(r), shutting' = shutting
    PROVE  Told(r)'
  <1>0. rc \in [Requests -> Ctx] /\ rc[r] \in Ctx /\ job \in [Requests -> JobLabels] /\ Told(r)
    BY TypeParts DEF AInv, IInv, Others
  <1>. SUFFICES ASSUME Unclosed(r) PROVE Told(r)'
    BY <1>0, ToldClosed
  <1>1. /\ Answered(r) /\ Unclosed(r)' /\ (r \in Streaming => Streamed(r))
        /\ job[r] \in {"finish", "last"}
    BY <1>0 DEF Told, Unclosed, SameConn, FinishChunk, LastFrame
  <1>2. CASE Dead(r)
    <2>1. rc' = rc /\ job'[r] = "producer"
      BY <1>0, <1>2 DEF FinishChunk, LastFrame, Job
    <2>2. Answered(r)'
      BY <1>1, <2>1 DEF Answered, Over, SameConn
    <2>3. ASSUME r \in Streaming PROVE Streamed(r)'
      <3>1. Linked(got[r], rc[r].frames)'
        BY <1>1, <2>1, <2>3 DEF Streamed, SameConn, Linked
      <3>. QED  BY <1>1, <1>2, <2>1, <2>3, <3>1 DEF Streamed, Early, Over, SameConn, Dead
    <2>. QED  BY <2>2, <2>3 DEF Told
  <1>3. CASE ~Dead(r)
    <2>. DEFINE e == IF job[r] = "finish" THEN "finish" ELSE "[DONE]"
                f == rc'[r].frames
    <2>1. /\ job[r] = "finish" => /\ job'[r] = "last" /\ rc'[r].sentAny
                                  /\ f = rc[r].frames \o Preamble(r) \o <<"finish">>
          /\ job[r] = "last" => /\ job'[r] = "producer" /\ rc'[r].sentAny = rc[r].sentAny
                                /\ f = Append(rc[r].frames, "[DONE]")
          /\ rc'[r].genDone = rc[r].genDone /\ rc'[r].gone = rc[r].gone
          /\ rc'[r].producerDone = rc[r].producerDone /\ rc'[r].sctx = rc[r].sctx
      <3>1. CASE FinishChunk(r)
        <4>1. /\ rc' = [rc EXCEPT ![r].frames = @ \o Preamble(r) \o <<"finish">>, ![r].sentAny = TRUE]
              /\ job[r] = "finish" /\ job'[r] = "last"
          BY <1>0, <1>3, <3>1 DEF FinishChunk, Job
        <4>. QED  BY <1>0, <4>1 DEF Ctx
      <3>2. CASE LastFrame(r)
        <4>1. /\ rc' = [rc EXCEPT ![r].frames = Append(@, "[DONE]")]
              /\ job[r] = "last" /\ job'[r] = "producer"
          BY <1>0, <1>3, <3>2 DEF LastFrame, Job
        <4>. QED  BY <1>0, <4>1 DEF Ctx
      <3>. QED  BY <3>1, <3>2
    <2>2. Answered(r)'
      BY <1>1, <2>1 DEF Answered, Over, SameConn
    <2>3. ASSUME r \in Streaming PROVE Streamed(r)'
      <3>0. rc[r].frames \in Seq(Frames) /\ rc[r].sentAny \in BOOLEAN /\ Streamed(r)
        BY <1>0, <1>1, <2>3 DEF Ctx
      <3>1. Linked(got[r], rc[r].frames)
        BY <3>0 DEF Streamed
      <3>2. Linked(got[r], f) /\ LastOf(got[r], f) = e
        <4>1. CASE job[r] = "finish"
          <5>. DEFINE fs == rc[r].frames
                      pre == Preamble(r)
                      sentAny == rc[r].sentAny
          <5>1. /\ fs \in Seq(Frames) /\ sentAny \in BOOLEAN /\ Linked(got[r], fs)
                /\ ~sentAny => got[r] = "none" /\ fs = <<>>
                /\ sentAny => LastOf(got[r], fs) = "delta"
                /\ pre = IF sentAny THEN <<>> ELSE <<"preamble">>
            BY <3>0, <3>1, <4>1 DEF Streamed, Over, Preamble
          <5>2. f = fs \o pre \o <<"finish">> /\ e = "finish"
            BY <2>1, <4>1
          <5>. HIDE DEF fs, pre, sentAny, f, e
          <5>3. "finish" \in {"delta", "finish"}
            OBVIOUS
          <5>4. Linked(got[r], fs \o pre \o <<"finish">>) /\ LastOf(got[r], fs \o pre \o <<"finish">>) = "finish"
            BY <5>1, <5>3, LinkSent
          <5>. QED  BY <5>2, <5>4
        <4>2. CASE job[r] = "last"
          <5>1. <<LastOf(got[r], rc[r].frames), "[DONE]">> \in Follows /\ "[DONE]" \in Frames
            BY <3>0, <4>2 DEF Streamed, Follows, Frames
          <5>2. Linked(got[r], Append(rc[r].frames, "[DONE]"))
                /\ LastOf(got[r], Append(rc[r].frames, "[DONE]")) = "[DONE]"
            BY <3>0, <3>1, <5>1, LinkAppend
          <5>3. f = Append(rc[r].frames, "[DONE]") /\ e = "[DONE]"
            BY <2>1, <4>2
          <5>. QED  BY <5>2, <5>3
        <4>. QED  BY <1>1, <4>1, <4>2
      <3>3. Linked(got[r], rc[r].frames)' /\ LastOf(got[r], rc[r].frames)' = e
        BY <3>2 DEF SameConn, Linked, LastOf
      <3>4. job[r] = "last" => rc[r].sentAny
        BY <3>0 DEF Streamed, LastOf
      <3>. QED  BY <1>1, <2>1, <3>0, <3>3, <3>4 DEF Streamed, Early, Over, SameConn
    <2>. QED  BY <2>2, <2>3 DEF Told
  <1>. QED  BY <1>2, <1>3

LEMMA ToldJob ==
    ASSUME AInv, NEW r \in Requests, EndJob(r) \/ (Generate(r) /\ ~TaskEnds(r))
    PROVE  \A q \in Requests : Told(q)'
  <1>1. SameConn(r) /\ shutting' = shutting
    BY JobStep
  <1>2. Told(r)'
    BY <1>1, ToldOnward, ToldBegin, ToldDelta, ToldFlags, ToldFinish DEF EndJob, Generate
  <1>. QED  BY <1>2, JobStep, ToldOthers

\* The job is over: its reference goes, and the connection may have others.
LEMMA ToldOver ==
    ASSUME AInv, NEW r \in Requests, job[r] = "release", Unref(r), job' = [job EXCEPT ![r] = "over"],
           UNCHANGED <<shutting, connVars>>
    PROVE  \A q \in Requests : Told(q)'
  <1>. USE DEF AInv, IInv
  <1>0. job \in [Requests -> JobLabels] /\ shutting \in BOOLEAN /\ Told(r)
    BY TypeParts DEF Others
  <1>1. rc[r].refs \in Nat \ {0}
    BY RefsPositive
  <1>2. Unclosed(r) => Kept(r)
    <2>. SUFFICES ASSUME Unclosed(r) PROVE Kept(r)
      OBVIOUS
    <2>1. conn[r] \notin {"none", "free", "closed"}
      BY DEF Places, Unclosed
    <2>2. rc[r].refs # 1
      BY <2>1 DEF RefsCountHolders, HasResponse, One
    <2>. QED  BY <1>1, <2>2, UnrefKept
  <1>3. Told(r)'
    BY <1>0, <1>2, ToldStays DEF SameConn, connVars, Onward
  <1>4. \A q \in Requests \ {r} : rc'[q] = rc[q] /\ job'[q] = job[q] /\ SameConn(q)
    BY <1>0, <1>1, UnrefRefs DEF SameConn, connVars
  <1>. QED  BY <1>3, <1>4, ToldOthers

\* The job is handed on before it begins.
LEMMA ToldHanded ==
    ASSUME AInv, NEW r \in Requests, NEW l \in Early \ {"none"}, job[r] \in Early \ {"none"},
           job' = [job EXCEPT ![r] = l], UNCHANGED <<shutting, rc, connVars>>
    PROVE  \A q \in Requests : Told(q)'
  <1>. USE DEF AInv, IInv
  <1>0. job \in [Requests -> JobLabels] /\ shutting \in BOOLEAN /\ Told(r)
    BY TypeParts DEF Others
  <1>1. Told(r)'
    BY <1>0, ToldStays DEF SameConn, connVars, Onward, Kept
  <1>2. \A q \in Requests \ {r} : rc'[q] = rc[q] /\ job'[q] = job[q] /\ SameConn(q)
    BY <1>0 DEF SameConn, connVars
  <1>. QED  BY <1>1, <1>2, ToldOthers

LEMMA ToldRest ==
    ASSUME AInv, WorkerStep \/ WorkerWakes \/ Stop \/ Closing \/ Terminated
    PROVE  \A q \in Requests : Told(q)'
  <1>. USE DEF AInv, IInv
  <1>0. /\ hand \in Requests \cup {None} /\ cancel \in Requests \cup {None} /\ None \notin Requests
    BY PlacesTypes
  <1>1. CASE FailEnds
    <2>1. hand \in Requests
      BY <1>0, <1>1 DEF FailEnds, Places
    <2>. QED  BY <1>1, <2>1, ToldOver DEF FailEnds, Job, stateVars
  <1>2. CASE CancelEnds
    <2>1. cancel \in Requests
      BY <1>0, <1>2 DEF CancelEnds
    <2>. QED  BY <1>2, <2>1, ToldOver DEF CancelEnds, Job, stateVars
  <1>3. CASE AdmitPop \/ CancelNext
    <2>1. Head(queue) \in Requests /\ job[Head(queue)] = "queued"
      BY <1>3, PopFacts DEF AdmitPop, CancelNext
    <2>2. "held" \in Early \ {"none"} /\ "fail" \in Early \ {"none"} /\ "queued" \in Early \ {"none"}
      BY DEF Early
    <2>. QED  BY <1>3, <2>1, <2>2, ToldHanded DEF AdmitPop, CancelNext, Job
  <1>4. CASE StartTask \/ StartFails \/ StartNoSlot \/ PutBack \/ PutBackLate
    <2>1. hand \in Requests /\ job[hand] \in Early \ {"none"}
      BY <1>0, <1>4 DEF StartTask, StartFails, StartNoSlot, PutBack, PutBackLate, Places, Early
    <2>2. PICK l \in Early \ {"none"} : job' = [job EXCEPT ![hand] = l]
      BY <1>4 DEF StartTask, StartFails, StartNoSlot, PutBack, PutBackLate, Job, Early
    <2>3. UNCHANGED <<shutting, rc, connVars>>
      BY <1>4 DEF StartTask, StartFails, StartNoSlot, PutBack, PutBackLate, stateVars
    <2>. QED  BY <2>1, <2>2, <2>3, ToldHanded
  <1>5. CASE \/ WorkerLooks \/ WorkerSleeps \/ WorkerChecks \/ AdmitMore \/ AdmitNone
             \/ Resume \/ DecodeBatch \/ WorkerWakes \/ Stop \/ CancelBegins \/ CancelOver
             \/ DaemonStopped \/ Free \/ Terminated
    <2>1. UNCHANGED <<rc, job, connVars>> /\ (shutting => shutting')
      BY <1>5 DEF WorkerLooks, WorkerSleeps, WorkerChecks, AdmitMore, AdmitNone, Resume, DecodeBatch,
                  WorkerWakes, Stop, CancelBegins, CancelOver, DaemonStopped, Free, Terminated,
                  vars, stateVars
    <2>2. shutting \in BOOLEAN
      BY DEF TypeOK
    <2>. QED  BY <2>1, <2>2, ToldStays DEF SameConn, Kept, Onward, connVars
  <1>. QED  BY <1>1, <1>2, <1>3, <1>4, <1>5 DEF WorkerStep, Closing

LEMMA InitAInv == Init => AInv
  <1>. SUFFICES ASSUME Init, NEW r \in Requests PROVE Told(r)
    BY InitIInv DEF AInv
  <1>1. /\ rc[r] = NoContext /\ job[r] = "none" /\ conn[r] = "none" /\ reply[r] = "none"
        /\ got[r] = "none"
    BY DEF Init
  <1>2. Linked(got[r], rc[r].frames)
    <2>1. rc[r].frames = <<>> /\ Len(<<>>) = 0
      BY <1>1 DEF NoContext
    <2>. QED  BY <2>1 DEF Linked
  <1>3. Answered(r)
    BY <1>1 DEF Answered, Over, NoContext
  <1>4. Streamed(r)
    BY <1>1, <1>2 DEF Streamed, Over, NoContext
  <1>. QED  BY <1>3, <1>4 DEF Told

LEMMA NextAInv == AInv /\ [Next]_vars => AInv'
  <1>. SUFFICES ASSUME AInv, [Next]_vars PROVE AInv'
    OBVIOUS
  <1>1. IInv'
    BY NextIInv DEF AInv
  <1>2. ASSUME NEW r \in Requests, Generate(r) PROVE \A q \in Requests : Told(q)'
    <2>1. CASE TaskEnds(r)
      BY <2>1, ToldOver DEF TaskEnds, Job
    <2>2. CASE ~TaskEnds(r)
      BY <1>2, <2>2, ToldJob
    <2>. QED  BY <2>1, <2>2
  <1>3. CASE Next
    <2>1. \A q \in Requests : Told(q)'
      BY <1>2, <1>3, ToldReply, ToldClose, ToldJob, ToldRest DEF Next, Serve
    <2>. QED  BY <1>1, <2>1 DEF AInv
  <1>4. CASE UNCHANGED vars
    <2>1. UNCHANGED <<rc, job, connVars, shutting>> /\ shutting \in BOOLEAN
      BY <1>4 DEF vars, stateVars, AInv, IInv, TypeOK
    <2>2. \A q \in Requests : Told(q)'
      BY <2>1, ToldStays DEF AInv, SameConn, Kept, Onward, connVars
    <2>. QED  BY <1>1, <2>2 DEF AInv
  <1>. QED  BY <1>3, <1>4

LEMMA AnswersTold == Spec => []AInv
  BY InitAInv, NextAInv, PTL DEF Spec

\* Closing a connection that was answered interrupts no slot, although the
\* slot its request used may by then be another's (was_in_flight in
\* gen_mark_client_gone, request_completed).
THEOREM AnswersLeaveSlots == Spec => []AnsweredLeavesSlot
  <1>1. AInv => AnsweredLeavesSlot
    BY DEF AInv, Told, Answered, Unclosed, AnsweredLeavesSlot
  <1>. QED  BY AnswersTold, <1>1, PTL

\* Whatever the interleaving of the task, the connection thread and a stop, a
\* client reads a preamble, deltas, a finish chunk and [DONE], and a stream
\* that ends without an error was complete unless the server is shutting down
\* (sse_ensure_preamble, sse_finish_stream, sse_read_cb).
THEOREM StreamsInOrder == Spec => []StreamsWellFormed
  <1>1. AInv => StreamsWellFormed
    <2>. SUFFICES ASSUME AInv, NEW r \in Streaming
                  PROVE  LET sent == <<got[r]>> \o rc[r].frames
                         IN  /\ conn[r] \notin {"free", "closed"} =>
                                    \A i \in 1 .. Len(sent) - 1 : <<sent[i], sent[i + 1]>> \in Follows
                             /\ reply[r] = "ended" /\ ~shutting => got[r] = "[DONE]"
      BY DEF StreamsWellFormed
    <2>1. r \in Requests
      BY ServerAssumption
    <2>2. Streamed(r) /\ rc[r].frames \in Seq(Frames) /\ got[r] \in Frames \cup {"none"}
      BY <2>1, TypeParts DEF AInv, IInv, Told, Others, Ctx
    <2>3. ASSUME Unclosed(r)
          PROVE  LET sent == <<got[r]>> \o rc[r].frames
                 IN  \A i \in 1 .. Len(sent) - 1 : <<sent[i], sent[i + 1]>> \in Follows
      BY <2>2, <2>3, LinkedFollows DEF Streamed
    <2>. QED  BY <2>2, <2>3 DEF Streamed, Unclosed
  <1>. QED  BY AnswersTold, <1>1, PTL

(***************************************************************************)
(* The tasks that wait for a decode batch: each is resumed with the result *)
(* of its batch, and nothing is computed for a client that has left beyond *)
(* what AbandonedStops allows.                                             *)
(*                                                                         *)
(* In a round the tasks that were resumed already may wait, those still to *)
(* come do not; outside of rounds none waits (Waiting).  A connection that *)
(* reached request_completed has marked the context its job still holds    *)
(* (Marks).  For a running task, Counted says how many of its tokens were  *)
(* computed, and Leaves what holds once its client has left: the interrupt *)
(* is about to be stored, is there, or was cleared by run_generation, and  *)
(* in the last case no token is fed, because gen_dead is asked first.      *)
(***************************************************************************)
Waiting ==
    /\ \A r \in Requests : task[r].pending => r \in InTasks
    /\ worker \in {"round", "run"} =>
           \A i \in 1 .. Len(tasks) : i >= idx => ~task[tasks[i]].pending
    /\ worker \notin {"round", "run"} => \A r \in InTasks : ~task[r].pending

Marks ==
    \A r \in Requests :
        job[r] \notin {"none", "over"} /\ conn[r] \in {"store", "free", "closed"} => rc[r].gone

\* From the choice of a slot to the last token.
Generating == {"setup", "prefill", "decode", "feed"}

Fresh(q) == task[q].status = "ok" /\ ~task[q].pending

Counted(q) ==
    /\ job[q] \in {"begin", "setup"} => work[q] = NoWork
    /\ job[q] \in {"begin", "setup", "prefill"} => Fresh(q)
    /\ task[q].pending => job[q] = "decode"
    /\ job[q] = "prefill" => work[q].decoded = 0 /\ rc[q].generated = 0
    /\ job[q] = "feed" => rc[q].generated = work[q].decoded + 1
    /\ job[q] = "decode" => rc[q].generated = work[q].decoded + One(~Fresh(q))

Leaves(q) ==
    /\ work[q].late <= 1 /\ (work[q].late # 0 => rc[q].gone /\ ~task[q].pending)
    /\ work[q].told => work[q].wiped
    /\ work[q].wiped => Departed(q) /\ ~task[q].pending /\ work[q].late = 0
    /\ job[q] \in Generating /\ conn[q] = "store" => live[q]
    /\ job[q] \in Generating /\ Departed(q) /\ ~work[q].wiped => interrupt[task[q].slot]

Ready(q) ==
    IF q \in InTasks THEN Counted(q) /\ Leaves(q) ELSE work[q] = NoWork /\ Fresh(q)

WInv == AInv /\ Waiting /\ Marks /\ \A q \in Requests : Ready(q)

\* A step that adds no waiting task.
LEMMA WaitingStays ==
    ASSUME WInv, UNCHANGED tasks,
           idx' \in Nat,
           \/ worker' = worker /\ idx' >= idx
           \/ worker' \notin {"round", "run"} /\ worker \notin {"round", "run"}
           \/ worker' = "round" /\ worker \notin {"round", "run"}
           \/ worker' = "run" /\ worker = "round" /\ idx' = idx
           \/ worker' = "round" /\ worker = "run" /\ idx' >= idx,
           \A q \in Requests : task'[q].pending => task[q].pending
    PROVE  Waiting'
  <1>1. InTasks' = InTasks /\ \A i \in 1 .. Len(tasks) : tasks[i] \in InTasks /\ tasks[i] \in Requests
    BY ElemsOf, PlacesTypes DEF WInv, AInv, IInv, InTasks
  <1>2. idx \in Nat /\ Len(tasks) \in Nat
    BY PlacesTypes DEF WInv, AInv, IInv, TypeOK
  <1>4. \A r \in Requests : task'[r].pending => r \in InTasks'
    BY <1>1 DEF WInv, Waiting
  <1>5. ASSUME worker' \in {"round", "run"}, NEW i \in 1 .. Len(tasks), i >= idx'
        PROVE  ~task'[tasks[i]].pending
    <2>1. CASE worker \in {"round", "run"}
      <3>1. idx' >= idx
        BY <1>2, <1>5, <2>1
      <3>2. i >= idx
        BY <1>2, <1>5, <3>1
      <3>. QED  BY <1>1, <1>5, <2>1, <3>2 DEF WInv, Waiting
    <2>2. CASE worker \notin {"round", "run"}
      BY <1>1, <1>5, <2>2 DEF WInv, Waiting
    <2>. QED  BY <2>1, <2>2
  <1>6. ASSUME worker' \notin {"round", "run"}, NEW r \in InTasks' PROVE ~task'[r].pending
    BY <1>1, <1>6, PlacesTypes DEF WInv, AInv, IInv, Waiting
  <1>. QED  BY <1>4, <1>5, <1>6 DEF Waiting

LEMMA WaitingConn ==
    ASSUME WInv, NEW r \in Requests, Post(r) \/ Disconnect(r) \/ Serve(r)
    PROVE  Waiting'
  <1>. USE DEF WInv, AInv, IInv
  <1>0. idx \in Nat
    BY PlacesTypes DEF TypeOK
  <1>1. UNCHANGED <<tasks, task, idx>> /\ (worker' = worker \/ (worker = "asleep" /\ worker' = "look"))
    BY DEF Post, Disconnect, Serve, Push, Signalled, PushRefused, Respond, RespondFails, WaitDone,
           ReadFrame, ReadEnd, MarkGone, StoreInterrupt, FreeResponse, stateVars, wVars
  <1>2. idx' >= idx /\ idx' \in Nat
    BY <1>0, <1>1
  <1>. QED  BY <1>1, <1>2, WaitingStays

\* Most steps of a task leave its place in the round.
LEMMA WaitingJob ==
    ASSUME WInv, NEW r \in Requests, EndJob(r) \/ (Generate(r) /\ ~TaskEnds(r) /\ ~FeedYields(r))
    PROVE  Waiting'
  <1>. USE DEF WInv, AInv, IInv
  <1>0. /\ rc \in [Requests -> Ctx] /\ task \in [Requests -> Task]
        /\ InTasks \subseteq Requests /\ idx \in Nat /\ rc[r] \in Ctx
    BY TypeParts, PlacesTypes DEF Others
  <1>1. UNCHANGED tasks
    BY DEF EndJob, FailJob, FinishChunk, LastFrame, QueueDone, Generate, Begin, Setup,
           PrefillInterrupted, PrefillFails, PrefillYields, PrefillDone, DecodeStops, Token,
           FeedStops, ClearInterrupt, GenerationDone, stateVars
  <1>2. \/ worker' = worker /\ idx' = idx
        \/ worker' = "round" /\ worker = "run" /\ idx' = idx + 1
    BY DEF EndJob, FailJob, FinishChunk, LastFrame, QueueDone, Generate, Begin, Setup, Runs, Yield,
           PrefillInterrupted, PrefillFails, PrefillYields, PrefillDone, DecodeStops, Token,
           FeedStops, ClearInterrupt, GenerationDone, wVars
  <1>3. \A q \in Requests : task'[q].pending = task[q].pending
    <2>1. CASE Setup(r) \/ PrefillYields(r) \/ PrefillDone(r)
      BY <1>0, <2>1 DEF Setup, PrefillYields, PrefillDone, Task
    <2>2. CASE ~(Setup(r) \/ PrefillYields(r) \/ PrefillDone(r))
      BY <2>2 DEF EndJob, FailJob, FinishChunk, LastFrame, QueueDone, Generate, Begin,
           PrefillInterrupted, PrefillFails, DecodeStops, Token, FeedStops, ClearInterrupt, GenerationDone
    <2>. QED  BY <2>1, <2>2
  <1>4. idx' >= idx /\ idx' \in Nat
    BY <1>0, <1>2
  <1>. QED  BY <1>0, <1>1, <1>2, <1>3, <1>4, WaitingStays

\* A task waits only while its client is there.
LEMMA WaitingFeeds ==
    ASSUME WInv, NEW r \in Requests, FeedYields(r)
    PROVE  Waiting'
  <1>. USE DEF WInv, AInv, IInv
  <1>0. task \in [Requests -> Task] /\ idx \in Nat /\ Len(tasks) \in Nat /\ tasks \in Seq(Requests) /\ Inj(tasks)
    BY TypeParts, PlacesTypes DEF Others, Places
  <1>1. idx \in 1 .. Len(tasks) /\ r = tasks[idx] /\ r \in InTasks /\ worker = "run"
    BY RunsFacts DEF FeedYields
  <1>2. /\ UNCHANGED tasks /\ worker' = "round" /\ idx' = idx + 1
        /\ \A q \in Requests : q # r => task'[q] = task[q]
    BY <1>0 DEF FeedYields, Yield, stateVars
  <1>3. InTasks' = InTasks
    BY <1>2, ElemsOf
  <1>4. ASSUME NEW i \in 1 .. Len(tasks), i >= idx + 1 PROVE ~task'[tasks[i]].pending
    <2>1. tasks[i] # r /\ tasks[i] \in Requests
      BY <1>0, <1>1, <1>4, ElementOfSeq DEF Inj
    <2>. QED  BY <1>0, <1>1, <1>2, <1>4, <2>1 DEF Waiting
  <1>. QED  BY <1>1, <1>2, <1>3, <1>4 DEF Waiting

\* The end of a task: the last one moves into its place and has not been
\* resumed in this round.
LEMMA WaitingTaskEnds ==
    ASSUME WInv, NEW r \in Requests, TaskEnds(r)
    PROVE  Waiting'
  <1>. USE DEF WInv, AInv, IInv
  <1>0. /\ task \in [Requests -> Task] /\ InTasks \subseteq Requests
        /\ tasks \in Seq(Requests) /\ Len(tasks) \in Nat /\ Inj(tasks)
    BY TypeParts, PlacesTypes DEF Others, Places
  <1>1. idx \in 1 .. Len(tasks) /\ r = tasks[idx] /\ r \in InTasks /\ worker = "run"
    BY RunsFacts DEF TaskEnds
  <1>2. InTasks' = InTasks \ {r} /\ Len(tasks') = Len(tasks) - 1
    BY <1>0, <1>1, WithoutFacts, ElemsOf DEF TaskEnds
  <1>3. \A q \in Requests \ {r} : task'[q] = task[q]
    BY <1>0 DEF TaskEnds
  <1>4. ~task'[r].pending
    BY <1>0 DEF TaskEnds, NoTask
  <1>5. ASSUME NEW i \in 1 .. Len(tasks'), i >= idx
        PROVE  ~task'[tasks'[i]].pending
    <2>1. PICK k \in 1 .. Len(tasks) : k >= idx /\ tasks'[i] = tasks[k]
      <3>1. tasks'[i] = IF i = idx THEN tasks[Len(tasks)] ELSE tasks[i]
        BY <1>0, <1>2, <1>5 DEF TaskEnds, Without
      <3>2. i \in 1 .. Len(tasks) /\ Len(tasks) \in 1 .. Len(tasks) /\ Len(tasks) >= idx
        BY <1>0, <1>1, <1>2
      <3>. QED  BY <1>5, <3>1, <3>2
    <2>2. tasks[k] \in Requests
      BY <1>0, ElementOfSeq
    <2>. QED  BY <1>1, <1>3, <1>4, <2>1, <2>2 DEF Waiting
  <1>6. \A q \in Requests : task'[q].pending => q \in InTasks'
    BY <1>2, <1>3, <1>4 DEF Waiting
  <1>7. worker' = "round" /\ idx' = idx
    BY DEF TaskEnds
  <1>. QED  BY <1>5, <1>6, <1>7 DEF Waiting

\* A batch serves every task that waits, or gives it up.
LEMMA WaitingBatch ==
    ASSUME WInv, DecodeBatch
    PROVE  Waiting'
  <1>. USE DEF WInv, AInv, IInv
  <1>0. /\ task \in [Requests -> Task] /\ InTasks \subseteq Requests
    BY TypeParts, PlacesTypes DEF Others
  <1>1. worker' = "look"
    BY DEF DecodeBatch
  <1>. DEFINE batch == {r \in Collected : ~interrupt[Slot(r)]}
  <1>2. PICK bad \in SUBSET batch :
            task' = [r \in Requests |-> IF r \in Collected THEN Result(r, batch, bad) ELSE task[r]]
    BY DEF DecodeBatch
  <1>. HIDE DEF batch
  <1>3. \A r \in Requests : r \in Collected <=> r \in InTasks /\ task[r].pending
    BY DEF Collected, InTasks
  <1>4. \A r \in Requests : ~task'[r].pending
    <2>1. \A r \in Requests : ~Result(r, batch, bad).pending
      BY <1>0 DEF Result, Task
    <2>2. \A r \in Requests : r \notin Collected => ~task[r].pending
      BY <1>3 DEF Waiting
    <2>. QED  BY <1>2, <2>1, <2>2
  <1>5. InTasks' \subseteq Requests
    BY <1>0, ElemsOf DEF DecodeBatch, stateVars
  <1>. QED  BY <1>1, <1>4, <1>5 DEF Waiting

\* A task starts without waiting.
LEMMA WaitingStart ==
    ASSUME WInv, StartTask
    PROVE  Waiting'
  <1>. USE DEF WInv, AInv, IInv
  <1>0. /\ task \in [Requests -> Task] /\ InTasks \subseteq Requests /\ tasks \in Seq(Requests)
    BY TypeParts, PlacesTypes DEF Others
  <1>1. hand \in Requests /\ hand \notin InTasks
    BY DEF StartTask, Places, TypeOK
  <1>2. InTasks' = InTasks \cup {hand}
    BY <1>0, <1>1, AppendFacts, ElemsOf DEF StartTask
  <1>3. \A q \in Requests : task'[q].pending = task[q].pending
    BY <1>0, <1>1 DEF StartTask, Task
  <1>4. ~task[hand].pending /\ \A q \in InTasks : ~task[q].pending
    BY <1>1 DEF Waiting, StartTask
  <1>5. worker' = "admit"
    BY DEF StartTask
  <1>. QED  BY <1>0, <1>1, <1>2, <1>3, <1>4, <1>5 DEF Waiting

LEMMA WaitingRest ==
    ASSUME WInv, \/ WorkerStep /\ ~StartTask /\ ~DecodeBatch
                 \/ WorkerWakes \/ Stop \/ Closing \/ Terminated
    PROVE  Waiting'
  <1>. USE DEF WInv, AInv, IInv
  <1>0. idx \in Nat
    BY PlacesTypes DEF TypeOK
  <1>1. UNCHANGED <<tasks, task>>
    BY DEF WorkerStep, WorkerWakes, WorkerLooks, WorkerSleeps, WorkerChecks, AdmitMore, AdmitPop,
           AdmitNone, StartFails, StartNoSlot, PutBack, PutBackLate, FailEnds, Resume,
           stateVars, Stop, Closing, CancelBegins, CancelNext, CancelEnds, CancelOver,
           DaemonStopped, Free, Terminated, vars
  <1>2. /\ idx' \in Nat
        /\ \/ worker' = worker /\ idx' = idx
           \/ worker' \notin {"round", "run"} /\ worker \notin {"round", "run"}
           \/ worker' = "round" /\ worker \notin {"round", "run"}
           \/ worker' = "run" /\ worker = "round" /\ idx' = idx
    <2>1. CASE WorkerStep /\ ~StartTask /\ ~DecodeBatch
      BY <1>0, <2>1 DEF WorkerStep, WorkerLooks, WorkerSleeps, WorkerChecks, AdmitMore, AdmitPop,
           AdmitNone, StartFails, StartNoSlot, PutBack, PutBackLate, FailEnds, Resume
    <2>2. CASE WorkerWakes \/ Stop \/ Closing \/ Terminated
      BY <1>0, <2>2 DEF WorkerWakes, Signalled, Stop, Closing, CancelBegins, CancelNext, CancelEnds,
           CancelOver, DaemonStopped, Free, Terminated, vars, wVars
    <2>. QED  BY <2>1, <2>2
  <1>3. \/ worker' = worker /\ idx' >= idx
        \/ worker' \notin {"round", "run"} /\ worker \notin {"round", "run"}
        \/ worker' = "round" /\ worker \notin {"round", "run"}
        \/ worker' = "run" /\ worker = "round" /\ idx' = idx
    BY <1>0, <1>2
  <1>. QED  BY <1>1, <1>2, <1>3, WaitingStays

LEMMA WaitingNext == WInv /\ Next => Waiting'
  <1>1. CASE \E r \in Requests : Post(r) \/ Disconnect(r) \/ Serve(r)
    BY <1>1, WaitingConn
  <1>2. CASE \E r \in Requests : EndJob(r) \/ Generate(r)
    BY <1>2, WaitingJob, WaitingFeeds, WaitingTaskEnds
  <1>3. CASE WorkerStep \/ WorkerWakes \/ Stop \/ Closing \/ Terminated
    BY <1>3, WaitingBatch, WaitingStart, WaitingRest
  <1>. QED  BY <1>1, <1>2, <1>3 DEF Next

-----------------------------------------------------------------------------
(* What a step leaves of a context that a job still holds.                 *)

Holds(q) == job[q] \notin {"none", "over"}

\* The steps of a job leave gone alone.
LEMMA GoneOfJob ==
    ASSUME TypeOK, NEW r \in Requests, EndJob(r) \/ (Generate(r) /\ ~TaskEnds(r))
    PROVE  \A q \in Requests : rc'[q].gone = rc[q].gone
  <1>0. rc \in [Requests -> Ctx] /\ rc[r] \in Ctx
    BY TypeParts
  <1>1. CASE FailJob(r) \/ QueueDone(r) \/ Begin(r) \/ Setup(r) \/ PrefillFails(r) \/ GenerationDone(r)
    <2>1. CASE FailJob(r)
      BY <1>0, <2>1 DEF FailJob, Ctx
    <2>2. CASE QueueDone(r)
      BY <1>0, <2>2 DEF QueueDone, Ctx
    <2>3. CASE Begin(r)
      BY <1>0, <2>3 DEF Begin, Ctx
    <2>4. CASE Setup(r)
      BY <1>0, <2>4 DEF Setup, Ctx
    <2>5. CASE PrefillFails(r)
      BY <1>0, <2>5 DEF PrefillFails, Ctx
    <2>6. CASE GenerationDone(r)
      BY <1>0, <2>6 DEF GenerationDone, Ctx
    <2>. QED  BY <1>1, <2>1, <2>2, <2>3, <2>4, <2>5, <2>6
  <1>2. CASE FinishChunk(r) \/ LastFrame(r)
    BY ZenonT(60), <1>0, <1>2 DEF FinishChunk, LastFrame, Ctx
  <1>3. CASE DecodeStops(r) \/ FeedStops(r)
    <2>1. PICK held \in BOOLEAN :
            rc' = [rc EXCEPT ![r].frames = @ \o Delta(r, held),
                             ![r].sentAny = @ \/ Delta(r, held) # <<>>]
      BY <1>3 DEF DecodeStops, FeedStops
    <2>. QED  BY <1>0, <2>1 DEF Ctx
  <1>4. CASE Token(r)
    <2>1. PICK piece \in {"send", "hold", "stop"} :
            rc' = [rc EXCEPT ![r].generated = @ + 1, ![r].frames = @ \o Delta(r, piece = "send"),
                             ![r].sentAny = @ \/ Delta(r, piece = "send") # <<>>]
      BY <1>4 DEF Token
    <2>. QED  BY <1>0, <2>1 DEF Ctx
  <1>5. CASE PrefillInterrupted(r) \/ PrefillYields(r) \/ PrefillDone(r) \/ FeedYields(r) \/ ClearInterrupt(r)
    BY <1>5 DEF PrefillInterrupted, PrefillYields, PrefillDone, FeedYields, ClearInterrupt
  <1>6. CASE EndJob(r)
    BY <1>1, <1>2, <1>6 DEF EndJob
  <1>7. CASE Generate(r) /\ ~TaskEnds(r)
    BY <1>1, <1>3, <1>4, <1>5, <1>7 DEF Generate
  <1>. QED  BY <1>6, <1>7

\* A departure is not forgotten while the job holds the context.
LEMMA GoneStays ==
    ASSUME WInv, Next, NEW q \in Requests, Holds(q), Holds(q)', rc[q].gone
    PROVE  rc'[q].gone
  <1>. USE DEF WInv, AInv, IInv
  <1>0. rc \in [Requests -> Ctx] /\ job \in [Requests -> JobLabels]
        /\ hand \in Requests \cup {None} /\ cancel \in Requests \cup {None}
    BY TypeParts DEF Others
  <1>1. ASSUME NEW r \in Requests, rc[r].refs \in Nat \ {0}, Unref(r),
               r = q => rc[r].refs >= 2
        PROVE  rc'[q].gone
    BY <1>0, <1>1, UnrefRefs
  <1>2. ASSUME NEW r \in Requests, PushRefused(r) \/ StoreInterrupt(r) \/ FreeResponse(r)
        PROVE  rc'[q].gone
    <2>1. rc[r].refs \in Nat \ {0} /\ Unref(r) /\ conn[r] \in {"push", "store", "free"}
      BY <1>2, RefsPositive DEF PushRefused, StoreInterrupt, FreeResponse
    <2>2. r = q => rc[r].refs >= 2
      <3>1. r = q => conn[r] # "push"
        BY DEF Places, Holds
      <3>. QED  BY <2>1, <3>1 DEF RefsCountHolders, One, HasResponse, Holds
    <2>. QED  BY <1>1, <2>1, <2>2
  <1>3. ASSUME NEW r \in Requests, TaskEnds(r) PROVE rc'[q].gone
    <2>1. rc[r].refs \in Nat \ {0} /\ Unref(r) /\ job'[r] = "over"
      BY <1>0, <1>3, RefsPositive DEF TaskEnds, Job
    <2>. QED  BY <1>1, <2>1 DEF Holds
  <1>4. ASSUME FailEnds PROVE rc'[q].gone
    <2>1. hand \in Requests /\ rc[hand].refs \in Nat \ {0} /\ Unref(hand) /\ job'[hand] = "over"
      BY <1>0, <1>4, RefsPositive DEF FailEnds, Places, Job
    <2>. QED  BY <1>1, <2>1 DEF Holds
  <1>5. ASSUME CancelEnds PROVE rc'[q].gone
    <2>1. cancel \in Requests /\ rc[cancel].refs \in Nat \ {0} /\ Unref(cancel) /\ job'[cancel] = "over"
      BY <1>0, <1>5, RefsPositive DEF CancelEnds, Job
    <2>. QED  BY <1>1, <2>1 DEF Holds
  <1>6. ASSUME NEW r \in Requests, Post(r) \/ Respond(r) \/ ReadFrame(r) \/ MarkGone(r)
        PROVE  rc'[q].gone
    <2>1. CASE Post(r)
      BY <1>0, <2>1 DEF Post, Ctx
    <2>2. CASE Respond(r)
      BY <1>0, <2>2 DEF Respond, Ctx
    <2>3. CASE ReadFrame(r)
      BY <1>0, <2>3 DEF ReadFrame, Ctx
    <2>4. CASE MarkGone(r)
      BY <1>0, <2>4 DEF MarkGone, Ctx
    <2>. QED  BY <1>6, <2>1, <2>2, <2>3, <2>4
  <1>7. ASSUME NEW r \in Requests, EndJob(r) \/ (Generate(r) /\ ~TaskEnds(r))
        PROVE  rc'[q].gone
    BY <1>7, GoneOfJob
  <1>8. ASSUME \/ \E r \in Requests : \/ Push(r) \/ RespondFails(r) \/ WaitDone(r) \/ ReadEnd(r)
                                      \/ Disconnect(r)
               \/ WorkerStep /\ ~FailEnds
               \/ WorkerWakes \/ Stop \/ (Closing /\ ~CancelEnds) \/ Terminated
        PROVE  rc' = rc
    BY <1>8 DEF Push, RespondFails, WaitDone, ReadEnd, Disconnect, WorkerStep, WorkerWakes,
         WorkerLooks, WorkerSleeps, WorkerChecks, AdmitMore, AdmitPop, AdmitNone, StartTask,
         StartFails, StartNoSlot, PutBack, PutBackLate, Resume, DecodeBatch, Stop, Closing,
         CancelBegins, CancelNext, CancelOver, DaemonStopped, Free, Terminated, vars
  <1>. QED  BY <1>2, <1>3, <1>4, <1>5, <1>6, <1>7, <1>8 DEF Next, Serve

\* Where a connection comes from that is through with its request.
LEMMA ConnMoves ==
    ASSUME TypeOK, Next, NEW q \in Requests, ~MarkGone(q),
           conn'[q] \in {"store", "free", "closed"}
    PROVE  conn[q] \in {"store", "free", "closed"}
  <1>0. conn \in [Requests -> ConnLabels]
    BY TypeParts DEF Others
  <1>1. CASE \E r \in Requests : Post(r) \/ Disconnect(r) \/ Serve(r)
    BY <1>0, <1>1 DEF Post, Disconnect, Serve, Push, Pushed, PushRefused, Respond, RespondFails,
         WaitDone, ReadFrame, ReadEnd, MarkGone, StoreInterrupt, FreeResponse, Conn
  <1>2. CASE \E r \in Requests : EndJob(r) \/ Generate(r)
    <2>1. conn' = conn
      BY <1>2 DEF EndJob, FailJob, FinishChunk, LastFrame, QueueDone, Generate, Begin, Setup,
           PrefillInterrupted, PrefillFails, PrefillYields, PrefillDone, DecodeStops, Token, FeedYields,
           FeedStops, ClearInterrupt, GenerationDone, TaskEnds, connVars
    <2>. QED  BY <2>1
  <1>3. CASE WorkerStep \/ WorkerWakes \/ Stop \/ Closing \/ Terminated
    <2>1. conn' = conn
      BY <1>3 DEF WorkerStep, WorkerWakes, WorkerLooks, WorkerSleeps, WorkerChecks, AdmitMore, AdmitPop,
           AdmitNone, StartTask, StartFails, StartNoSlot, PutBack, PutBackLate, FailEnds, Resume,
           DecodeBatch, Stop, Closing, CancelBegins, CancelNext, CancelEnds, CancelOver,
           DaemonStopped, Free, Terminated, vars, connVars
    <2>. QED  BY <2>1
  <1>. QED  BY <1>1, <1>2, <1>3 DEF Next

\* Only job_push makes a job.
LEMMA JobMoves ==
    ASSUME TypeOK, Places, Phases, Next, NEW q \in Requests, ~Push(q), Holds(q)'
    PROVE  Holds(q)
  <1>0. /\ job \in [Requests -> JobLabels] /\ queue \in Seq(Requests)
        /\ hand \in Requests \cup {None} /\ cancel \in Requests \cup {None}
    BY TypeParts DEF TypeOK
  <1>. USE DEF Holds, Job
  <1>1. ASSUME queue # <<>> PROVE Head(queue) \in Requests /\ job[Head(queue)] = "queued"
    BY <1>0, <1>1, TailFacts, ElemsOf DEF Places
  <1>2. CASE \E r \in Requests : Post(r) \/ Disconnect(r) \/ Serve(r)
    BY <1>0, <1>2 DEF Post, Disconnect, Serve, Push, Pushed, PushRefused, Respond, RespondFails,
         WaitDone, ReadFrame, ReadEnd, MarkGone, StoreInterrupt, FreeResponse
  <1>3. CASE \E r \in Requests : EndJob(r) \/ Generate(r)
    <2>1. PICK r \in Requests : EndJob(r) \/ Generate(r)
      BY <1>3
    <2>2. job[r] \notin {"none", "over"} /\ \E l : job' = job \/ job' = [job EXCEPT ![r] = l]
      BY <2>1 DEF EndJob, FailJob, FinishChunk, LastFrame, QueueDone, Generate, Begin, Setup,
           PrefillInterrupted, PrefillFails, PrefillYields, PrefillDone, DecodeStops, Token, FeedYields,
           FeedStops, ClearInterrupt, GenerationDone, TaskEnds
    <2>. QED  BY <1>0, <2>2
  <1>4. CASE AdmitPop \/ CancelNext
    BY <1>0, <1>1, <1>4 DEF AdmitPop, CancelNext
  <1>5. CASE StartTask \/ StartFails \/ StartNoSlot \/ PutBack \/ PutBackLate
    <2>1. hand \in Requests /\ job[hand] = "held"
      BY <1>0, <1>5 DEF StartTask, StartFails, StartNoSlot, PutBack, PutBackLate, Places
    <2>. QED  BY <1>0, <1>5, <2>1 DEF StartTask, StartFails, StartNoSlot, PutBack, PutBackLate
  <1>6. CASE FailEnds \/ CancelEnds
    BY <1>0, <1>6 DEF FailEnds, CancelEnds
  <1>7. CASE \/ WorkerLooks \/ WorkerSleeps \/ WorkerChecks \/ AdmitMore \/ AdmitNone \/ Resume
             \/ DecodeBatch \/ WorkerWakes \/ Stop \/ CancelBegins \/ CancelOver \/ DaemonStopped
             \/ Free \/ Terminated
    <2>1. job' = job
      BY <1>7 DEF WorkerLooks, WorkerSleeps, WorkerChecks, AdmitMore, AdmitNone, Resume, DecodeBatch,
           WorkerWakes, Stop, CancelBegins, CancelOver, DaemonStopped, Free, Terminated, vars
    <2>. QED  BY <2>1
  <1>. QED  BY <1>2, <1>3, <1>4, <1>5, <1>6, <1>7 DEF Next, WorkerStep, Closing

\* A connection marks its context before it is through, and a job is not
\* taken up again.
LEMMA MarksNext == WInv /\ Next => Marks'
  <1>. SUFFICES ASSUME WInv, Next, NEW q \in Requests,
                       Holds(q)', conn'[q] \in {"store", "free", "closed"}
                PROVE  rc'[q].gone
    BY DEF Marks, Holds
  <1>. USE DEF WInv, AInv, IInv
  <1>0. /\ rc \in [Requests -> Ctx] /\ job \in [Requests -> JobLabels] /\ conn \in [Requests -> ConnLabels]
        /\ hand \in Requests \cup {None} /\ cancel \in Requests \cup {None}
    BY TypeParts DEF Others
  <1>1. CASE MarkGone(q)
    BY <1>0, <1>1 DEF MarkGone, Ctx
  <1>2. CASE Push(q)
    BY <1>0, <1>2 DEF Push, Pushed, Conn
  <1>3. CASE ~MarkGone(q) /\ ~Push(q)
    <2>1. conn[q] \in {"store", "free", "closed"}
      BY <1>0, <1>3, ConnMoves
    <2>2. Holds(q)
      BY <1>0, <1>3, <2>1, JobMoves
    <2>. QED  BY <2>1, <2>2, GoneStays DEF Marks, Holds
  <1>. QED  BY <1>1, <1>2, <1>3

-----------------------------------------------------------------------------
(* What was computed for the tasks.                                        *)

\* A step that leaves the task of q and its history alone.
LEMMA ReadyStays ==
    ASSUME NEW q \in Requests, Ready(q), q \in InTasks' <=> q \in InTasks,
           work'[q] = work[q], task'[q].slot = task[q].slot,
           task'[q].pending = task[q].pending, task'[q].status = task[q].status,
           q \in InTasks =>
               /\ job'[q] = job[q] /\ rc'[q].generated = rc[q].generated
               /\ rc[q].gone => rc'[q].gone
               /\ Departed(q) => Departed(q)'
               /\ job[q] \in Generating /\ conn'[q] = "store" => live'[q]
               /\ job[q] \in Generating /\ Departed(q)' /\ ~work[q].wiped => interrupt'[task[q].slot]
    PROVE  Ready(q)'
  <1>1. Fresh(q)' <=> Fresh(q)
    BY DEF Fresh
  <1>2. CASE q \in InTasks
    <2>1. Counted(q)'
      BY <1>1, <1>2 DEF Ready, Counted, One
    <2>2. Leaves(q)'
      BY <1>2 DEF Ready, Leaves
    <2>. QED  BY <1>2, <2>1, <2>2 DEF Ready
  <1>3. CASE q \notin InTasks
    BY <1>1, <1>3 DEF Ready
  <1>. QED  BY <1>2, <1>3

\* The generation of q is over.
LEMMA ReadyEnding ==
    ASSUME NEW q \in Requests, Ready(q), q \in InTasks, q \in InTasks', ~task[q].pending,
           work'[q] = work[q], task'[q] = task[q],
           job'[q] \in {"clear", "done", "finish", "last", "producer", "release"},
           rc[q].gone => rc'[q].gone, conn'[q] = conn[q]
    PROVE  Ready(q)'
  <1>1. Counted(q)'
    BY DEF Counted
  <1>2. Leaves(q)'
    BY DEF Ready, Leaves, Generating, Departed
  <1>. QED  BY <1>1, <1>2 DEF Ready

\* The task that runs: it waits for nothing, and its client may have left.
LEMMA RunsReady ==
    ASSUME WInv, NEW r \in Requests, Runs(r)
    PROVE  /\ r \in InTasks /\ Counted(r) /\ Leaves(r) /\ ~task[r].pending
           /\ job[r] \notin {"none", "over"}
           /\ conn[r] = "store" \/ Departed(r) => rc[r].gone
  <1>. USE DEF WInv, AInv, IInv
  <1>1. idx \in 1 .. Len(tasks) /\ r = tasks[idx] /\ r \in InTasks /\ worker = "run"
    BY RunsFacts
  <1>2. idx >= idx
    BY <1>1
  <1>3. ~task[r].pending
    BY <1>1, <1>2 DEF Waiting
  <1>4. job[r] \in TaskLabels
    BY <1>1 DEF Places
  <1>. QED  BY <1>1, <1>3, <1>4 DEF Ready, TaskLabels, Marks, Departed

\* A step of the job of r leaves the other tasks alone.
LEMMA ReadyOthers ==
    ASSUME WInv, NEW r \in Requests, EndJob(r) \/ (Generate(r) /\ ~TaskEnds(r)),
           NEW q \in Requests, q # r
    PROVE  Ready(q)'
  <1>. USE DEF WInv, AInv, IInv
  <1>0. /\ task \in [Requests -> Task] /\ work \in [Requests -> Work] /\ interrupt \in [Slots -> BOOLEAN]
        /\ InTasks' = InTasks
    <2>1. tasks' = tasks
      BY DEF EndJob, FailJob, FinishChunk, LastFrame, QueueDone, Generate, Begin, Setup,
             PrefillInterrupted, PrefillFails, PrefillYields, PrefillDone, DecodeStops, Token, FeedYields,
             FeedStops, ClearInterrupt, GenerationDone, stateVars
    <2>. QED  BY <2>1, TypeParts DEF Others, InTasks
  <1>1. SameConn(q) /\ rc'[q] = rc[q] /\ job'[q] = job[q]
    BY JobStep
  <1>2. task'[q] = task[q] /\ work'[q] = work[q]
    BY <1>0 DEF EndJob, FailJob, FinishChunk, LastFrame, QueueDone, Generate, Begin, Setup,
           PrefillInterrupted, PrefillFails, PrefillYields, PrefillDone, DecodeStops, Token, FeedYields,
           FeedStops, ClearInterrupt, GenerationDone, PromptWork
  <1>3. ASSUME q \in InTasks, interrupt[task[q].slot] PROVE interrupt'[task[q].slot]
    <2>1. CASE Setup(r) \/ ClearInterrupt(r)
      <3>1. r \in InTasks
        BY <2>1, RunsFacts DEF Setup, ClearInterrupt
      <3>2. Slot(r) # Slot(q)
        BY <1>3, <3>1, SlotsApart
      <3>3. Slot(q) \in Slots /\ interrupt' = [interrupt EXCEPT ![Slot(r)] = FALSE]
        BY <1>3, <2>1 DEF SlotsInv, Setup, ClearInterrupt
      <3>. QED  BY <1>0, <1>3, <3>2, <3>3 DEF Slot
    <2>2. CASE Token(r)
      BY <1>0, <1>3, <2>2 DEF Token
    <2>3. CASE ~(Setup(r) \/ ClearInterrupt(r) \/ Token(r))
      BY <1>3, <2>3 DEF EndJob, FailJob, FinishChunk, LastFrame, QueueDone, Generate, Begin,
             PrefillInterrupted, PrefillFails, PrefillYields, PrefillDone, DecodeStops, FeedYields,
             FeedStops, GenerationDone, stateVars
    <2>. QED  BY <2>1, <2>2, <2>3
  <1>4. /\ Departed(q)' <=> Departed(q)
        /\ q \in InTasks /\ job[q] \in Generating /\ conn'[q] = "store" => live'[q]
        /\ q \in InTasks /\ job[q] \in Generating /\ Departed(q) /\ ~work[q].wiped =>
               interrupt'[task[q].slot]
    BY <1>1, <1>3 DEF SameConn, Departed, Ready, Leaves
  <1>. QED  BY <1>0, <1>1, <1>2, <1>4, ReadyStays

\* The own steps of a task, before and while it decodes.
LEMMA ReadyBegin ==
    ASSUME WInv, NEW r \in Requests, Begin(r)
    PROVE  Ready(r)'
  <1>. USE DEF WInv, AInv, IInv
  <1>1. /\ r \in InTasks /\ Counted(r) /\ Leaves(r) /\ ~task[r].pending
        /\ conn[r] = "store" \/ Departed(r) => rc[r].gone
    BY RunsReady DEF Begin
  <1>2. /\ UNCHANGED <<tasks, task, work, conn, live>> /\ InTasks' = InTasks
        /\ job[r] = "begin" /\ job'[r] = IF Dead(r) THEN "done" ELSE "setup"
    BY TypeParts DEF Begin, Job, Others, stateVars, connVars, InTasks
  <1>3. rc'[r].gone = rc[r].gone
    BY GoneOfJob DEF Generate, Begin
  <1>4. CASE Dead(r)
    BY <1>1, <1>2, <1>3, <1>4, ReadyEnding
  <1>5. CASE ~Dead(r)
    <2>1. ~rc[r].gone /\ conn[r] # "store" /\ ~Departed(r)
      BY <1>1, <1>5 DEF Dead
    <2>2. work[r] = NoWork /\ Fresh(r) /\ job'[r] = "setup"
      BY <1>1, <1>2, <1>5 DEF Counted
    <2>3. Counted(r)'
      BY <1>2, <2>2 DEF Counted, Fresh
    <2>4. Leaves(r)'
      BY <1>2, <2>1, <2>2 DEF Leaves, NoWork, Departed
    <2>. QED  BY <1>1, <1>2, <2>3, <2>4 DEF Ready
  <1>. QED  BY <1>4, <1>5

LEMMA ReadySetup ==
    ASSUME WInv, NEW r \in Requests, Setup(r)
    PROVE  Ready(r)'
  <1>. USE DEF WInv, AInv, IInv
  <1>0. /\ rc \in [Requests -> Ctx] /\ task \in [Requests -> Task] /\ work \in [Requests -> Work]
    BY TypeParts DEF Others
  <1>1. r \in InTasks /\ Counted(r) /\ Leaves(r)
    BY RunsReady DEF Setup
  <1>2. /\ UNCHANGED <<tasks, conn, live>> /\ InTasks' = InTasks
        /\ job[r] = "setup" /\ job'[r] = "prefill"
    BY TypeParts DEF Setup, Job, Others, connVars, InTasks
  <1>3. work[r] = NoWork /\ Fresh(r)
    BY <1>1, <1>2 DEF Counted
  <1>4. work'[r] = [NoWork EXCEPT !.wiped = Departed(r)]
    BY <1>0, <1>3 DEF Setup
  <1>5. work'[r].decoded = 0 /\ work'[r].late = 0 /\ ~work'[r].told /\ work'[r].wiped = Departed(r)
    BY <1>4 DEF NoWork
  <1>6. rc'[r].generated = 0
    BY <1>0 DEF Setup, Ctx
  <1>7. task'[r].pending = task[r].pending /\ task'[r].status = task[r].status
    BY <1>0 DEF Setup, Task
  <1>8. Counted(r)'
    BY <1>2, <1>3, <1>5, <1>6, <1>7 DEF Counted, Fresh
  <1>9. Leaves(r)'
    <2>1. Departed(r)' <=> Departed(r)
      BY <1>2 DEF Departed
    <2>2. conn[r] = "store" => live[r]
      BY <1>1, <1>2 DEF Leaves, Generating
    <2>. QED  BY <1>2, <1>3, <1>5, <1>7, <2>1, <2>2 DEF Leaves, Fresh
  <1>. QED  BY <1>1, <1>2, <1>8, <1>9 DEF Ready

\* A chunk of the prompt after the interrupt was stored: it had been cleared.
LEMMA ReadyPrefill ==
    ASSUME WInv, NEW r \in Requests, PrefillYields(r) \/ PrefillDone(r)
    PROVE  Ready(r)'
  <1>. USE DEF WInv, AInv, IInv
  <1>0. /\ rc \in [Requests -> Ctx] /\ task \in [Requests -> Task] /\ work \in [Requests -> Work]
    BY TypeParts DEF Others
  <1>1. r \in InTasks /\ Counted(r) /\ Leaves(r) /\ ~interrupt[Slot(r)] /\ job[r] = "prefill"
    BY RunsReady DEF PrefillYields, PrefillDone
  <1>2. /\ UNCHANGED <<tasks, conn, live, rc>> /\ InTasks' = InTasks /\ interrupt' = interrupt
        /\ job'[r] \in {"prefill", "decode"}
    BY <1>1, TypeParts DEF PrefillYields, PrefillDone, Job, Others, stateVars, connVars, InTasks
  <1>3. /\ work'[r].decoded = work[r].decoded /\ work'[r].late = work[r].late
        /\ work'[r].told = (work[r].told \/ Departed(r)) /\ work'[r].wiped = work[r].wiped
    BY <1>0 DEF PrefillYields, PrefillDone, PromptWork, Work
  <1>4. /\ task'[r].pending = task[r].pending /\ task'[r].status = task[r].status
        /\ task'[r].slot = task[r].slot
    BY <1>0 DEF PrefillYields, PrefillDone, Task
  <1>5. Departed(r) => work[r].wiped
    BY <1>1 DEF Leaves, Generating, Slot
  <1>6. Counted(r)'
    <2>1. Fresh(r) /\ Fresh(r)' /\ work[r].decoded = 0 /\ rc[r].generated = 0
      BY <1>1, <1>4 DEF Counted, Fresh
    <2>. QED  BY <1>2, <1>3, <2>1 DEF Counted, Fresh, One
  <1>7. Leaves(r)'
    <2>1. Departed(r)' <=> Departed(r)
      BY <1>2 DEF Departed
    <2>. QED  BY <1>1, <1>2, <1>3, <1>4, <1>5, <2>1 DEF Leaves, Generating
  <1>. QED  BY <1>1, <1>2, <1>6, <1>7 DEF Ready

\* A token is generated from the logits of the last batch.
LEMMA ReadyToken ==
    ASSUME WInv, NEW r \in Requests, Token(r)
    PROVE  Ready(r)'
  <1>. USE DEF WInv, AInv, IInv
  <1>0. /\ rc \in [Requests -> Ctx] /\ interrupt \in [Slots -> BOOLEAN] /\ work[r].decoded \in Nat
        /\ Slot(r) \in Slots
    BY TypeParts, RunsReady DEF Others, Work, Token, SlotsInv
  <1>1. r \in InTasks /\ Counted(r) /\ Leaves(r) /\ job[r] = "decode" /\ Fresh(r)
    BY RunsReady DEF Token, Fresh
  <1>2. /\ UNCHANGED <<tasks, task, work, conn, live>> /\ InTasks' = InTasks
        /\ job'[r] = "feed"
    BY TypeParts DEF Token, Job, Others, connVars, InTasks
  <1>3. PICK piece \in {"send", "hold", "stop"} :
          /\ rc' = [rc EXCEPT ![r].generated = @ + 1, ![r].frames = @ \o Delta(r, piece = "send"),
                              ![r].sentAny = @ \/ Delta(r, piece = "send") # <<>>]
          /\ interrupt' = IF Dead(r) \/ piece = "stop"
                          THEN [interrupt EXCEPT ![Slot(r)] = TRUE] ELSE interrupt
    BY DEF Token
  <1>4. rc'[r].generated = rc[r].generated + 1 /\ rc'[r].gone = rc[r].gone
    BY <1>0, <1>3 DEF Ctx
  <1>5. rc[r].generated = work[r].decoded
    BY <1>0, <1>1 DEF Counted, One
  <1>6. interrupt[task[r].slot] => interrupt'[task[r].slot]
    BY <1>0, <1>3 DEF Slot
  <1>7. Counted(r)'
    BY <1>1, <1>2, <1>4, <1>5 DEF Counted, Fresh
  <1>8. Leaves(r)'
    BY <1>1, <1>2, <1>4, <1>6 DEF Leaves, Generating, Departed
  <1>. QED  BY <1>1, <1>2, <1>7, <1>8 DEF Ready

\* A task waits only while its client is there.
LEMMA ReadyFeeds ==
    ASSUME WInv, NEW r \in Requests, FeedYields(r)
    PROVE  Ready(r)'
  <1>. USE DEF WInv, AInv, IInv
  <1>0. task \in [Requests -> Task] /\ work[r] \in Work
    BY TypeParts DEF Others
  <1>1. /\ r \in InTasks /\ Counted(r) /\ Leaves(r) /\ job[r] = "feed"
        /\ ~rc[r].gone /\ conn[r] # "store" /\ ~Departed(r)
    BY RunsReady DEF FeedYields, Dead
  <1>2. /\ UNCHANGED <<tasks, rc, work, conn, live>> /\ InTasks' = InTasks
        /\ job'[r] = "decode" /\ task'[r].pending
    BY <1>0, TypeParts DEF FeedYields, Job, Others, stateVars, connVars, InTasks, Task
  <1>3. Counted(r)'
    BY <1>1, <1>2 DEF Counted, Fresh, One
  <1>4. Leaves(r)'
    <2>1. work[r].late = 0 /\ ~work[r].told /\ ~work[r].wiped /\ ~Departed(r)'
      BY <1>1, <1>2 DEF Leaves, Departed
    <2>. QED  BY <1>1, <1>2, <2>1 DEF Leaves
  <1>. QED  BY <1>1, <1>2, <1>3, <1>4 DEF Ready

\* The other steps of a task end its generation or come after it.
LEMMA ReadyJob ==
    ASSUME WInv, NEW r \in Requests, EndJob(r) \/ (Generate(r) /\ ~TaskEnds(r))
    PROVE  \A q \in Requests : Ready(q)'
  <1>. USE DEF WInv, AInv, IInv
  <1>1. \A q \in Requests : q # r => Ready(q)'
    BY ReadyOthers
  <1>2. ASSUME \/ EndJob(r) \/ PrefillInterrupted(r) \/ PrefillFails(r) \/ DecodeStops(r)
               \/ FeedStops(r) \/ ClearInterrupt(r) \/ GenerationDone(r)
        PROVE  Ready(r)'
    <2>0. job \in [Requests -> JobLabels]
      BY TypeParts DEF Others
    <2>1. /\ UNCHANGED <<tasks, task, work, conn>> /\ InTasks' = InTasks
          /\ job'[r] \in {"clear", "done", "finish", "last", "producer", "release"}
      <3>1. UNCHANGED <<tasks, task, work, conn>>
        BY <1>2 DEF EndJob, FailJob, FinishChunk, LastFrame, QueueDone, PrefillInterrupted,
             PrefillFails, DecodeStops, FeedStops, ClearInterrupt, GenerationDone, stateVars, connVars
      <3>2. \E l \in {"clear", "done", "finish", "last", "producer", "release"} :
                job' = [job EXCEPT ![r] = l]
        BY <1>2 DEF EndJob, FailJob, FinishChunk, LastFrame, QueueDone, PrefillInterrupted,
             PrefillFails, DecodeStops, FeedStops, ClearInterrupt, GenerationDone, Job
      <3>. QED  BY <2>0, <3>1, <3>2 DEF InTasks
    <2>2. rc'[r].gone = rc[r].gone
      BY <1>2, GoneOfJob DEF Generate, TaskEnds, PrefillInterrupted, PrefillFails, DecodeStops,
             FeedStops, ClearInterrupt, GenerationDone
    <2>3. CASE r \in InTasks
      <3>1. Runs(r)
        BY <1>2, <2>3, ServerAssumption DEF AtIt, Places, EndJob, FailJob, FinishChunk, LastFrame,
               QueueDone, PrefillInterrupted, PrefillFails, DecodeStops, FeedStops, ClearInterrupt,
               GenerationDone
      <3>. QED  BY <2>1, <2>2, <2>3, <3>1, RunsReady, ReadyEnding
    <2>4. CASE r \notin InTasks
      BY <2>1, <2>4 DEF Ready, Fresh
    <2>. QED  BY <2>3, <2>4
  <1>3. Ready(r)'
    BY <1>2, ReadyBegin, ReadySetup, ReadyPrefill, ReadyToken, ReadyFeeds DEF Generate
  <1>. QED  BY <1>1, <1>3

\* The end of a task forgets what was computed for it.
LEMMA ReadyTaskEnds ==
    ASSUME WInv, NEW r \in Requests, TaskEnds(r)
    PROVE  \A q \in Requests : Ready(q)'
  <1>. USE DEF WInv, AInv, IInv
  <1>0. /\ task \in [Requests -> Task] /\ work \in [Requests -> Work] /\ job \in [Requests -> JobLabels]
        /\ tasks \in Seq(Requests) /\ Inj(tasks)
    BY TypeParts, PlacesTypes DEF Others, Places
  <1>1. idx \in 1 .. Len(tasks) /\ r = tasks[idx] /\ r \in InTasks
    BY RunsFacts DEF TaskEnds
  <1>2. InTasks' = InTasks \ {r}
    BY <1>0, <1>1, WithoutFacts, ElemsOf DEF TaskEnds
  <1>3. Ready(r)'
    <2>1. work'[r] = NoWork /\ task'[r] = NoTask
      BY <1>0 DEF TaskEnds
    <2>. QED  BY <1>2, <2>1 DEF Ready, Fresh, NoTask
  <1>4. ASSUME NEW q \in Requests, q # r PROVE Ready(q)'
    <2>1. rc[r].refs \in Nat \ {0} /\ Unref(r)
      BY RefsPositive DEF TaskEnds
    <2>2. rc'[q] = rc[q]
      BY <1>4, <2>1, UnrefRefs
    <2>3. /\ task'[q] = task[q] /\ work'[q] = work[q] /\ job'[q] = job[q]
          /\ UNCHANGED <<conn, live, interrupt>>
      BY <1>0, <1>4 DEF TaskEnds, Job, connVars
    <2>. QED  BY <1>2, <1>4, <2>2, <2>3, ReadyStays DEF Ready, Leaves, Departed
  <1>. QED  BY <1>3, <1>4

\* A task starts with nothing computed.
LEMMA ReadyStart ==
    ASSUME WInv, StartTask
    PROVE  \A q \in Requests : Ready(q)'
  <1>. USE DEF WInv, AInv, IInv
  <1>0. /\ task \in [Requests -> Task] /\ job \in [Requests -> JobLabels] /\ tasks \in Seq(Requests)
    BY TypeParts DEF Others
  <1>1. PICK h \in Requests : h = hand /\ h \notin InTasks /\ Ready(h)
    BY DEF StartTask, Places, TypeOK
  <1>2. InTasks' = InTasks \cup {h}
    BY <1>0, <1>1, AppendFacts, ElemsOf DEF StartTask
  <1>3. UNCHANGED <<work, rc, conn, live, interrupt>>
    BY DEF StartTask, connVars
  <1>4. \A q \in Requests : task'[q].pending = task[q].pending /\ task'[q].status = task[q].status
    BY <1>0, <1>1 DEF StartTask, Task
  <1>5. Ready(h)'
    <2>1. work[h] = NoWork /\ Fresh(h) /\ Fresh(h)'
      BY <1>1, <1>4 DEF Ready, Fresh
    <2>2. job'[h] = "begin"
      BY <1>0, <1>1 DEF StartTask, Job
    <2>. QED  BY <1>1, <1>2, <1>3, <2>1, <2>2 DEF Ready, Counted, Leaves, Fresh, NoWork, Generating
  <1>6. ASSUME NEW q \in Requests, q # h PROVE Ready(q)'
    <2>1. task'[q].slot = task[q].slot /\ job'[q] = job[q]
      BY <1>0, <1>1, <1>6 DEF StartTask, Job
    <2>. QED  BY <1>2, <1>3, <1>4, <1>6, <2>1, ReadyStays DEF Ready, Leaves, Departed
  <1>. QED  BY <1>5, <1>6

\* A batch computes a token for those it takes, and tells the others.
LEMMA ReadyBatch ==
    ASSUME WInv, DecodeBatch
    PROVE  \A q \in Requests : Ready(q)'
  <1>0. /\ task \in [Requests -> Task] /\ work \in [Requests -> Work]
        /\ \A q \in Requests : Ready(q)
    BY TypeParts DEF Others, WInv, AInv, IInv
  <1>1. UNCHANGED <<tasks, rc, job, conn, live, interrupt>> /\ InTasks' = InTasks
    BY DEF DecodeBatch, stateVars, connVars, InTasks
  <1>. DEFINE batch == {r \in Collected : ~interrupt[Slot(r)]}
  <1>2. PICK bad \in SUBSET batch :
            /\ task' = [r \in Requests |-> IF r \in Collected THEN Result(r, batch, bad) ELSE task[r]]
            /\ work' = [r \in Requests |-> IF r \in batch THEN TokenWork(r, r \notin bad) ELSE work[r]]
    BY DEF DecodeBatch
  <1>3. \A r \in Requests : /\ r \in Collected <=> r \in InTasks /\ task[r].pending
                            /\ r \in batch <=> r \in Collected /\ ~interrupt[Slot(r)]
    BY DEF Collected, InTasks
  <1>. HIDE DEF batch
  <1>4. ASSUME NEW q \in Requests, q \notin Collected PROVE Ready(q)'
    <2>1. task'[q] = task[q] /\ work'[q] = work[q]
      <3>1. q \notin batch
        BY <1>3, <1>4
      <3>. QED  BY <1>2, <1>4, <3>1
    <2>. QED  BY <1>0, <1>1, <1>4, <2>1, ReadyStays DEF Ready, Leaves, Departed
  <1>5. ASSUME NEW q \in Requests, q \in Collected PROVE Ready(q)'
    <2>1. /\ q \in InTasks /\ task[q].pending /\ job[q] = "decode" /\ Counted(q) /\ Leaves(q)
          /\ rc[q].generated = work[q].decoded + 1 /\ work[q].decoded \in Nat
          /\ work[q].late = 0 /\ ~work[q].told /\ ~work[q].wiped
      <3>1. q \in InTasks /\ task[q].pending /\ Counted(q) /\ Leaves(q)
        BY <1>0, <1>3, <1>5 DEF Ready
      <3>2. work[q].decoded \in Nat
        BY <1>0 DEF Work
      <3>. QED  BY <3>1, <3>2 DEF Counted, Leaves, Fresh, One
    <2>2. task'[q] = Result(q, batch, bad)
      BY <1>2, <1>5
    <2>3. /\ ~task'[q].pending /\ task'[q].slot = task[q].slot
          /\ task'[q].status = IF q \notin batch THEN "interrupted"
                               ELSE IF q \in bad THEN "failed" ELSE "ok"
      BY <1>0, <2>2 DEF Result, Task
    <2>4. CASE q \in batch
      <3>1. ~Departed(q)
        BY <1>3, <2>1, <2>4 DEF Leaves, Generating, Slot
      <3>2. work'[q] = TokenWork(q, q \notin bad)
        BY <1>2, <2>4
      <3>3. /\ work'[q].decoded = work[q].decoded + One(q \notin bad)
            /\ work'[q].late = One(rc[q].gone)
            /\ ~work'[q].told /\ ~work'[q].wiped
        BY <1>0, <2>1, <3>1, <3>2 DEF TokenWork, Work, One
      <3>4. Counted(q)'
        BY <1>1, <2>1, <2>3, <2>4, <3>3 DEF Counted, Fresh, One
      <3>5. Leaves(q)'
        BY <1>1, <2>1, <2>3, <3>1, <3>3 DEF Leaves, Departed, One
      <3>. QED  BY <1>1, <2>1, <3>4, <3>5 DEF Ready
    <2>5. CASE q \notin batch
      <3>1. work'[q] = work[q]
        BY <1>2, <2>5
      <3>2. Counted(q)'
        BY <1>1, <2>1, <2>3, <2>5, <3>1 DEF Counted, Fresh, One
      <3>3. Leaves(q)'
        BY <1>1, <2>1, <2>3, <3>1 DEF Leaves, Departed
      <3>. QED  BY <1>1, <2>1, <3>2, <3>3 DEF Ready
    <2>. QED  BY <2>4, <2>5
  <1>. QED  BY <1>4, <1>5

\* The number of tokens of a task is its own, the rest of its context is kept.
LEMMA GeneratedStays ==
    ASSUME WInv, NEW q \in InTasks,
           \/ \E r \in Requests : Post(r) \/ Disconnect(r) \/ Serve(r)
           \/ WorkerStep \/ WorkerWakes \/ Stop \/ Closing \/ Terminated
    PROVE  rc'[q].generated = rc[q].generated
  <1>. USE DEF WInv, AInv, IInv
  <1>0. /\ rc \in [Requests -> Ctx] /\ q \in Requests /\ None \notin Requests
        /\ hand \in Requests \cup {None} /\ cancel \in Requests \cup {None}
    BY TypeParts, PlacesTypes, ServerAssumption DEF Others
  <1>1. CASE \E r \in Requests : PushRefused(r) \/ StoreInterrupt(r) \/ FreeResponse(r)
    <2>1. PICK r \in Requests : PushRefused(r) \/ StoreInterrupt(r) \/ FreeResponse(r)
      BY <1>1
    <2>2. rc[r].refs \in Nat \ {0} /\ Unref(r) /\ conn[r] \in {"push", "store", "free"}
      BY <2>1, RefsPositive DEF PushRefused, StoreInterrupt, FreeResponse
    <2>3. r = q => rc[r].refs >= 2
      <3>1. r = q => job[r] \notin {"none", "over"} /\ conn[r] # "push"
        BY DEF Places, TaskLabels
      <3>. QED  BY <2>2, <3>1 DEF RefsCountHolders, One, HasResponse
    <2>. QED  BY <1>0, <2>2, <2>3, UnrefRefs
  <1>2. CASE FailEnds
    <2>1. hand \in Requests /\ hand \notin InTasks /\ rc[hand].refs \in Nat \ {0} /\ Unref(hand)
      BY <1>0, <1>2, RefsPositive DEF FailEnds, Places
    <2>. QED  BY <1>0, <2>1, UnrefRefs
  <1>3. CASE CancelEnds
    <2>1. cancel \in Requests /\ cancel \notin InTasks /\ rc[cancel].refs \in Nat \ {0} /\ Unref(cancel)
      BY <1>0, <1>3, RefsPositive DEF CancelEnds, Places
    <2>. QED  BY <1>0, <2>1, UnrefRefs
  <1>4. CASE \E r \in Requests : Post(r) \/ Respond(r) \/ ReadFrame(r) \/ MarkGone(r)
    <2>1. PICK r \in Requests : Post(r) \/ Respond(r) \/ ReadFrame(r) \/ MarkGone(r)
      BY <1>4
    <2>2. CASE Post(r)
      BY <1>0, <2>2 DEF Post, Ctx
    <2>3. CASE Respond(r)
      BY <1>0, <2>3 DEF Respond, Ctx
    <2>4. CASE ReadFrame(r)
      BY <1>0, <2>4 DEF ReadFrame, Ctx
    <2>5. CASE MarkGone(r)
      BY <1>0, <2>5 DEF MarkGone, Ctx
    <2>. QED  BY <2>1, <2>2, <2>3, <2>4, <2>5
  <1>5. CASE \/ \E r \in Requests : Push(r) \/ RespondFails(r) \/ WaitDone(r) \/ ReadEnd(r) \/ Disconnect(r)
             \/ WorkerStep /\ ~FailEnds
             \/ WorkerWakes \/ Stop \/ (Closing /\ ~CancelEnds) \/ Terminated
    <2>1. rc' = rc
      BY <1>5 DEF Push, RespondFails, WaitDone, ReadEnd, Disconnect, WorkerStep, WorkerWakes,
           WorkerLooks, WorkerSleeps, WorkerChecks, AdmitMore, AdmitPop, AdmitNone, StartTask,
           StartFails, StartNoSlot, PutBack, PutBackLate, Resume, DecodeBatch, Stop, Closing,
           CancelBegins, CancelNext, CancelOver, DaemonStopped, Free, Terminated, vars
    <2>. QED  BY <2>1
  <1>. QED  BY <1>1, <1>2, <1>3, <1>4, <1>5 DEF Serve

\* A connection that is through has stored its interrupt, if the task of its
\* request generates.
LEMMA ReadyConn ==
    ASSUME WInv, NEW r \in Requests, Post(r) \/ Disconnect(r) \/ Serve(r)
    PROVE  \A q \in Requests : Ready(q)'
  <1>. SUFFICES ASSUME NEW q \in Requests PROVE Ready(q)'
    OBVIOUS
  <1>0. /\ conn \in [Requests -> ConnLabels] /\ live \in [Requests -> BOOLEAN]
        /\ interrupt \in [Slots -> BOOLEAN] /\ Ready(q) /\ Next
    BY TypeParts DEF WInv, AInv, IInv, Others, Next
  <1>1. UNCHANGED <<tasks, task, work>> /\ InTasks' = InTasks
    BY DEF Post, Disconnect, Serve, Push, PushRefused, Respond, RespondFails, WaitDone,
           ReadFrame, ReadEnd, MarkGone, StoreInterrupt, FreeResponse, stateVars, InTasks
  <1>2. q \in InTasks => job'[q] = job[q] /\ job[q] \in TaskLabels
    <2>1. job \in [Requests -> JobLabels] /\ (q \in InTasks => job[q] \in TaskLabels)
      BY TypeParts DEF WInv, AInv, IInv, Others, Places
    <2>2. CASE Push(r)
      <3>1. job[r] = "none"
        BY <2>2 DEF Push, Pushed, Places, WInv, AInv, IInv
      <3>. QED  BY <2>1, <2>2, <3>1 DEF Push, Pushed, Job, TaskLabels
    <2>3. CASE ~Push(r)
      BY <2>1, <2>3 DEF Post, Disconnect, Serve, PushRefused, Respond, RespondFails, WaitDone,
             ReadFrame, ReadEnd, MarkGone, StoreInterrupt, FreeResponse
    <2>. QED  BY <2>2, <2>3
  <1>3. q \in InTasks => rc'[q].generated = rc[q].generated /\ (rc[q].gone => rc'[q].gone)
    BY <1>0, <1>2, GeneratedStays, GoneStays DEF Holds, TaskLabels
  <1>4. interrupt[task[q].slot] /\ q \in InTasks => interrupt'[task[q].slot]
    <2>1. q \in InTasks => task[q].slot \in Slots
      BY DEF WInv, AInv, IInv, SlotsInv, Slot
    <2>2. CASE StoreInterrupt(r)
      BY <1>0, <2>1, <2>2 DEF StoreInterrupt
    <2>3. CASE ~StoreInterrupt(r)
      BY <2>3 DEF Post, Disconnect, Serve, Push, PushRefused, Respond, RespondFails, WaitDone,
             ReadFrame, ReadEnd, MarkGone, FreeResponse, stateVars
    <2>. QED  BY <2>2, <2>3
  <1>5. ASSUME q \in InTasks
        PROVE  /\ Departed(q) => Departed(q)'
               /\ job[q] \in Generating /\ conn'[q] = "store" => live'[q]
               /\ job[q] \in Generating /\ Departed(q)' /\ ~work[q].wiped => interrupt'[task[q].slot]
    <2>1. /\ job[q] \in Generating /\ conn[q] = "store" => live[q]
          /\ job[q] \in Generating /\ Departed(q) /\ ~work[q].wiped => interrupt[task[q].slot]
      BY <1>0, <1>5 DEF Ready, Leaves
    <2>2. CASE MarkGone(r) /\ q = r
      <3>1. conn'[q] = "store" /\ live'[q] = ~rc[q].genDone /\ conn[q] = "mark"
        BY <1>0, <2>2 DEF MarkGone, Conn
      <3>2. job[q] \in Generating => ~rc[q].genDone
        BY <3>1 DEF WInv, AInv, Told, Answered, Unclosed, Over, Generating
      <3>. QED  BY <3>1, <3>2 DEF Departed
    <2>3. CASE StoreInterrupt(r) /\ q = r
      <3>1. conn[q] = "store" /\ conn'[q] \in {"free", "closed"}
        BY <1>0, <2>3 DEF StoreInterrupt, Conn
      <3>2. job[q] \in Generating => rc[q].sctx = task[q].slot /\ task[q].slot \in Slots
        BY <1>5 DEF WInv, AInv, IInv, SlotsInv, SlotsExclusive, Slot, Generating
      <3>3. job[q] \in Generating => interrupt'[task[q].slot]
        BY <1>0, <2>1, <2>3, <3>1, <3>2, ServerAssumption DEF StoreInterrupt, Slots
      <3>. QED  BY <3>1, <3>3 DEF Departed
    <2>4. CASE ~(MarkGone(r) \/ StoreInterrupt(r)) \/ q # r
      <3>1. /\ Departed(q)' <=> Departed(q)
            /\ conn'[q] = "store" => conn[q] = "store" /\ live'[q] = live[q]
        BY <1>0, <2>4 DEF Post, Disconnect, Serve, Push, Pushed, PushRefused, Respond, RespondFails,
             WaitDone, ReadFrame, ReadEnd, MarkGone, StoreInterrupt, FreeResponse, Conn, Departed
      <3>. QED  BY <1>4, <1>5, <2>1, <3>1
    <2>. QED  BY <2>2, <2>3, <2>4
  <1>. QED  BY <1>0, <1>1, <1>2, <1>3, <1>5, ReadyStays

LEMMA ReadyRest ==
    ASSUME WInv, \/ WorkerStep /\ ~StartTask /\ ~DecodeBatch
                 \/ WorkerWakes \/ Stop \/ Closing \/ Terminated
    PROVE  \A q \in Requests : Ready(q)'
  <1>. SUFFICES ASSUME NEW q \in Requests PROVE Ready(q)'
    OBVIOUS
  <1>0. /\ job \in [Requests -> JobLabels] /\ interrupt \in [Slots -> BOOLEAN] /\ Ready(q) /\ Next
    BY TypeParts DEF WInv, AInv, IInv, Others, Next
  <1>1. UNCHANGED <<tasks, task, work, conn, live>> /\ InTasks' = InTasks
    BY DEF WorkerStep, WorkerWakes, WorkerLooks, WorkerSleeps, WorkerChecks, AdmitMore, AdmitPop,
           AdmitNone, StartFails, StartNoSlot, PutBack, PutBackLate, FailEnds, Resume, InTasks,
           stateVars, connVars, Stop, Closing, CancelBegins, CancelNext, CancelEnds, CancelOver,
           DaemonStopped, Free, Terminated, vars
  <1>2. q \in InTasks => job'[q] = job[q] /\ job[q] \in TaskLabels
    <2>1. /\ q \in InTasks => job[q] \in TaskLabels /\ q # hand /\ q # cancel
          /\ queue # <<>> => Head(queue) \in Requests /\ job[Head(queue)] = "queued"
      <3>1. queue \in Seq(Requests)
        BY TypeParts DEF WInv, AInv, IInv, Others
      <3>. QED  BY <3>1, TailFacts, ElemsOf, ServerAssumption, PlacesTypes DEF WInv, AInv, IInv, Places
    <2>2. \E h, l : /\ job' = job \/ job' = [job EXCEPT ![h] = l]
                    /\ h \in {hand, cancel} \/ (queue # <<>> /\ h = Head(queue))
      BY DEF WorkerStep, WorkerWakes, WorkerLooks, WorkerSleeps, WorkerChecks, AdmitMore, AdmitPop,
             AdmitNone, StartFails, StartNoSlot, PutBack, PutBackLate, FailEnds, Resume, Job,
             Stop, Closing, CancelBegins, CancelNext, CancelEnds, CancelOver,
             DaemonStopped, Free, Terminated, vars
    <2>. QED  BY <1>0, <2>1, <2>2 DEF TaskLabels
  <1>3. q \in InTasks => rc'[q].generated = rc[q].generated /\ (rc[q].gone => rc'[q].gone)
    BY <1>0, <1>2, GeneratedStays, GoneStays DEF Holds, TaskLabels
  <1>4. q \in InTasks /\ interrupt[task[q].slot] => interrupt'[task[q].slot]
    <2>1. q \in InTasks => task[q].slot \in Slots
      BY DEF WInv, AInv, IInv, SlotsInv, Slot
    <2>2. CASE Resume
      BY <1>0, <2>1, <2>2 DEF Resume
    <2>3. CASE ~Resume
      BY <2>3 DEF WorkerStep, WorkerWakes, WorkerLooks, WorkerSleeps, WorkerChecks, AdmitMore, AdmitPop,
             AdmitNone, StartFails, StartNoSlot, PutBack, PutBackLate, FailEnds, stateVars,
             Stop, Closing, CancelBegins, CancelNext, CancelEnds, CancelOver,
             DaemonStopped, Free, Terminated, vars
    <2>. QED  BY <2>2, <2>3
  <1>. QED  BY <1>0, <1>1, <1>2, <1>3, <1>4, ReadyStays DEF Ready, Leaves, Departed

LEMMA NextWInv == WInv /\ [Next]_vars => WInv'
  <1>1. ASSUME WInv, Next PROVE Waiting' /\ Marks' /\ \A q \in Requests : Ready(q)'
    <2>1. CASE \E r \in Requests : Post(r) \/ Disconnect(r) \/ Serve(r)
      BY <1>1, <2>1, ReadyConn, WaitingNext, MarksNext
    <2>2. CASE \E r \in Requests : EndJob(r) \/ Generate(r)
      BY <1>1, <2>2, ReadyJob, ReadyTaskEnds, WaitingNext, MarksNext
    <2>3. CASE WorkerStep \/ WorkerWakes \/ Stop \/ Closing \/ Terminated
      BY <1>1, <2>3, ReadyBatch, ReadyStart, ReadyRest, WaitingNext, MarksNext
    <2>. QED  BY <1>1, <2>1, <2>2, <2>3 DEF Next
  <1>2. ASSUME WInv, UNCHANGED vars PROVE Waiting' /\ Marks' /\ \A q \in Requests : Ready(q)'
    <2>1. UNCHANGED <<tasks, task, work, conn, live, job, rc, interrupt, worker, idx>> /\ InTasks' = InTasks
      BY <1>2 DEF vars, stateVars, connVars, wVars, InTasks
    <2>2. Waiting' /\ Marks'
      BY <1>2, <2>1 DEF WInv, Waiting, Marks
    <2>3. ASSUME NEW q \in Requests PROVE Ready(q)'
      BY <1>2, <2>1, ReadyStays DEF WInv, Ready, Leaves, Departed
    <2>. QED  BY <2>2, <2>3
  <1>. QED  BY <1>1, <1>2, NextAInv DEF WInv

LEMMA InitWInv == Init => WInv
  <1>. SUFFICES ASSUME Init PROVE WInv
    OBVIOUS
  <1>1. InTasks = {} /\ Waiting /\ Marks
    BY DEF Init, Waiting, Marks, NoTask, InTasks
  <1>2. \A q \in Requests : Ready(q)
    BY <1>1 DEF Init, Ready, Fresh, NoTask
  <1>. QED  BY <1>1, <1>2, InitAInv DEF WInv

LEMMA WorkInductive == Spec => []WInv
  BY InitWInv, NextWInv, PTL DEF Spec

\* A task is never resumed while its token waits, and goes on to sample
\* exactly if the batch computed the last token it generated
\* (decode_batch_collect, run_decode_step, task_decode_step).
THEOREM ResumedTasks == Spec => []ResumedWithResult
  <1>1. WInv => ResumedWithResult
    <2>. SUFFICES ASSUME WInv, NEW r \in Requests, Runs(r)
                  PROVE  /\ ~task[r].pending
                         /\ job[r] = "decode" => (task[r].status = "ok" <=> work[r].decoded = rc[r].generated)
      BY DEF ResumedWithResult
    <2>1. Counted(r) /\ ~task[r].pending
      BY RunsReady
    <2>2. work[r].decoded \in Nat
      BY TypeParts DEF WInv, AInv, IInv, Others, Work
    <2>. QED  BY <2>1, <2>2 DEF Counted, Fresh, One
  <1>. QED  BY WorkInductive, <1>1, PTL

\* Once its client is marked gone, a request costs one more token at most, and
\* nothing at all once the interrupt is stored, unless run_generation clears
\* it: then its prompt, and no token (gen_mark_client_gone, run_generation,
\* gen_dead in gen_on_token and task_decode_step).
THEOREM AbandonedRequests == Spec => []AbandonedStops
  <1>1. WInv => AbandonedStops
    <2>. SUFFICES ASSUME WInv, NEW r \in Requests
                  PROVE  /\ work[r].late <= 1
                         /\ work[r].told => work[r].wiped /\ work[r].late = 0
      BY DEF AbandonedStops
    <2>. QED  BY DEF WInv, Ready, Leaves, NoWork
  <1>. QED  BY WorkInductive, <1>1, PTL

=============================================================================
