----------------------- MODULE OpenAiServerRefinement -----------------------
(***************************************************************************)
(* OpenAiServer implements RequestService for any number of requests and   *)
(* slots: requests start in the order they were accepted, at most --slots  *)
(* at a time, and each ends once.                                          *)
(*                                                                         *)
(* The requests in line are the one in the worker's hand, the one being    *)
(* cancelled and the queue, in this order.  The worker takes a request     *)
(* from the queue only while none is being cancelled, because sch_mtx is   *)
(* held throughout jobs_cancel (Phases); so taking a request and putting   *)
(* it back leave the line as it is.                                        *)
(***************************************************************************)
EXTENDS OpenAiServerProofs, FiniteSetTheorems

Line(h, c, q) == Held(h) \o Held(c) \o q
Ended == {r \in Requests : job[r] = "over"}

-----------------------------------------------------------------------------
(* The line.                                                               *)

LEMMA HeldType ==
    ASSUME NEW x \in Requests \cup {None}
    PROVE  Held(x) \in Seq(Requests)
  BY DEF Held

\* The line, by who holds a request of it.
LEMMA LineShape ==
    ASSUME NEW q \in Seq(Requests), None \notin Requests
    PROVE  /\ Line(None, None, q) = q
           /\ \A h \in Requests : Line(h, None, q) = <<h>> \o q
           /\ \A c \in Requests : Line(None, c, q) = <<c>> \o q
           /\ \A h, c \in Requests : Line(h, c, q) = <<h>> \o (<<c>> \o q)
  <1>1. <<>> \in Seq(Requests) /\ Held(None) = <<>> /\ <<>> \o <<>> = <<>> /\ <<>> \o q = q
    BY ConcatEmptySeq DEF Held
  <1>2. ASSUME NEW h \in Requests
        PROVE  <<h>> \in Seq(Requests) /\ Held(h) = <<h>> /\ <<h>> \o <<>> = <<h>> /\ <<>> \o <<h>> = <<h>>
    <2>1. <<h>> \in Seq(Requests)
      OBVIOUS
    <2>. QED  BY <2>1, ConcatEmptySeq DEF Held
  <1>3. ASSUME NEW h \in Requests, NEW c \in Requests
        PROVE  (<<h>> \o <<c>>) \o q = <<h>> \o (<<c>> \o q)
    BY <1>2, ConcatAssociative
  <1>. QED  BY <1>1, <1>2, <1>3 DEF Line

LEMMA LineType ==
    ASSUME NEW q \in Seq(Requests), NEW h \in Requests \cup {None}, NEW c \in Requests \cup {None}
    PROVE  /\ Line(h, c, q) \in Seq(Requests)
           /\ Elems(Line(h, c, q)) \subseteq ({h, c} \ {None}) \cup Elems(q)
  <1>1. Held(h) \in Seq(Requests) /\ Held(c) \in Seq(Requests)
    BY HeldType
  <1>2. Held(h) \o Held(c) \in Seq(Requests) /\ Line(h, c, q) \in Seq(Requests)
    BY <1>1, ConcatProperties DEF Line
  <1>3. ASSUME NEW s \in Seq(Requests), NEW t \in Seq(Requests)
        PROVE  Elems(s \o t) \subseteq Elems(s) \cup Elems(t)
    <2>. SUFFICES ASSUME NEW i \in 1 .. Len(s \o t) PROVE (s \o t)[i] \in Elems(s) \cup Elems(t)
      BY DEF Elems
    <2>1. /\ Len(s) \in Nat /\ Len(t) \in Nat /\ i \in 1 .. Len(s) + Len(t)
          /\ (s \o t)[i] = IF i <= Len(s) THEN s[i] ELSE t[i - Len(s)]
      BY ConcatProperties
    <2>2. CASE i <= Len(s)
      BY <2>1, <2>2 DEF Elems
    <2>3. CASE ~(i <= Len(s))
      <3>1. i - Len(s) \in 1 .. Len(t)
        BY <2>1, <2>3
      <3>. QED  BY <2>1, <2>3, <3>1 DEF Elems
    <2>. QED  BY <2>2, <2>3
  <1>4. Elems(Held(h)) \subseteq {h} \ {None} /\ Elems(Held(c)) \subseteq {c} \ {None}
    <2>1. Elems(<<>>) = {} /\ \A x : Elems(<<x>>) = {x}
      BY DEF Elems
    <2>. QED  BY <2>1 DEF Held
  <1>5. Elems(Held(h) \o Held(c)) \subseteq {h, c} \ {None}
    <2>1. Elems(Held(h) \o Held(c)) \subseteq Elems(Held(h)) \cup Elems(Held(c))
      BY <1>1, <1>3
    <2>. QED  BY <1>4, <2>1
  <1>6. Elems(Line(h, c, q)) \subseteq Elems(Held(h) \o Held(c)) \cup Elems(q)
    BY <1>2, <1>3 DEF Line
  <1>. QED  BY <1>2, <1>5, <1>6

LEMMA ConsShape ==
    ASSUME NEW h \in Requests, NEW q \in Seq(Requests)
    PROVE  /\ <<h>> \o q \in Seq(Requests) /\ <<h>> \o q # <<>> /\ Len(<<h>> \o q) = Len(q) + 1
           /\ Head(<<h>> \o q) = h /\ Tail(<<h>> \o q) = q
           /\ \A i \in 1 .. Len(q) : (<<h>> \o q)[i + 1] = q[i]
  <1>. DEFINE t == <<h>> \o q
  <1>1. /\ t \in Seq(Requests) /\ Len(t) = Len(q) + 1 /\ Len(q) \in Nat
        /\ t[1] = h /\ \A i \in 2 .. Len(t) : t[i] = q[i - 1]
    <2>1. <<h>> \in Seq(Requests) /\ Len(<<h>>) = 1 /\ <<h>>[1] = h
      OBVIOUS
    <2>. QED  BY <2>1, ConcatProperties
  <1>. HIDE DEF t
  <1>2. t # <<>>
    BY <1>1, EmptySeq
  <1>3. \A i \in 1 .. Len(q) : t[i + 1] = q[i]
    BY <1>1
  <1>4. Tail(t) \in Seq(Requests) /\ Len(Tail(t)) = Len(q) /\ \A i \in 1 .. Len(Tail(t)) : Tail(t)[i] = q[i]
    BY <1>1, <1>2, <1>3, HeadTailProperties
  <1>5. Tail(t) = q
    BY <1>4, SeqEqual
  <1>6. Head(t) = h
    BY <1>1
  <1>. QED  BY <1>1, <1>2, <1>3, <1>5, <1>6 DEF t

\* The one being cancelled stands before the queue ...
LEMMA LineTakes ==
    ASSUME NEW h \in Requests \cup {None}, NEW x \in Requests, NEW t \in Seq(Requests), None \notin Requests
    PROVE  Line(h, x, t) = Line(h, None, <<x>> \o t)
  <1>1. <<x>> \o t \in Seq(Requests)
    BY ConsShape
  <1>2. CASE h = None
    <2>1. Line(None, x, t) = <<x>> \o t
      BY LineShape
    <2>2. Line(None, None, <<x>> \o t) = <<x>> \o t
      BY <1>1, LineShape
    <2>. QED  BY <1>2, <2>1, <2>2
  <1>3. CASE h \in Requests
    <2>1. Line(h, x, t) = <<h>> \o (<<x>> \o t)
      BY <1>3, LineShape
    <2>2. Line(h, None, <<x>> \o t) = <<h>> \o (<<x>> \o t)
      BY <1>1, <1>3, LineShape
    <2>. QED  BY <2>1, <2>2
  <1>. QED  BY <1>2, <1>3

\* ... and the worker's before both.
LEMMA LineHead ==
    ASSUME NEW h \in Requests, NEW c \in Requests \cup {None}, NEW q \in Seq(Requests), None \notin Requests
    PROVE  /\ Line(h, c, q) # <<>> /\ Head(Line(h, c, q)) = h /\ Tail(Line(h, c, q)) = Line(None, c, q)
  <1>1. PICK t \in Seq(Requests) : Line(h, c, q) = <<h>> \o t /\ Line(None, c, q) = t
    <2>1. CASE c = None
      <3>1. Line(h, None, q) = <<h>> \o q /\ Line(None, None, q) = q
        BY LineShape
      <3>. QED  BY <2>1, <3>1
    <2>2. CASE c \in Requests
      <3>1. Line(h, c, q) = <<h>> \o (<<c>> \o q) /\ Line(None, c, q) = <<c>> \o q
        BY <2>2, LineShape
      <3>2. <<c>> \o q \in Seq(Requests)
        BY <2>2, ConsShape
      <3>. QED  BY <3>1, <3>2
    <2>. QED  BY <2>1, <2>2
  <1>2. <<h>> \o t # <<>> /\ Head(<<h>> \o t) = h /\ Tail(<<h>> \o t) = t
    BY ConsShape
  <1>. QED  BY <1>1, <1>2

\* A queue is its head and the rest.
LEMMA HeadFirst ==
    ASSUME NEW q \in Seq(Requests), q # <<>>
    PROVE  q = <<Head(q)>> \o Tail(q) /\ Head(q) \in Requests /\ Tail(q) \in Seq(Requests)
  <1>1. Head(q) \in Requests /\ Tail(q) \in Seq(Requests) /\ Len(Tail(q)) = Len(q) - 1
        /\ Head(q) = q[1] /\ \A i \in 1 .. Len(Tail(q)) : Tail(q)[i] = q[i + 1]
    BY HeadTailProperties
  <1>2. Len(q) \in Nat \ {0}
    BY EmptySeq
  <1>. DEFINE t == <<Head(q)>> \o Tail(q)
  <1>3. t \in Seq(Requests) /\ Len(t) = Len(q) /\ t[1] = Head(q) /\ \A i \in 2 .. Len(t) : t[i] = q[i]
    <2>1. <<Head(q)>> \in Seq(Requests) /\ Len(<<Head(q)>>) = 1 /\ <<Head(q)>>[1] = Head(q)
      BY <1>1
    <2>2. t \in Seq(Requests) /\ Len(t) = 1 + Len(Tail(q))
          /\ \A i \in 1 .. 1 + Len(Tail(q)) : t[i] = IF i <= 1 THEN <<Head(q)>>[i] ELSE Tail(q)[i - 1]
      BY <1>1, <2>1, ConcatProperties
    <2>3. Len(t) = Len(q) /\ t[1] = Head(q)
      BY <1>1, <1>2, <2>1, <2>2
    <2>4. ASSUME NEW i \in 2 .. Len(t) PROVE t[i] = q[i]
      <3>1. i - 1 \in 1 .. Len(Tail(q)) /\ t[i] = Tail(q)[i - 1]
        BY <1>1, <1>2, <2>2, <2>3
      <3>. QED  BY <1>1, <3>1
    <2>. QED  BY <2>2, <2>3, <2>4
  <1>. HIDE DEF t
  <1>4. \A i \in 1 .. Len(q) : q[i] = t[i]
    BY <1>1, <1>2, <1>3
  <1>5. q = t
    BY <1>3, <1>4, SeqEqual
  <1>. QED  BY <1>1, <1>5 DEF t

-----------------------------------------------------------------------------
(* The steps.                                                              *)

RSvars == <<Line(hand, cancel, queue), InTasks, Ended, shutting>>

LEMMA RSvarsIs == RS!vars = RSvars /\ RS!vars' = RSvars'
  BY DEF RS!vars, RSvars, Line, Ended

LEMMA RefinesInit == Init => RS!Init
  <1>. SUFFICES ASSUME Init PROVE RS!Init
    OBVIOUS
  <1>1. Line(None, None, <<>>) = <<>>
    <2>1. <<>> \in Seq(Requests) /\ Held(None) = <<>>
      BY DEF Held
    <2>. QED  BY <2>1, ConcatEmptySeq DEF Line
  <1>2. InTasks = {}
    BY DEF Init, InTasks
  <1>3. Ended = {}
    BY DEF Init, Ended
  <1>. QED  BY <1>1, <1>2, <1>3 DEF Init, RS!Init, Line, Ended

LEMMA ServerFacts ==
    ASSUME IInv
    PROVE  /\ queue \in Seq(Requests) /\ tasks \in Seq(Requests) /\ job \in [Requests -> JobLabels]
           /\ hand \in Requests \cup {None} /\ cancel \in Requests \cup {None} /\ None \notin Requests
           /\ Line(hand, cancel, queue) \in Seq(Requests)
  BY PlacesTypes, LineType DEF IInv

\* A request goes on, its labels being other than "over".
LEMMA EndedStays ==
    ASSUME IInv, NEW r \in Requests, NEW l, job[r] # "over", l # "over",
           job' = job \/ job' = [job EXCEPT ![r] = l]
    PROVE  Ended' = Ended
  <1>1. \A q \in Requests : job'[q] = "over" <=> job[q] = "over"
    BY ServerFacts
  <1>. QED  BY <1>1 DEF Ended

LEMMA EndedGrows ==
    ASSUME IInv, NEW r \in Requests, job' = [job EXCEPT ![r] = "over"]
    PROVE  Ended' = Ended \cup {r}
  <1>1. \A q \in Requests : job'[q] = "over" <=> job[q] = "over" \/ q = r
    BY ServerFacts
  <1>. QED  BY <1>1 DEF Ended

LEMMA RefinesStay ==
    ASSUME UNCHANGED <<hand, cancel, queue, tasks, shutting>>, Ended' = Ended
    PROVE  UNCHANGED RS!vars
  BY RSvarsIs DEF RSvars, InTasks, Line

LEMMA RefinesPush ==
    ASSUME IInv, NEW r \in Requests, Push(r)
    PROVE  RS!Accept(r)
  <1>. USE ServerFacts
  <1>1. job[r] = "none" /\ ~shutting /\ queue' = Append(queue, r) /\ job' = [job EXCEPT ![r] = "queued"]
        /\ UNCHANGED <<hand, cancel, tasks, shutting>>
    BY DEF Push, Pushed, Job, IInv, Places, mVars
  <1>2. cancel = None
    BY <1>1 DEF IInv, Phases
  <1>3. Line(hand, cancel, Append(queue, r)) = Append(Line(hand, cancel, queue), r)
    <2>1. Held(hand) \o Held(cancel) \in Seq(Requests) /\ <<r>> \in Seq(Requests)
      BY HeldType, ConcatProperties
    <2>2. Append(queue, r) = queue \o <<r>>
      BY AppendIsConcat
    <2>3. Append(Line(hand, cancel, queue), r) = Line(hand, cancel, queue) \o <<r>>
      BY AppendIsConcat
    <2>. DEFINE held == Held(hand) \o Held(cancel)
    <2>4. queue \in Seq(Requests) /\ held \in Seq(Requests)
      BY <2>1 DEF IInv, TypeOK, Others
    <2>5. Line(hand, cancel, queue) = held \o queue /\ Line(hand, cancel, Append(queue, r)) = held \o (queue \o <<r>>)
      BY <2>2 DEF Line
    <2>. HIDE DEF held
    <2>6. (held \o queue) \o <<r>> = held \o (queue \o <<r>>)
      <3>1. held \in Seq(Requests) /\ queue \in Seq(Requests) /\ <<r>> \in Seq(Requests)
        BY <2>4
      <3>. QED  BY ONLY <3>1, ConcatAssociative
    <2>. QED  BY <2>3, <2>5, <2>6
  <1>4. r \notin Elems(Line(hand, cancel, queue))
    <2>1. r # hand /\ r \notin Elems(queue)
      BY <1>1, ElemsOf DEF IInv, Places, EndLabels
    <2>2. Elems(Line(hand, cancel, queue)) \subseteq ({hand, cancel} \ {None}) \cup Elems(queue)
      BY LineType
    <2>. QED  BY <1>2, <2>1, <2>2
  <1>5. r \notin InTasks /\ r \notin Ended
    BY <1>1 DEF IInv, Places, TaskLabels, Ended
  <1>6. InTasks' = InTasks /\ Ended' = Ended
    <2>1. InTasks' = InTasks
      BY <1>1, ElemsOf
    <2>. QED  BY <1>1, <2>1, EndedStays
  <1>7. RS!InLine = Elems(Line(hand, cancel, queue))
    BY DEF RS!InLine, Elems, Line
  <1>8. Line(hand', cancel', queue') = Append(Line(hand, cancel, queue), r)
    BY <1>1, <1>3
  <1>. QED  BY <1>1, <1>4, <1>5, <1>6, <1>7, <1>8 DEF RS!Accept, Line, Ended

\* A request is taken out of the line, and its task is over.
LEMMA RefinesTaskEnds ==
    ASSUME IInv, NEW r \in Requests, TaskEnds(r)
    PROVE  RS!Finish(r)
  <1>1. r \in InTasks /\ InTasks' = InTasks \ {r}
    <2>1. idx \in 1 .. Len(tasks) /\ r = tasks[idx] /\ r \in InTasks
      BY RunsFacts DEF TaskEnds, IInv
    <2>. QED  BY <2>1, ServerFacts, WithoutFacts, ElemsOf DEF TaskEnds, IInv, Places
  <1>2. Ended' = Ended \cup {r}
    BY EndedGrows DEF TaskEnds, Job
  <1>3. UNCHANGED <<hand, cancel, queue, shutting>>
    BY DEF TaskEnds, mVars
  <1>4. Line(hand, cancel, queue)' = Line(hand, cancel, queue)
    BY <1>3 DEF Line
  <1>. QED  BY <1>1, <1>2, <1>3, <1>4 DEF RS!Finish, Line, Ended

\* Taking a request from the queue and putting it back leave the line alone:
\* nobody is being cancelled meanwhile.
LEMMA RefinesHand ==
    ASSUME IInv, AdmitPop \/ PutBack \/ CancelNext
    PROVE  UNCHANGED RS!vars
  <1>. USE ServerFacts
  <1>1. CASE AdmitPop
    <2>1. /\ hand = None /\ cancel = None /\ queue # <<>> /\ hand' = Head(queue) /\ queue' = Tail(queue)
          /\ job' = [job EXCEPT ![Head(queue)] = "held"] /\ UNCHANGED <<cancel, tasks, shutting>>
      BY <1>1, ServerAssumption DEF AdmitPop, Job, IInv, Places, Phases, mVars
    <2>2. Head(queue) \in Requests /\ Tail(queue) \in Seq(Requests) /\ queue = <<Head(queue)>> \o Tail(queue)
      BY <2>1, HeadFirst
    <2>3. Line(Head(queue), None, Tail(queue)) = queue /\ Line(None, None, queue) = queue
      BY <2>2, LineShape
    <2>4. job[Head(queue)] = "queued"
      BY <2>1, PopFacts DEF IInv
    <2>5. Ended' = Ended
      BY <2>1, <2>2, <2>4, EndedStays
    <2>6. Line(hand, cancel, queue)' = Line(hand, cancel, queue)
      BY <2>1, <2>3
    <2>. QED  BY <2>1, <2>5, <2>6, RSvarsIs DEF RSvars, InTasks
  <1>2. CASE PutBack
    <2>1. /\ hand \in Requests /\ cancel = None /\ job[hand] = "held" /\ hand' = None /\ queue' = <<hand>> \o queue
          /\ job' = [job EXCEPT ![hand] = "queued"] /\ UNCHANGED <<cancel, tasks, shutting>>
      BY <1>2 DEF PutBack, Job, IInv, Places, Phases, mVars
    <2>2. <<hand>> \o queue \in Seq(Requests)
      BY <2>1, ConsShape
    <2>3. Line(None, None, <<hand>> \o queue) = <<hand>> \o queue /\ Line(hand, None, queue) = <<hand>> \o queue
      BY <2>1, <2>2, LineShape
    <2>4. Ended' = Ended
      BY <2>1, EndedStays
    <2>5. Line(hand, cancel, queue)' = Line(hand, cancel, queue)
      BY <2>1, <2>3
    <2>. QED  BY <2>1, <2>4, <2>5, RSvarsIs DEF RSvars, InTasks
  <1>3. CASE CancelNext
    <2>1. /\ cancel = None /\ queue # <<>> /\ cancel' = Head(queue) /\ queue' = Tail(queue)
          /\ job' = [job EXCEPT ![Head(queue)] = "fail"] /\ UNCHANGED <<hand, tasks, shutting>>
      BY <1>3 DEF CancelNext, Job, wVars
    <2>2. Head(queue) \in Requests /\ Tail(queue) \in Seq(Requests) /\ queue = <<Head(queue)>> \o Tail(queue)
      BY <2>1, HeadFirst
    <2>3. Line(hand, Head(queue), Tail(queue)) = Line(hand, None, queue)
      <3>1. Line(hand, Head(queue), Tail(queue)) = Line(hand, None, <<Head(queue)>> \o Tail(queue))
        BY <2>2, LineTakes
      <3>2. <<Head(queue)>> \o Tail(queue) = queue
        BY <2>2
      <3>. QED  BY <3>1, <3>2
    <2>4. job[Head(queue)] = "queued"
      BY <2>1, PopFacts DEF IInv
    <2>5. Ended' = Ended
      BY <2>1, <2>2, <2>4, EndedStays
    <2>6. Line(hand, cancel, queue)' = Line(hand, cancel, queue)
      BY <2>1, <2>3
    <2>. QED  BY <2>1, <2>5, <2>6, RSvarsIs DEF RSvars, InTasks
  <1>. QED  BY <1>1, <1>2, <1>3

\* The first of the line.
LEMMA HandFirst ==
    ASSUME IInv, hand \in Requests
    PROVE  /\ Line(hand, cancel, queue) # <<>>
           /\ Head(Line(hand, cancel, queue)) = hand
           /\ Tail(Line(hand, cancel, queue)) = Line(None, cancel, queue)
  BY ServerFacts, LineHead

\* Both modules take Cardinality from FiniteSets.
LEMMA SameCardinality == RS!Cardinality(InTasks) = Cardinality(InTasks)
  BY DEF RS!Cardinality, Cardinality

LEMMA RefinesStart ==
    ASSUME IInv, StartTask
    PROVE  RS!Start
  <1>. USE ServerFacts
  <1>1. /\ hand \in Requests /\ hand \notin InTasks /\ job[hand] = "held" /\ Len(tasks) < SlotsCap
        /\ hand' = None /\ tasks' = Append(tasks, hand)
        /\ job' = [job EXCEPT ![hand] = "begin"] /\ UNCHANGED <<cancel, queue, shutting>>
    BY DEF StartTask, Job, IInv, Places, Phases, mVars
  <1>2. InTasks' = InTasks \cup {hand}
    BY <1>1, ElemsOf, AppendFacts
  <1>3. Cardinality(InTasks) < SlotsCap
    <2>1. /\ Len(tasks) \in Nat /\ IsFiniteSet(1 .. Len(tasks)) /\ Cardinality(1 .. Len(tasks)) = Len(tasks)
      <3>1. Len(tasks) \in Nat /\ Len(tasks) \in Int /\ 1 \in Int
        OBVIOUS
      <3>2. /\ IsFiniteSet(1 .. Len(tasks))
            /\ Cardinality(1 .. Len(tasks)) = IF 1 > Len(tasks) THEN 0 ELSE Len(tasks) - 1 + 1
        BY <3>1, FS_Interval
      <3>. QED  BY <3>1, <3>2
    <2>2. tasks \in Surjection(1 .. Len(tasks), InTasks)
      <3>1. tasks \in [1 .. Len(tasks) -> InTasks]
        BY LenProperties DEF InTasks
      <3>. QED  BY <3>1 DEF Surjection, InTasks
    <2>3. IsFiniteSet(InTasks) /\ Cardinality(InTasks) <= Len(tasks)
      BY <2>1, <2>2, FS_Surjection
    <2>4. Cardinality(InTasks) \in Nat
      BY <2>3, FS_CardinalityType
    <2>. QED  BY <1>1, <2>1, <2>3, <2>4, ServerAssumption
  <1>4. Ended' = Ended
    BY <1>1, EndedStays
  <1>5. Line(hand, cancel, queue)' = Tail(Line(hand, cancel, queue))
    BY <1>1, HandFirst
  <1>6. Line(hand, cancel, queue) # <<>> /\ InTasks' = InTasks \cup {Head(Line(hand, cancel, queue))}
    BY <1>1, <1>2, HandFirst
  <1>7. shutting' = shutting
    BY <1>1
  <1>. QED  BY <1>3, <1>4, <1>5, <1>6, <1>7, SameCardinality DEF RS!Start, Line, Ended

LEMMA RefinesFailEnds ==
    ASSUME IInv, FailEnds
    PROVE  RS!Fail
  <1>. USE ServerFacts
  <1>1. /\ hand \in Requests /\ hand' = None /\ job' = [job EXCEPT ![hand] = "over"]
        /\ UNCHANGED <<cancel, queue, tasks, shutting>>
    BY DEF FailEnds, Job, IInv, Places, mVars, stateVars
  <1>2. Ended' = Ended \cup {hand} /\ InTasks' = InTasks
    BY <1>1, EndedGrows, ElemsOf
  <1>3. Line(hand, cancel, queue)' = Tail(Line(hand, cancel, queue))
    BY <1>1, HandFirst
  <1>. QED  BY <1>1, <1>2, <1>3, HandFirst DEF RS!Fail, Line, Ended

\* jobs_cancel ends a request from behind the one in the worker's hand.
LEMMA SecondGoes ==
    ASSUME NEW h \in Requests, NEW c \in Requests, NEW q \in Seq(Requests)
    PROVE  LET w == <<h>> \o (<<c>> \o q)
           IN  /\ Len(w) \in Nat /\ 2 \in 1 .. Len(w) /\ w[2] = c
               /\ SubSeq(w, 1, 2 - 1) \o SubSeq(w, 2 + 1, Len(w)) = <<h>> \o q
  <1>. DEFINE t == <<c>> \o q
              w == <<h>> \o t
  <1>1. t \in Seq(Requests) /\ t # <<>> /\ Len(t) = Len(q) + 1 /\ t[1] = c /\ Tail(t) = q
    <2>1. Head(t) = t[1]
      OBVIOUS
    <2>. QED  BY <2>1, ConsShape
  <1>2. Len(q) \in Nat
    OBVIOUS
  <1>. HIDE DEF t
  <1>3. w \in Seq(Requests) /\ w # <<>> /\ Len(w) = Len(t) + 1 /\ Head(w) = h /\ Tail(w) = t
        /\ \A i \in 1 .. Len(t) : w[i + 1] = t[i]
    BY <1>1, ConsShape
  <1>4. w[1] = h
    BY <1>3
  <1>. HIDE DEF w
  <1>5. Len(w) \in Nat /\ 2 \in 1 .. Len(w) /\ 1 \in 1 .. Len(t) /\ Len(w) = Len(q) + 2
    BY <1>1, <1>2, <1>3
  <1>6. w[2] = c
    BY <1>1, <1>3, <1>5
  <1>7. SubSeq(w, 1, 1) = <<h>>
    <2>1. SubSeq(w, 1, 1) = <<w[1]>> \o SubSeq(w, 2, 1)
      BY <1>3, <1>5, SubSeqRecursiveFirst
    <2>2. SubSeq(w, 2, 1) = <<>>
      BY SubSeqEmpty
    <2>3. <<h>> \in Seq(Requests)
      OBVIOUS
    <2>. QED  BY <1>4, <2>1, <2>2, <2>3, ConcatEmptySeq
  <1>8. SubSeq(w, 3, Len(w)) = q
    <2>. DEFINE u == SubSeq(w, 3, Len(w))
    <2>1. \A i \in 3 .. Len(w) : w[i] \in Requests
      BY <1>3, <1>5, ElementOfSeq
    <2>2. u \in Seq(Requests) /\ Len(u) = Len(q) /\ \A i \in 1 .. Len(q) : u[i] = w[3 + i - 1]
      BY <1>2, <1>5, <2>1, SubSeqProperties
    <2>3. \A i \in 1 .. Len(q) : t[i + 1] = q[i]
      BY ConsShape DEF t
    <2>4. ASSUME NEW i \in 1 .. Len(q) PROVE u[i] = q[i]
      <3>1. i + 1 \in 1 .. Len(t) /\ u[i] = w[(i + 1) + 1]
        BY <1>1, <1>2, <2>2
      <3>. QED  BY <1>3, <2>3, <3>1
    <2>. HIDE DEF u
    <2>5. u = q
      BY <2>2, <2>4, SeqEqual
    <2>. QED  BY <2>5 DEF u
  <1>9. 2 - 1 = 1 /\ 2 + 1 = 3
    OBVIOUS
  <1>10. /\ Len(w) \in Nat /\ 2 \in 1 .. Len(w) /\ w[2] = c
         /\ SubSeq(w, 1, 2 - 1) \o SubSeq(w, 2 + 1, Len(w)) = <<h>> \o q
    BY <1>5, <1>6, <1>7, <1>8, <1>9
  <1>. QED  BY <1>10 DEF w, t

LEMMA RefinesCancelEnds ==
    ASSUME IInv, CancelEnds
    PROVE  RS!Fail \/ \E i \in 1 .. Len(Line(hand, cancel, queue)) : RS!Cancel(i)
  <1>. USE ServerFacts
  <1>1. /\ cancel \in Requests /\ shutting /\ cancel' = None /\ job' = [job EXCEPT ![cancel] = "over"]
        /\ UNCHANGED <<hand, queue, tasks, shutting>>
    BY DEF CancelEnds, Job, IInv, Phases, wVars, stateVars
  <1>2. Ended' = Ended \cup {cancel} /\ InTasks' = InTasks
    BY <1>1, EndedGrows, ElemsOf
  <1>3. CASE hand = None
    <2>1. Line(hand, cancel, queue) = <<cancel>> \o queue /\ Line(hand, cancel, queue)' = queue
      BY <1>1, <1>3, LineShape
    <2>. QED  BY SMTT(30), <1>1, <1>2, <2>1, ConsShape DEF RS!Fail, Line, Ended
  <1>4. CASE hand \in Requests
    <2>1. /\ Line(hand, cancel, queue) = <<hand>> \o (<<cancel>> \o queue)
          /\ Line(hand, cancel, queue)' = <<hand>> \o queue
      BY <1>1, <1>4, LineShape
    <2>2. RS!Cancel(2) /\ 2 \in 1 .. Len(Line(hand, cancel, queue))
      BY <1>1, <1>2, <1>4, <2>1, SecondGoes DEF RS!Cancel, Line, Ended
    <2>. QED  BY <2>2
  <1>. QED  BY <1>3, <1>4

LEMMA RefinesStop ==
    ASSUME IInv, Stop
    PROVE  RS!Stop
  <1>1. UNCHANGED <<hand, cancel, queue, tasks, job>> /\ shutting' = TRUE
    BY DEF Stop, wVars
  <1>2. Ended' = Ended /\ InTasks' = InTasks /\ Line(hand, cancel, queue)' = Line(hand, cancel, queue)
    BY <1>1 DEF Ended, InTasks, Line
  <1>. QED  BY <1>1, <1>2 DEF RS!Stop, Line, Ended

\* The steps RequestService does not see.
LEMMA RefinesOthers ==
    ASSUME IInv,
           \/ \E r \in Requests : \/ Post(r) \/ Disconnect(r) \/ (Serve(r) /\ ~Push(r))
                                  \/ EndJob(r) \/ (Generate(r) /\ ~TaskEnds(r))
           \/ WorkerLooks \/ WorkerSleeps \/ WorkerChecks \/ AdmitMore \/ AdmitNone \/ StartFails
           \/ StartNoSlot \/ PutBackLate \/ Resume \/ DecodeBatch \/ WorkerWakes
           \/ CancelBegins \/ CancelOver \/ DaemonStopped \/ Free \/ UNCHANGED vars
    PROVE  UNCHANGED RS!vars
  <1>1. ASSUME NEW r \in Requests, Post(r) \/ Disconnect(r) \/ (Serve(r) /\ ~Push(r))
        PROVE  UNCHANGED RS!vars
    <2>1. UNCHANGED <<hand, cancel, queue, tasks, shutting, job>>
      BY <1>1 DEF Post, Disconnect, Serve, PushRefused, Respond, RespondFails, WaitDone,
                  ReadFrame, ReadEnd, MarkGone, StoreInterrupt, FreeResponse, stateVars, wVars, mVars
    <2>. QED  BY <2>1, RefinesStay DEF Ended
  <1>2. ASSUME NEW r \in Requests, EndJob(r) \/ (Generate(r) /\ ~TaskEnds(r))
        PROVE  UNCHANGED RS!vars
    <2>1. UNCHANGED <<hand, cancel, queue, tasks, shutting>>
      BY <1>2 DEF EndJob, FailJob, FinishChunk, LastFrame, QueueDone, Generate, Begin, Setup, Yield,
           PrefillInterrupted, PrefillFails, PrefillYields, PrefillDone, DecodeStops, Token, FeedYields,
           FeedStops, ClearInterrupt, GenerationDone, stateVars, wVars, mVars
    <2>2. job[r] # "over" /\ \E l : l # "over" /\ (job' = job \/ job' = [job EXCEPT ![r] = l])
      BY <1>2 DEF EndJob, FailJob, FinishChunk, LastFrame, QueueDone, Generate, Begin, Setup, Job,
           PrefillInterrupted, PrefillFails, PrefillYields, PrefillDone, DecodeStops, Token, FeedYields,
           FeedStops, ClearInterrupt, GenerationDone
    <2>. QED  BY <2>1, <2>2, EndedStays, RefinesStay
  <1>3. CASE StartFails \/ StartNoSlot \/ PutBackLate
    <2>1. UNCHANGED <<hand, cancel, queue, tasks, shutting>>
      BY <1>3 DEF StartFails, StartNoSlot, PutBackLate, stateVars, mVars
    <2>2. hand \in Requests /\ job[hand] # "over"
          /\ \E l : l # "over" /\ (job' = job \/ job' = [job EXCEPT ![hand] = l])
      BY <1>3, ServerFacts DEF StartFails, StartNoSlot, PutBackLate, Job, IInv, Places
    <2>. QED  BY <2>1, <2>2, EndedStays, RefinesStay
  <1>4. CASE \/ WorkerLooks \/ WorkerSleeps \/ WorkerChecks \/ AdmitMore \/ AdmitNone
             \/ Resume \/ DecodeBatch \/ WorkerWakes
             \/ CancelBegins \/ CancelOver \/ DaemonStopped \/ Free \/ UNCHANGED vars
    <2>1. UNCHANGED <<hand, cancel, queue, tasks, shutting, job>>
      BY <1>4 DEF WorkerLooks, WorkerSleeps, WorkerChecks, AdmitMore, AdmitNone, Resume, DecodeBatch,
                  WorkerWakes, CancelBegins, CancelOver, DaemonStopped, Free, vars, stateVars, wVars, mVars
    <2>. QED  BY <2>1, RefinesStay DEF Ended
  <1>. QED  BY <1>1, <1>2, <1>3, <1>4

LEMMA RefinesNext == IInv /\ [Next]_vars => [RS!Next]_(RS!vars)
  <1>. SUFFICES ASSUME IInv, [Next]_vars PROVE RS!Next \/ UNCHANGED RS!vars
    OBVIOUS
  <1>1. ASSUME NEW r \in Requests, Post(r) \/ Disconnect(r) \/ Serve(r) \/ Generate(r) \/ EndJob(r)
        PROVE  RS!Next \/ UNCHANGED RS!vars
    <2>1. CASE Push(r)
      BY <2>1, RefinesPush DEF RS!Next
    <2>2. CASE TaskEnds(r)
      BY <2>2, RefinesTaskEnds DEF RS!Next
    <2>3. CASE ~Push(r) /\ ~TaskEnds(r)
      BY <1>1, <2>3, RefinesOthers
    <2>. QED  BY <2>1, <2>2, <2>3
  <1>2. CASE WorkerStep \/ WorkerWakes
    BY <1>2, RefinesHand, RefinesStart, RefinesFailEnds, RefinesOthers DEF WorkerStep, RS!Next
  <1>3. CASE Stop \/ Closing \/ Terminated \/ UNCHANGED vars
    <2>1. CASE CancelEnds
      <3>1. RS!Fail \/ \E i \in 1 .. Len(Line(hand, cancel, queue)) : RS!Cancel(i)
        BY <2>1, RefinesCancelEnds
      <3>. QED  BY <3>1 DEF RS!Next, Line
    <2>2. CASE ~CancelEnds
      BY <1>3, <2>2, RefinesStop, RefinesHand, RefinesOthers DEF Closing, Terminated, RS!Next
    <2>. QED  BY <2>1, <2>2
  <1>. QED  BY <1>1, <1>2, <1>3 DEF Next

\* Requests start in the order they were accepted, at most --slots at a time,
\* and each ends once, whatever the interleaving of connections, worker and
\* stop (job_push, admit_jobs, task_start, task_finish, jobs_cancel).
THEOREM ServerImplementsService == Spec => ImplementsRequestService
  <1>1. Spec => []IInv
    BY ServerInductive
  <1>. QED  BY <1>1, RefinesInit, RefinesNext, PTL DEF Spec, ImplementsRequestService, RS!Spec
=============================================================================
