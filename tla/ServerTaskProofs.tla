-------------------------- MODULE ServerTaskProofs --------------------------
(***************************************************************************)
(* Proofs about ServerTask, for any tasks and any number of stretches.     *)
(*                                                                         *)
(* The invariant says who holds control: a task's running flag is set only *)
(* while the scheduler waits for that task, the task's function runs only  *)
(* while the flag is set, and the counters differ by the stretch that is   *)
(* still to be run.                                                        *)
(***************************************************************************)
EXTENDS ServerTask, TLAPS

One(b) == IF b THEN 1 ELSE 0

Over(t) == tpc[t] \in {"exited", "joined"}

Control ==
    \A t \in Tasks :
        /\ running[t] => spc = "wait" /\ cur = t
        /\ tpc[t] = "fn" => running[t]
        /\ done[t] <=> Over(t)

Counters ==
    \A t \in Tasks :
        /\ resumes[t] = stretches[t] + One(running[t])
        /\ resumes[t] > 0 => \/ spc = "wait" /\ cur = t
                             \/ result[t] = done[t]

IInv == TypeOK /\ Control /\ Counters

LEMMA InitIInv == Init => IInv
  <1>. SUFFICES ASSUME Init PROVE IInv
    OBVIOUS
  <1>1. TypeOK
    BY DEF Init, TypeOK
  <1>2. Control
    BY DEF Init, Control, Over
  <1>3. Counters
    <2>. SUFFICES ASSUME NEW t \in Tasks
                  PROVE  /\ resumes[t] = stretches[t] + One(running[t])
                         /\ ~(resumes[t] > 0)
      BY DEF Counters
    <2>1. resumes[t] = 0 /\ stretches[t] = 0 /\ One(running[t]) = 0
      BY DEF Init, One
    <2>. QED  BY <2>1
  <1>. QED  BY <1>1, <1>2, <1>3 DEF IInv

\* What a stretch of a task leaves alone.
LEMMA StretchStep ==
    ASSUME IInv, NEW t \in Tasks, Yield(t) \/ Ends(t)
    PROVE  IInv'
  <1>1. CASE Yield(t)
    <2>1. TypeOK'
      BY <1>1 DEF IInv, TypeOK, Yield, Stretch, WakesScheduler
    <2>2. Control'
      BY <1>1 DEF IInv, TypeOK, Control, Over, Yield, Stretch
    <2>3. Counters'
      BY <1>1 DEF IInv, TypeOK, Control, Counters, One, Over, Yield, Stretch
    <2>. QED  BY <2>1, <2>2, <2>3 DEF IInv
  <1>2. CASE Ends(t)
    <2>1. TypeOK'
      BY <1>2 DEF IInv, TypeOK, Ends, Stretch, WakesScheduler
    <2>2. Control'
      BY <1>2 DEF IInv, TypeOK, Control, Over, Ends, Stretch
    <2>3. Counters'
      <3>. SUFFICES ASSUME NEW u \in Tasks
                    PROVE  /\ resumes'[u] = stretches'[u] + One(running'[u])
                           /\ resumes'[u] > 0 => \/ spc' = "wait" /\ cur' = u
                                                 \/ result'[u] = done'[u]
        BY DEF Counters
      <3>1. spc = "wait" /\ cur = t /\ spc' = "wait" /\ cur' = t /\ running[t]
        BY <1>2 DEF IInv, Control, Ends, Stretch
      <3>2. CASE u = t
        <4>1. One(running[t]) = 1 /\ One(running'[t]) = 0
          BY <1>2, <3>1 DEF IInv, TypeOK, Ends, One
        <4>2. resumes[t] = stretches[t] + 1
          BY <4>1 DEF IInv, Counters
        <4>3. resumes'[t] = resumes[t] /\ stretches'[t] = stretches[t] + 1
          BY <1>2 DEF IInv, TypeOK, Ends, Stretch
        <4>. QED  BY <3>1, <3>2, <4>1, <4>2, <4>3 DEF IInv, TypeOK
      <3>3. CASE u # t
        <4>1. /\ running'[u] = running[u] /\ done'[u] = done[u]
              /\ stretches'[u] = stretches[u]
              /\ resumes' = resumes /\ result' = result
          BY <1>2, <3>3 DEF IInv, TypeOK, Ends, Stretch
        <4>. QED  BY <3>1, <3>3, <4>1 DEF IInv, Counters, One
      <3>. QED  BY <3>2, <3>3
    <2>. QED  BY <2>1, <2>2, <2>3 DEF IInv
  <1>. QED  BY <1>1, <1>2

\* The scheduler's calls: only Resume hands control over.
LEMMA CallStep ==
    ASSUME IInv, NEW t \in Tasks, Create(t) \/ ResumeDone(t) \/ Resume(t) \/ Join(t)
    PROVE  IInv'
  <1>1. CASE Create(t)
    BY <1>1 DEF IInv, TypeOK, Control, Counters, One, Over, Create
  <1>2. CASE ResumeDone(t)
    BY <1>2 DEF IInv, TypeOK, Control, Counters, One, Over, ResumeDone
  <1>3. CASE Resume(t)
    <2>1. TypeOK'
      BY <1>3 DEF IInv, TypeOK, Resume, WakesTask
    <2>2. Control'
      BY <1>3 DEF IInv, TypeOK, Control, Over, Resume
    <2>3. Counters'
      BY <1>3 DEF IInv, TypeOK, Control, Counters, One, Over, Resume
    <2>. QED  BY <2>1, <2>2, <2>3 DEF IInv
  <1>4. CASE Join(t)
    BY <1>4 DEF IInv, TypeOK, Control, Counters, One, Over, Join
  <1>. QED  BY <1>1, <1>2, <1>3, <1>4

LEMMA SchedulerStepKeeps ==
    ASSUME IInv, SchedulerStep \/ SchedulerWakes
    PROVE  IInv'
  <1>1. CASE WaitsAgain
    BY <1>1 DEF IInv, TypeOK, Control, Counters, One, Over, WaitsAgain
  <1>2. CASE Resumed
    <2>1. TypeOK'
      BY <1>2 DEF IInv, TypeOK, Resumed
    <2>2. Control'
      BY <1>2 DEF IInv, TypeOK, Control, Over, Resumed
    <2>3. Counters'
      BY <1>2 DEF IInv, TypeOK, Control, Counters, One, Over, Resumed
    <2>. QED  BY <2>1, <2>2, <2>3 DEF IInv
  <1>3. CASE Joined
    BY <1>3 DEF IInv, TypeOK, Control, Counters, One, Over, Joined
  <1>4. CASE SchedulerWakes
    BY <1>4 DEF IInv, TypeOK, Control, Counters, One, Over, SchedulerWakes
  <1>. QED  BY <1>1, <1>2, <1>3, <1>4 DEF SchedulerStep

LEMMA TaskStepKeeps ==
    ASSUME IInv, NEW t \in Tasks, TaskStep(t) \/ TaskWakes(t)
    PROVE  IInv'
  <1>1. CASE Starts(t)
    BY <1>1 DEF IInv, TypeOK, Control, Counters, One, Over, Starts
  <1>2. CASE Yield(t) \/ Ends(t)
    BY <1>2, StretchStep
  <1>3. CASE Continues(t)
    BY <1>3 DEF IInv, TypeOK, Control, Counters, One, Over, Continues
  <1>4. CASE ParksAgain(t)
    BY <1>4 DEF IInv, TypeOK, Control, Counters, One, Over, ParksAgain
  <1>5. CASE TaskWakes(t)
    BY <1>5 DEF IInv, TypeOK, Control, Counters, One, Over, TaskWakes
  <1>. QED  BY <1>1, <1>2, <1>3, <1>4, <1>5 DEF TaskStep

\* The invariant is inductive.
THEOREM Inductive == Spec => []IInv
  <1>1. IInv /\ [Next]_vars => IInv'
    <2>. SUFFICES ASSUME IInv, [Next]_vars PROVE IInv'
      OBVIOUS
    <2>1. CASE \E t \in Tasks : Create(t) \/ ResumeDone(t) \/ Resume(t) \/ Join(t)
      BY <2>1, CallStep
    <2>2. CASE SchedulerStep \/ SchedulerWakes
      BY <2>2, SchedulerStepKeeps
    <2>3. CASE \E t \in Tasks : TaskStep(t) \/ TaskWakes(t)
      BY <2>3, TaskStepKeeps
    <2>4. CASE UNCHANGED vars
      BY <2>4 DEF IInv, TypeOK, Control, Counters, One, Over, vars
    <2>. QED  BY <2>1, <2>2, <2>3, <2>4 DEF Next, Terminated
  <1>. QED  BY InitIInv, <1>1, PTL DEF Spec

\* Every reachable state of a set of tasks is well typed (task.c).
THEOREM TaskTypeCorrect == Spec => []TypeOK
  <1>1. IInv => TypeOK
    BY DEF IInv
  <1>. QED  BY <1>1, Inductive, PTL

\* A task runs only while the scheduler waits in the resume of that task
\* (server_task_resume, server_task_yield).
THEOREM OneRunsAtATimeCorrect == Spec => []OneRunsAtATime
  <1>1. IInv => OneRunsAtATime
    BY DEF IInv, Control, OneRunsAtATime
  <1>. QED  BY <1>1, Inductive, PTL

\* A resume lets the task run one stretch and tells whether its function has
\* returned (server_task_resume, server_task_main).
THEOREM OneStretchPerResumeCorrect == Spec => []OneStretchPerResume
  <1>1. IInv => OneStretchPerResume
    <2>. SUFFICES ASSUME IInv, spc = "out", NEW t \in Tasks
                  PROVE  /\ stretches[t] = resumes[t]
                         /\ resumes[t] > 0 => result[t] = (tpc[t] \in {"exited", "joined"})
      BY DEF OneStretchPerResume
    <2>1. ~running[t]
      BY DEF IInv, Control
    <2>2. stretches[t] = resumes[t]
      BY <2>1 DEF IInv, TypeOK, Counters, One
    <2>3. resumes[t] > 0 => result[t] = done[t]
      BY DEF IInv, Counters
    <2>4. done[t] = Over(t)
      <3>1. done[t] \in BOOLEAN /\ (done[t] <=> Over(t))
        BY DEF IInv, TypeOK, Control
      <3>. QED  BY <3>1 DEF Over
    <2>. QED  BY <2>2, <2>3, <2>4 DEF Over
  <1>. QED  BY <1>1, Inductive, PTL

=============================================================================
