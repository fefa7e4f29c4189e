----------------------------- MODULE ServerTask -----------------------------
(***************************************************************************)
(* Generation tasks as threads (src/src/server/task.c where                *)
(* KAPPAI_TASK_UCONTEXT is 0): the scheduler, worker_main, and a task hand *)
(* control to each other with one flag, one mutex and one condition        *)
(* variable per task.  A critical section of the mutex is one step;        *)
(* pthread_cond_wait ends one and its return begins the next.  What a task *)
(* computes between two yields is a stretch.                               *)
(***************************************************************************)
EXTENDS Integers

CONSTANTS
    Tasks,
    MaxStretches,   \* bound: stretches of a task's function
    None            \* no task

ASSUME TaskAssumption ==
    /\ None \notin Tasks
    /\ MaxStretches \in Nat \ {0}

VARIABLES
    running, done,  \* of struct server_task
    tpc,            \* where a task's thread is; "none" before server_task_create
    awake,          \* the thread was woken in pthread_cond_wait
    spc,            \* where the scheduler is
    cur,            \* the task it resumes or joins
    spcAwake,       \* it was woken in pthread_cond_wait
    \* history
    resumes,        \* calls of server_task_resume that let the task run
    stretches,      \* stretches the task has run
    result          \* what the last server_task_resume of a task returned

vars == <<running, done, tpc, awake, spc, cur, spcAwake, resumes, stretches, result>>

Init ==
    /\ running = [t \in Tasks |-> FALSE]
    /\ done = [t \in Tasks |-> FALSE]
    /\ tpc = [t \in Tasks |-> "none"]
    /\ awake = [t \in Tasks |-> FALSE]
    /\ spc = "out" /\ cur = None /\ spcAwake = FALSE
    /\ resumes = [t \in Tasks |-> 0]
    /\ stretches = [t \in Tasks |-> 0]
    /\ result = [t \in Tasks |-> FALSE]

\* pthread_cond_broadcast on the task's variable: the other side waits there.
WakesTask(t) == awake' = [awake EXCEPT ![t] = tpc[t] = "wait"]
WakesScheduler(t) == spcAwake' = (spcAwake \/ (spc = "wait" /\ cur = t))

-----------------------------------------------------------------------------
(* The scheduler.                                                          *)

\* server_task_create succeeds; when it fails there is no task.
Create(t) ==
    /\ spc = "out" /\ tpc[t] = "none"
    /\ tpc' = [tpc EXCEPT ![t] = "start"]
    /\ UNCHANGED <<running, done, awake, spc, cur, spcAwake, resumes, stretches, result>>

\* server_task_resume, of a task that is done ...
ResumeDone(t) ==
    /\ spc = "out" /\ tpc[t] \notin {"none", "joined"} /\ done[t]
    /\ result' = [result EXCEPT ![t] = TRUE]
    /\ UNCHANGED <<running, done, tpc, awake, spc, cur, spcAwake, resumes, stretches>>

\* ... and of one that is not: the loop condition holds, so the scheduler waits.
Resume(t) ==
    /\ spc = "out" /\ tpc[t] \notin {"none", "joined"} /\ ~done[t]
    /\ running' = [running EXCEPT ![t] = TRUE]
    /\ WakesTask(t)
    /\ spc' = "wait" /\ cur' = t
    /\ resumes' = [resumes EXCEPT ![t] = @ + 1]
    /\ UNCHANGED <<done, tpc, spcAwake, stretches, result>>

WaitsAgain ==
    /\ spc = "wait" /\ spcAwake /\ running[cur]
    /\ spcAwake' = FALSE
    /\ UNCHANGED <<running, done, tpc, awake, spc, cur, resumes, stretches, result>>

\* Fault: the wait is not in a loop.
ResumedAnyway ==
    /\ spc = "wait" /\ spcAwake
    /\ result' = [result EXCEPT ![cur] = done[cur]]
    /\ spc' = "out" /\ cur' = None /\ spcAwake' = FALSE
    /\ UNCHANGED <<running, done, tpc, awake, resumes, stretches>>

Resumed ==
    /\ spc = "wait" /\ spcAwake /\ ~running[cur]
    /\ result' = [result EXCEPT ![cur] = done[cur]]
    /\ spc' = "out" /\ cur' = None /\ spcAwake' = FALSE
    /\ UNCHANGED <<running, done, tpc, awake, resumes, stretches>>

\* server_task_join: its callers know that the task is done.
Join(t) ==
    /\ spc = "out" /\ result[t] /\ tpc[t] # "joined"
    /\ spc' = "join" /\ cur' = t
    /\ UNCHANGED <<running, done, tpc, awake, spcAwake, resumes, stretches, result>>

Joined ==
    /\ spc = "join" /\ tpc[cur] = "exited"
    /\ tpc' = [tpc EXCEPT ![cur] = "joined"]
    /\ spc' = "out" /\ cur' = None
    /\ UNCHANGED <<running, done, awake, spcAwake, resumes, stretches, result>>

-----------------------------------------------------------------------------
(* A task's thread.                                                        *)

\* Fault: the thread does not park before its first stretch.
StartsAtOnce(t) ==
    /\ tpc[t] = "start"
    /\ tpc' = [tpc EXCEPT ![t] = "fn"]
    /\ UNCHANGED <<running, done, awake, spc, cur, spcAwake, resumes, stretches, result>>

\* server_task_main, up to the call of fn.
Starts(t) ==
    /\ tpc[t] = "start"
    /\ tpc' = [tpc EXCEPT ![t] = IF running[t] THEN "fn" ELSE "wait"]
    /\ UNCHANGED <<running, done, awake, spc, cur, spcAwake, resumes, stretches, result>>

Stretch(t) ==
    /\ tpc[t] = "fn"
    /\ stretches' = [stretches EXCEPT ![t] = @ + 1]
    /\ UNCHANGED <<awake, spc, cur, resumes, result>>

\* server_task_yield
Yield(t) ==
    /\ Stretch(t) /\ stretches[t] + 1 < MaxStretches
    /\ running' = [running EXCEPT ![t] = FALSE]
    /\ WakesScheduler(t)
    /\ tpc' = [tpc EXCEPT ![t] = "wait"]
    /\ UNCHANGED done

\* Fault: the scheduler is not woken at the end.
EndsSilently(t) ==
    /\ Stretch(t)
    /\ running' = [running EXCEPT ![t] = FALSE]
    /\ done' = [done EXCEPT ![t] = TRUE]
    /\ tpc' = [tpc EXCEPT ![t] = "exited"]
    /\ UNCHANGED spcAwake

\* server_task_main after fn returned.
Ends(t) ==
    /\ Stretch(t)
    /\ running' = [running EXCEPT ![t] = FALSE]
    /\ done' = [done EXCEPT ![t] = TRUE]
    /\ WakesScheduler(t)
    /\ tpc' = [tpc EXCEPT ![t] = "exited"]

\* A woken task looks at running again.
Continues(t) ==
    /\ tpc[t] = "wait" /\ awake[t] /\ running[t]
    /\ awake' = [awake EXCEPT ![t] = FALSE]
    /\ tpc' = [tpc EXCEPT ![t] = "fn"]
    /\ UNCHANGED <<running, done, spc, cur, spcAwake, resumes, stretches, result>>

ParksAgain(t) ==
    /\ tpc[t] = "wait" /\ awake[t] /\ ~running[t]
    /\ awake' = [awake EXCEPT ![t] = FALSE]
    /\ UNCHANGED <<running, done, tpc, spc, cur, spcAwake, resumes, stretches, result>>

-----------------------------------------------------------------------------
\* pthread_cond_wait may return without a signal.
TaskWakes(t) ==
    /\ tpc[t] = "wait" /\ ~awake[t]
    /\ awake' = [awake EXCEPT ![t] = TRUE]
    /\ UNCHANGED <<running, done, tpc, spc, cur, spcAwake, resumes, stretches, result>>

SchedulerWakes ==
    /\ spc = "wait" /\ ~spcAwake
    /\ spcAwake' = TRUE
    /\ UNCHANGED <<running, done, tpc, awake, spc, cur, resumes, stretches, result>>

SchedulerStep == WaitsAgain \/ Resumed \/ Joined
TaskStep(t) == Starts(t) \/ Yield(t) \/ Ends(t) \/ Continues(t) \/ ParksAgain(t)

\* No task is left and none is created.
Terminated == spc = "out" /\ (\A t \in Tasks : tpc[t] = "joined") /\ UNCHANGED vars

Next == \/ \E t \in Tasks : Create(t) \/ ResumeDone(t) \/ Resume(t) \/ Join(t)
        \/ SchedulerStep
        \/ \E t \in Tasks : TaskStep(t) \/ TaskWakes(t)
        \/ SchedulerWakes
        \/ Terminated

Spec == Init /\ [][Next]_vars

\* Both threads run, and the function of a task ends or yields.  The
\* scheduler need not call anything.
Fairness == WF_vars(SchedulerStep) /\ \A t \in Tasks : WF_vars(TaskStep(t))

FairSpec == Spec /\ Fairness

-----------------------------------------------------------------------------
(* Properties.                                                             *)

TypeOK ==
    /\ running \in [Tasks -> BOOLEAN] /\ done \in [Tasks -> BOOLEAN]
    /\ tpc \in [Tasks -> {"none", "start", "wait", "fn", "exited", "joined"}]
    /\ awake \in [Tasks -> BOOLEAN]
    /\ spc \in {"out", "wait", "join"} /\ cur \in Tasks \cup {None}
    /\ spc # "out" => cur \in Tasks
    /\ spcAwake \in BOOLEAN
    /\ resumes \in [Tasks -> Nat] /\ stretches \in [Tasks -> Nat]
    /\ result \in [Tasks -> BOOLEAN]

\* Of the scheduler and all tasks one runs at a time: a task runs only while
\* the scheduler waits in the resume of that task.  This is what lets
\* worker_main, run_generation and run_decode_step share state without locks.
OneRunsAtATime == \A t \in Tasks : tpc[t] = "fn" => spc = "wait" /\ cur = t

\* A resume lets the task run one stretch, neither none (a spurious wakeup of
\* the scheduler) nor two (a spurious wakeup of the task), and tells whether
\* the function has returned.
OneStretchPerResume ==
    spc = "out" => \A t \in Tasks :
                       /\ stretches[t] = resumes[t]
                       /\ resumes[t] > 0 => result[t] = (tpc[t] \in {"exited", "joined"})

\* Every resume returns.
EveryResumeReturns == spc = "wait" ~> spc = "out"

=============================================================================
