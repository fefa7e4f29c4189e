--------------------------- MODULE RequestService ---------------------------
(***************************************************************************)
(* What the scheduler of the OpenAI server promises: accepted requests     *)
(* wait in one queue, start in the order they were accepted, at most Cap   *)
(* run at a time, and each is finished or failed once.  Until the server   *)
(* stops, only the request whose turn it is can fail without running.      *)
(***************************************************************************)
EXTENDS Integers, Sequences, FiniteSets

CONSTANTS Requests, Cap

VARIABLES
    waiting,    \* accepted requests, in order
    running,    \* requests on a session slot
    ended,      \* requests that are over
    stopped     \* no further request is accepted or run

vars == <<waiting, running, ended, stopped>>

Init == waiting = <<>> /\ running = {} /\ ended = {} /\ stopped = FALSE

InLine == {waiting[i] : i \in 1 .. Len(waiting)}

Accept(r) ==
    /\ ~stopped
    /\ r \notin InLine \cup running \cup ended
    /\ waiting' = Append(waiting, r)
    /\ UNCHANGED <<running, ended, stopped>>

Start ==
    /\ waiting # <<>> /\ Cardinality(running) < Cap
    /\ running' = running \cup {Head(waiting)}
    /\ waiting' = Tail(waiting)
    /\ UNCHANGED <<ended, stopped>>

\* The request whose turn it is cannot be started.
Fail ==
    /\ waiting # <<>>
    /\ ended' = ended \cup {Head(waiting)}
    /\ waiting' = Tail(waiting)
    /\ UNCHANGED <<running, stopped>>

Finish(r) ==
    /\ r \in running
    /\ running' = running \ {r}
    /\ ended' = ended \cup {r}
    /\ UNCHANGED <<waiting, stopped>>

\* After Stop nobody is accepted, and requests in line may be cancelled.
Stop ==
    /\ stopped' = TRUE
    /\ UNCHANGED <<waiting, running, ended>>

Cancel(i) ==
    /\ stopped
    /\ ended' = ended \cup {waiting[i]}
    /\ waiting' = SubSeq(waiting, 1, i - 1) \o SubSeq(waiting, i + 1, Len(waiting))
    /\ UNCHANGED <<running, stopped>>

Next == \/ \E r \in Requests : Accept(r) \/ Finish(r)
        \/ \E i \in 1 .. Len(waiting) : Cancel(i)
        \/ Start \/ Fail \/ Stop

Spec == Init /\ [][Next]_vars

=============================================================================
