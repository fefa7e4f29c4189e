----------------------------- MODULE ParallelFor -----------------------------
(***************************************************************************)
(* What tpool_parallel_for promises its callers: a call over n items ends  *)
(* once every item was given to exactly one invocation of fn and all these *)
(* invocations returned.  How the items are split, and which threads run   *)
(* them, is left open.                                                     *)
(***************************************************************************)
EXTENDS Integers

CONSTANTS
    Callers,    \* threads that call tpool_parallel_for
    Threads,    \* threads that may run fn, the callers included
    ItemCounts, \* values of n_items
    None        \* a thread that runs no chunk

VARIABLES
    n,          \* n_items of each caller's call, 0 between calls
    todo,       \* items of the call not yet given to a thread
    flight      \* the chunk each thread runs: its call and its items

vars == <<n, todo, flight>>

Init ==
    /\ n = [c \in Callers |-> 0]
    /\ todo = [c \in Callers |-> {}]
    /\ flight = [t \in Threads |-> None]

Begin(c) ==
    /\ n[c] = 0
    /\ \E k \in ItemCounts :
           /\ n' = [n EXCEPT ![c] = k]
           /\ todo' = [todo EXCEPT ![c] = 0 .. k - 1]
    /\ UNCHANGED flight

Take(t, c) ==
    /\ flight[t] = None
    /\ \E items \in (SUBSET todo[c]) \ {{}} :
           /\ todo' = [todo EXCEPT ![c] = @ \ items]
           /\ flight' = [flight EXCEPT ![t] = [job |-> c, items |-> items]]
    /\ UNCHANGED n

Finish(t) ==
    /\ flight[t] # None
    /\ flight' = [flight EXCEPT ![t] = None]
    /\ UNCHANGED <<n, todo>>

End(c) ==
    /\ n[c] # 0 /\ todo[c] = {}
    /\ \A t \in Threads : flight[t] = None \/ flight[t].job # c
    /\ n' = [n EXCEPT ![c] = 0]
    /\ UNCHANGED <<todo, flight>>

Next == \/ \E c \in Callers : Begin(c) \/ End(c)
        \/ \E t \in Threads, c \in Callers : Take(t, c)
        \/ \E t \in Threads : Finish(t)

Spec == Init /\ [][Next]_vars

\* Every call returns.
CallsEnd == \A c \in Callers : n[c] # 0 ~> n[c] = 0

=============================================================================
