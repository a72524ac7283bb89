--------------------------- MODULE SerialExecutor ---------------------------
(***************************************************************************)
(* What app::WorkerPool promises its callers about one session: the jobs   *)
(* handed to submit() for that session run one at a time, in the order in  *)
(* which they were accepted, and every one of them does run as long as     *)
(* the pool has not been stopped.  Jobs of different sessions are not      *)
(* ordered.  There are no threads, execution rights or locks here; module  *)
(* SerialQueue has them and is checked to implement this one.              *)
(***************************************************************************)
EXTENDS Sequences

CONSTANTS
    Sessions,   \* net::Session objects
    Jobs,       \* the closures a caller submits
    NoJob       \* "nothing is running"

VARIABLES
    todo,       \* per session: accepted jobs that have not begun, oldest first
    running,    \* per session: the job being executed, or NoJob
    closed      \* the pool has been stopped

vars == <<todo, running, closed>>

Init ==
    /\ todo = [s \in Sessions |-> <<>>]
    /\ running = [s \in Sessions |-> NoJob]
    /\ closed = FALSE

Accept(s, j) ==
    /\ todo' = [todo EXCEPT ![s] = Append(@, j)]
    /\ UNCHANGED <<running, closed>>

\* A job begins only when its session is quiet, and only the oldest one.
Begin(s) ==
    /\ running[s] = NoJob
    /\ todo[s] # <<>>
    /\ running' = [running EXCEPT ![s] = Head(todo[s])]
    /\ todo' = [todo EXCEPT ![s] = Tail(@)]
    /\ UNCHANGED closed

Finish(s) ==
    /\ running[s] # NoJob
    /\ running' = [running EXCEPT ![s] = NoJob]
    /\ UNCHANGED <<todo, closed>>

Close ==
    /\ closed' = TRUE
    /\ UNCHANGED <<todo, running>>

Next ==
    \/ \E s \in Sessions : Begin(s) \/ Finish(s) \/ (\E j \in Jobs : Accept(s, j))
    \/ Close

SafeSpec == Init /\ [][Next]_vars

\* A stopped pool owes nothing for the jobs it has not begun.
Fairness ==
    \A s \in Sessions :
        /\ WF_vars(~closed /\ Begin(s))
        /\ WF_vars(Finish(s))

Spec == SafeSpec /\ Fairness
=============================================================================
