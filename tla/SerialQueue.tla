---------------------------- MODULE SerialQueue ----------------------------
(***************************************************************************)
(* app::WorkerPool and core::JobQueue: N workers share one queue of        *)
(* execution rights, each right naming a session whose own serial queue is *)
(* to be drained.  submit() and drain_serial_queue() are cut where the     *)
(* code leaves a critical section, so every step below is what one thread  *)
(* does under one mutex (Session::sq_mutex or JobQueue::mutex_) or one     *)
(* atomic operation (io_count).                                            *)
(*                                                                         *)
(* A worker executing a job may itself call submit(): a handler that       *)
(* closes a session reaches on_session_gone, which submits the cleanup     *)
(* job.  Other callers (I/O workers, the idle sweep, the S2S thread) have  *)
(* been joined before the pool is stopped (IocpServer::stop, main).        *)
(***************************************************************************)
EXTENDS Integers, Sequences, FiniteSets

CONSTANTS
    Sessions,     \* net::Session objects
    Jobs,         \* closures handed to submit()
    Submitters,   \* threads outside the pool that call submit()
    Workers,      \* the pool's threads
    NoSession,    \* a thread that holds no session
    NoJob,        \* no job is executing
    Batch,        \* kSerialDrainBatch
    MaxPending    \* bound of the model: length of one session's serial queue

ASSUME SerialQueueAssumption ==
    /\ NoSession \notin Sessions
    /\ NoJob \notin Jobs
    /\ IsFiniteSet(Submitters) /\ IsFiniteSet(Workers)
    /\ Submitters \cap Workers = {}
    /\ Batch \in Nat \ {0}
    /\ MaxPending \in Nat \ {0}

VARIABLES
    serialQueue,  \* Session::serial_queue
    scheduled,    \* Session::sq_scheduled
    holds,        \* the share of Session::io_count taken by execution rights
    refused,      \* jobs still in serialQueue for which submit() returned false
    rights,       \* WorkerPool::queue_: sessions, one entry per execution right
    stopped,      \* JobQueue::stopped_
    wpc, wsess,   \* per worker: where it is, the session it drains
    batch,        \* per worker: the rest of drain_serial_queue's batch[]
    spc, ssess    \* per thread: where it is inside submit(), for which session

vars == <<serialQueue, scheduled, holds, refused, rights, stopped,
          wpc, wsess, batch, spc, ssess>>

workerVars == <<wpc, wsess, batch>>
submitVars == <<spc, ssess>>

Threads == Submitters \cup Workers

WorkerPc == {"pop", "take", "run", "job", "jobEnd", "release", "resubmit",
             "abandon", "exit"}
SubmitPc == {"idle", "acquire", "push", "undo"}

TypeOK ==
    /\ serialQueue \in [Sessions -> Seq(Jobs)]
    /\ scheduled \in [Sessions -> BOOLEAN]
    /\ holds \in [Sessions -> Int]
    /\ refused \in [Sessions -> Nat]
    /\ rights \in Seq(Sessions)
    /\ stopped \in BOOLEAN
    /\ wpc \in [Workers -> WorkerPc]
    /\ wsess \in [Workers -> Sessions \cup {NoSession}]
    /\ batch \in [Workers -> Seq(Jobs)]
    /\ spc \in [Threads -> SubmitPc]
    /\ ssess \in [Threads -> Sessions \cup {NoSession}]

Init ==
    /\ serialQueue = [s \in Sessions |-> <<>>]
    /\ scheduled = [s \in Sessions |-> FALSE]
    /\ holds = [s \in Sessions |-> 0]
    /\ refused = [s \in Sessions |-> 0]
    /\ rights = <<>>
    /\ stopped = FALSE
    /\ wpc = [w \in Workers |-> "pop"]
    /\ wsess = [w \in Workers |-> NoSession]
    /\ batch = [w \in Workers |-> <<>>]
    /\ spc = [t \in Threads |-> "idle"]
    /\ ssess = [t \in Threads |-> NoSession]

-----------------------------------------------------------------------------
(* WorkerPool::submit *)

\* One nested submit() per job is enough to reach every interleaving with the
\* draining of the session it names: the worker's pc leaves "job" with it.
MaySubmit(t) ==
    /\ spc[t] = "idle"
    /\ IF t \in Workers THEN wpc[t] = "job" ELSE ~stopped

\* The critical section of submit(): the job and the flag change together.
Submit(t, s, j) ==
    /\ MaySubmit(t)
    /\ Len(serialQueue[s]) < MaxPending
    /\ serialQueue' = [serialQueue EXCEPT ![s] = Append(@, j)]
    /\ scheduled' = [scheduled EXCEPT ![s] = TRUE]
    /\ IF scheduled[s]
       THEN UNCHANGED submitVars
       ELSE /\ spc' = [spc EXCEPT ![t] = "acquire"]
            /\ ssess' = [ssess EXCEPT ![t] = s]
    /\ wpc' = IF t \in Workers THEN [wpc EXCEPT ![t] = "jobEnd"] ELSE wpc
    /\ UNCHANGED <<holds, refused, rights, stopped, wsess, batch>>

\* acquire_session: the right takes its own hold before it is visible.
AcquireHold(t) ==
    /\ spc[t] = "acquire"
    /\ holds' = [holds EXCEPT ![ssess[t]] = @ + 1]
    /\ spc' = [spc EXCEPT ![t] = "push"]
    /\ UNCHANGED <<serialQueue, scheduled, refused, rights, stopped, ssess>>
    /\ UNCHANGED workerVars

\* Mutant: the session pointer is cleared before it is queued.
PushRightCleared(t) ==
    /\ spc[t] = "push"
    /\ ~stopped
    /\ rights' = Append(rights, NoSession)
    /\ spc' = [spc EXCEPT ![t] = "idle"]
    /\ ssess' = [ssess EXCEPT ![t] = NoSession]
    /\ UNCHANGED <<serialQueue, scheduled, holds, refused, stopped, workerVars>>

PushRight(t) ==
    /\ spc[t] = "push"
    /\ IF stopped
       THEN /\ spc' = [spc EXCEPT ![t] = "undo"]
            /\ UNCHANGED <<rights, ssess>>
       ELSE /\ rights' = Append(rights, ssess[t])
            /\ spc' = [spc EXCEPT ![t] = "idle"]
            /\ ssess' = [ssess EXCEPT ![t] = NoSession]
    /\ UNCHANGED <<serialQueue, scheduled, holds, refused, stopped>>
    /\ UNCHANGED workerVars

\* Mutant: the failure path forgets release_session.
UndoSubmitKeepsHold(t) ==
    /\ spc[t] = "undo"
    /\ scheduled' = [scheduled EXCEPT ![ssess[t]] = FALSE]
    /\ refused' = [refused EXCEPT ![ssess[t]] = @ + 1]
    /\ spc' = [spc EXCEPT ![t] = "idle"]
    /\ ssess' = [ssess EXCEPT ![t] = NoSession]
    /\ UNCHANGED <<serialQueue, holds, rights, stopped, workerVars>>

\* push() failed: the flag and the hold go back, the caller is told false, and
\* the job stays where it is.
UndoSubmit(t) ==
    /\ spc[t] = "undo"
    /\ scheduled' = [scheduled EXCEPT ![ssess[t]] = FALSE]
    /\ holds' = [holds EXCEPT ![ssess[t]] = @ - 1]
    /\ refused' = [refused EXCEPT ![ssess[t]] = @ + 1]
    /\ spc' = [spc EXCEPT ![t] = "idle"]
    /\ ssess' = [ssess EXCEPT ![t] = NoSession]
    /\ UNCHANGED <<serialQueue, rights, stopped>>
    /\ UNCHANGED workerVars

-----------------------------------------------------------------------------
(* WorkerPool::worker_loop and drain_serial_queue *)

\* JobQueue::pop: what is left in a stopped queue is still handed out.
Pop(w) ==
    /\ wpc[w] = "pop"
    /\ rights # <<>>
    /\ wsess' = [wsess EXCEPT ![w] = Head(rights)]
    /\ rights' = Tail(rights)
    /\ wpc' = [wpc EXCEPT ![w] = "take"]
    /\ UNCHANGED <<serialQueue, scheduled, holds, refused, stopped, batch>>
    /\ UNCHANGED submitVars

Exit(w) ==
    /\ wpc[w] = "pop"
    /\ rights = <<>>
    /\ stopped
    /\ wpc' = [wpc EXCEPT ![w] = "exit"]
    /\ UNCHANGED <<serialQueue, scheduled, holds, refused, rights, stopped, wsess, batch>>
    /\ UNCHANGED submitVars

BatchSize(q) == IF Len(q) < Batch THEN Len(q) ELSE Batch

\* Mutant: the flag goes down as soon as the queue is empty, with the batch still
\* to be executed (the mistake worker_pool.cpp:156-164 warns of).
TakeBatchLowersFlag(w) ==
    /\ wpc[w] = "take"
    /\ LET q == serialQueue[wsess[w]]
           n == BatchSize(q)
       IN  /\ batch' = [batch EXCEPT ![w] = SubSeq(q, 1, n)]
           /\ serialQueue' = [serialQueue EXCEPT ![wsess[w]] = SubSeq(q, n + 1, Len(q))]
           /\ scheduled' = [scheduled EXCEPT ![wsess[w]] = n < Len(q)]
    /\ wpc' = [wpc EXCEPT ![w] = "run"]
    /\ UNCHANGED <<holds, refused, rights, stopped, wsess, submitVars>>

\* The first critical section of drain_serial_queue.  The flag stays up.
TakeBatch(w) ==
    /\ wpc[w] = "take"
    /\ LET q == serialQueue[wsess[w]]
           n == BatchSize(q)
       IN  /\ batch' = [batch EXCEPT ![w] = SubSeq(q, 1, n)]
           /\ serialQueue' = [serialQueue EXCEPT ![wsess[w]] = SubSeq(q, n + 1, Len(q))]
    /\ wpc' = [wpc EXCEPT ![w] = "run"]
    /\ UNCHANGED <<scheduled, holds, refused, rights, stopped, wsess>>
    /\ UNCHANGED submitVars

BeginJob(w) ==
    /\ wpc[w] = "run"
    /\ batch[w] # <<>>
    /\ wpc' = [wpc EXCEPT ![w] = "job"]
    /\ UNCHANGED <<serialQueue, scheduled, holds, refused, rights, stopped, wsess, batch>>
    /\ UNCHANGED submitVars

EndJob(w) ==
    /\ wpc[w] \in {"job", "jobEnd"}
    /\ spc[w] = "idle"
    /\ batch' = [batch EXCEPT ![w] = Tail(@)]
    /\ wpc' = [wpc EXCEPT ![w] = "run"]
    /\ UNCHANGED <<serialQueue, scheduled, holds, refused, rights, stopped, wsess>>
    /\ UNCHANGED submitVars

\* Mutant: the second look at the queue is missing.
RecheckBlind(w) ==
    /\ wpc[w] = "run"
    /\ batch[w] = <<>>
    /\ scheduled' = [scheduled EXCEPT ![wsess[w]] = FALSE]
    /\ wpc' = [wpc EXCEPT ![w] = "release"]
    /\ UNCHANGED <<serialQueue, holds, refused, rights, stopped, wsess, batch, submitVars>>

\* Mutant: the worker drains the session until it is empty, without a limit.
RecheckDrainsOn(w) ==
    /\ wpc[w] = "run"
    /\ batch[w] = <<>>
    /\ LET empty == serialQueue[wsess[w]] = <<>>
       IN  /\ scheduled' = [scheduled EXCEPT ![wsess[w]] = ~empty]
           /\ wpc' = [wpc EXCEPT ![w] = IF empty THEN "release" ELSE "take"]
    /\ UNCHANGED <<serialQueue, holds, refused, rights, stopped, wsess, batch, submitVars>>

\* The second critical section: only now, with the whole batch executed, may
\* the flag go down, and only if nothing arrived meanwhile.
Recheck(w) ==
    /\ wpc[w] = "run"
    /\ batch[w] = <<>>
    /\ IF serialQueue[wsess[w]] = <<>>
       THEN /\ scheduled' = [scheduled EXCEPT ![wsess[w]] = FALSE]
            /\ wpc' = [wpc EXCEPT ![w] = "release"]
       ELSE /\ wpc' = [wpc EXCEPT ![w] = "resubmit"]
            /\ UNCHANGED scheduled
    /\ UNCHANGED <<serialQueue, holds, refused, rights, stopped, wsess, batch>>
    /\ UNCHANGED submitVars

ReleaseHold(w) ==
    /\ wpc[w] = "release"
    /\ holds' = [holds EXCEPT ![wsess[w]] = @ - 1]
    /\ wpc' = [wpc EXCEPT ![w] = "pop"]
    /\ wsess' = [wsess EXCEPT ![w] = NoSession]
    /\ UNCHANGED <<serialQueue, scheduled, refused, rights, stopped, batch>>
    /\ UNCHANGED submitVars

\* Mutant: a stopped queue still accepts the right.
ResubmitAlways(w) ==
    /\ wpc[w] = "resubmit"
    /\ rights' = Append(rights, wsess[w])
    /\ wpc' = [wpc EXCEPT ![w] = "pop"]
    /\ wsess' = [wsess EXCEPT ![w] = NoSession]
    /\ UNCHANGED <<serialQueue, scheduled, holds, refused, stopped, batch, submitVars>>

\* Jobs are left: the right goes to the back of the queue and keeps its hold.
Resubmit(w) ==
    /\ wpc[w] = "resubmit"
    /\ IF stopped
       THEN /\ wpc' = [wpc EXCEPT ![w] = "abandon"]
            /\ UNCHANGED <<rights, wsess>>
       ELSE /\ rights' = Append(rights, wsess[w])
            /\ wpc' = [wpc EXCEPT ![w] = "pop"]
            /\ wsess' = [wsess EXCEPT ![w] = NoSession]
    /\ UNCHANGED <<serialQueue, scheduled, holds, refused, stopped, batch>>
    /\ UNCHANGED submitVars

\* The push of the right failed; the jobs it stood for stay in serialQueue.
Abandon(w) ==
    /\ wpc[w] = "abandon"
    /\ scheduled' = [scheduled EXCEPT ![wsess[w]] = FALSE]
    /\ holds' = [holds EXCEPT ![wsess[w]] = @ - 1]
    /\ wpc' = [wpc EXCEPT ![w] = "pop"]
    /\ wsess' = [wsess EXCEPT ![w] = NoSession]
    /\ UNCHANGED <<serialQueue, refused, rights, stopped, batch>>
    /\ UNCHANGED submitVars

\* WorkerPool::stop up to the joins.
Stop ==
    /\ ~stopped
    /\ \A t \in Submitters : spc[t] = "idle"
    /\ stopped' = TRUE
    /\ UNCHANGED <<serialQueue, scheduled, holds, refused, rights>>
    /\ UNCHANGED workerVars /\ UNCHANGED submitVars

AllExited == \A w \in Workers : wpc[w] = "exit"

\* stop() returned; nothing moves any more.
Terminated == AllExited /\ UNCHANGED vars

SubmitStep(t) == AcquireHold(t) \/ PushRight(t) \/ UndoSubmit(t)

WorkerStep(w) ==
    \/ Pop(w) \/ Exit(w) \/ TakeBatch(w) \/ BeginJob(w) \/ EndJob(w)
    \/ Recheck(w) \/ ReleaseHold(w) \/ Resubmit(w) \/ Abandon(w)

Next ==
    \/ \E t \in Threads : SubmitStep(t) \/ \E s \in Sessions, j \in Jobs : Submit(t, s, j)
    \/ \E w \in Workers : WorkerStep(w)
    \/ Stop
    \/ Terminated

Spec == Init /\ [][Next]_vars

\* Every thread inside the pool or inside submit() keeps running: none of these
\* steps waits for anything but a mutex held for a few instructions, and a job
\* ends (handlers are synchronous and their database calls time out).  Nothing
\* makes a caller submit and nothing makes main() stop the pool.
Fairness ==
    /\ \A t \in Threads : WF_vars(SubmitStep(t))
    /\ \A w \in Workers : WF_vars(WorkerStep(w))

FairSpec == Spec /\ Fairness

-----------------------------------------------------------------------------
(* Safety *)

\* Worker w holds the execution right of session s.
Draining(w, s) ==
    /\ wsess[w] = s
    /\ wpc[w] \in {"take", "run", "job", "jobEnd", "resubmit", "abandon"}

\* Everything that is, or is about to become, an execution right of s.
Rights(s) ==
    {<<"queued", i>> : i \in {k \in DOMAIN rights : rights[k] = s}}
        \cup {<<"drained", w>> : w \in {v \in Workers : Draining(v, s)}}
        \cup {<<"issued", t>> : t \in {v \in Threads : ssess[v] = s}}

\* A session has at most one execution right, and sq_scheduled says whether it
\* has one.  Two rights are two workers in one session (frames overtake each
\* other); a flag without a right is a session nobody drains again.
\* worker_pool.h:11-20: one in-flight right per session, never zero or two.
OneRight ==
    \A s \in Sessions :
        /\ \A x, y \in Rights(s) : x = y
        /\ scheduled[s] <=> Rights(s) # {}

\* While the pool runs, a session with queued jobs has an execution right: no
\* wakeup is lost between the push of a job and the worker that is about to
\* find the queue empty (worker_pool.h:17-20).
NoLostJob ==
    \A s \in Sessions : serialQueue[s] # <<>> /\ ~stopped => scheduled[s]

\* io_count carries exactly one hold for each execution right that is queued,
\* drained or about to be given back, so a worker never touches a session that
\* nothing keeps alive and no hold is left behind (worker_pool.cpp:107-111).
HoldPerRight ==
    \A s \in Sessions :
        holds[s] = Cardinality({k \in DOMAIN rights : rights[k] = s})
                   + Cardinality({w \in Workers : wsess[w] = s})
                   + Cardinality({t \in Threads : ssess[t] = s /\ spc[t] # "acquire"})

\* What worker_pool.h:70-73 and job_queue.h:65-67 say of a stop: submit()
\* returns false for the jobs that will never run, so when stop() has returned
\* nothing is left in a serial queue but jobs whose submit() returned false.
AcceptedJobsRan ==
    AllExited => \A s \in Sessions : Len(serialQueue[s]) <= refused[s]

-----------------------------------------------------------------------------
(* Liveness *)

\* stop() joins: once the queue is stopped every worker leaves its loop.
StopCompletes == stopped ~> AllExited

\* A session's job is begun even if other sessions are flooded for ever: after
\* at most Batch jobs a worker puts the session it drains behind the others
\* (worker_pool.h:21-25).
NoStarvation ==
    \A s \in Sessions :
        serialQueue[s] # <<>> ~> stopped \/ \E w \in Workers : wsess[w] = s /\ wpc[w] = "job"

-----------------------------------------------------------------------------
(* Refinement *)

InJob(w) == wpc[w] \in {"job", "jobEnd"}

\* Jobs a worker has taken for s and not begun, then the ones still queued.
Todo(s) ==
    LET ahead(w) == IF InJob(w) THEN Tail(batch[w]) ELSE batch[w]
    IN  IF \E w \in Workers : Draining(w, s)
        THEN ahead(CHOOSE w \in Workers : Draining(w, s)) \o serialQueue[s]
        ELSE serialQueue[s]

Running(s) ==
    IF \E w \in Workers : wsess[w] = s /\ InJob(w)
    THEN Head(batch[CHOOSE w \in Workers : wsess[w] = s /\ InJob(w)])
    ELSE NoJob

Executor == INSTANCE SerialExecutor WITH
    todo <- [s \in Sessions |-> Todo(s)],
    running <- [s \in Sessions |-> Running(s)],
    closed <- stopped

\* The pool is a serial executor: one job of a session at a time, in the order
\* submit() accepted them, none skipped, and none left for ever while the pool
\* runs.
ImplementsSerialExecutor == Executor!Spec
=============================================================================
