------------------------- MODULE SerialQueueProofs -------------------------
(***************************************************************************)
(* TLAPS proofs about SerialQueue, for any number of sessions, workers and *)
(* submitting threads, any batch size and any bound on the serial queues.  *)
(***************************************************************************)
EXTENDS SerialQueue, SequenceTheorems, FiniteSetTheorems, TLAPS

\* A thread names a session exactly while it is working for one, and a worker
\* inside a job still has that job at the head of its batch.
PcInv ==
    /\ \A w \in Workers : wsess[w] \in Sessions <=> wpc[w] \notin {"pop", "exit"}
    /\ \A t \in Threads : ssess[t] \in Sessions <=> spc[t] # "idle"
    /\ \A w \in Workers : wpc[w] \in {"job", "jobEnd"} => batch[w] # <<>>

Typed == TypeOK /\ PcInv

-----------------------------------------------------------------------------
(* Type correctness *)

LEMMA TypedInit == Init => Typed
<1> SUFFICES ASSUME Init PROVE Typed
  OBVIOUS
<1> USE SerialQueueAssumption DEF Init
<1>1. <<>> \in Seq(Jobs) /\ <<>> \in Seq(Sessions)
  BY EmptySeq
<1>2. TypeOK
  <2>1. wpc \in [Workers -> WorkerPc] /\ spc \in [Threads -> SubmitPc]
    BY DEF WorkerPc, SubmitPc
  <2>2. /\ serialQueue \in [Sessions -> Seq(Jobs)]
        /\ batch \in [Workers -> Seq(Jobs)]
        /\ rights \in Seq(Sessions)
    BY <1>1
  <2>3. holds \in [Sessions -> Int] /\ refused \in [Sessions -> Nat]
    OBVIOUS
  <2>5. scheduled \in [Sessions -> BOOLEAN] /\ stopped \in BOOLEAN
    BY Zenon
  <2>4. /\ wsess \in [Workers -> Sessions \cup {NoSession}]
        /\ ssess \in [Threads -> Sessions \cup {NoSession}]
    OBVIOUS
  <2> HIDE DEF Init
  <2> QED BY <2>1, <2>2, <2>3, <2>4, <2>5 DEF TypeOK
<1>3. PcInv
  BY DEF PcInv
<1> QED BY <1>2, <1>3 DEF Typed

LEMMA SubmitTyped ==
    ASSUME Typed, NEW t \in Threads, NEW s \in Sessions, NEW j \in Jobs, Submit(t, s, j)
    PROVE  Typed'
<1> USE SerialQueueAssumption DEF Typed, Submit, workerVars, submitVars
<1>1. Append(serialQueue[s], j) \in Seq(Jobs)
  BY AppendProperties DEF TypeOK
<1>2. TypeOK'
  BY <1>1, ZenonT(60) DEF TypeOK, WorkerPc, SubmitPc
<1>3. PcInv'
  BY DEF TypeOK, PcInv, MaySubmit, Threads, WorkerPc, SubmitPc
<1> QED BY <1>2, <1>3

LEMMA SubmitStepTyped ==
    ASSUME Typed, NEW t \in Threads, SubmitStep(t)
    PROVE  Typed'
<1> USE SerialQueueAssumption DEF Typed, workerVars, SubmitPc
<1>1. CASE AcquireHold(t)
  BY <1>1 DEF TypeOK, PcInv, AcquireHold
<1>2. CASE PushRight(t)
  <2>1. ssess[t] \in Sessions
    BY <1>2 DEF PcInv, PushRight
  <2>2. Append(rights, ssess[t]) \in Seq(Sessions)
    BY <2>1, AppendProperties DEF TypeOK
  <2>3. TypeOK'
    BY <1>2, <2>2 DEF TypeOK, PushRight
  <2>4. PcInv'
    BY <1>2 DEF TypeOK, PcInv, PushRight
  <2> QED BY <2>3, <2>4
<1>3. CASE UndoSubmit(t)
  BY <1>3 DEF TypeOK, PcInv, UndoSubmit
<1> QED BY <1>1, <1>2, <1>3 DEF SubmitStep

LEMMA WorkerStepTyped ==
    ASSUME Typed, NEW w \in Workers, WorkerStep(w)
    PROVE  Typed'
<1> USE SerialQueueAssumption DEF Typed, submitVars, WorkerPc
<1>1. CASE Pop(w)
  <2>1. Head(rights) \in Sessions /\ Tail(rights) \in Seq(Sessions)
    BY <1>1, HeadTailProperties DEF TypeOK, Pop
  <2> QED BY <1>1, <2>1 DEF TypeOK, PcInv, Pop
<1>2. CASE Exit(w)
  BY <1>2 DEF TypeOK, PcInv, Exit
<1>3. CASE TakeBatch(w)
  <2> DEFINE q == serialQueue[wsess[w]]
             n == BatchSize(q)
  <2>1. wsess[w] \in Sessions /\ q \in Seq(Jobs)
    BY <1>3 DEF TypeOK, PcInv, TakeBatch
  <2>2. Len(q) \in Nat /\ n \in 0..Len(q)
    BY <2>1, LenProperties DEF BatchSize
  <2>3. \A i \in 1..Len(q) : q[i] \in Jobs
    BY <2>1, ElementOfSeq
  <2> HIDE DEF q, n
  <2>4. SubSeq(q, 1, n) \in Seq(Jobs)
    BY <2>2, <2>3, SubSeqProperties
  <2>5. SubSeq(q, n + 1, Len(q)) \in Seq(Jobs)
    BY <2>2, <2>3, SubSeqProperties
  <2>6. /\ batch' = [batch EXCEPT ![w] = SubSeq(q, 1, n)]
        /\ serialQueue' = [serialQueue EXCEPT ![wsess[w]] = SubSeq(q, n + 1, Len(q))]
    BY <1>3 DEF TakeBatch, q, n
  <2>7. TypeOK'
    <3>1. batch' \in [Workers -> Seq(Jobs)]
      BY <2>4, <2>6 DEF TypeOK
    <3>2. serialQueue' \in [Sessions -> Seq(Jobs)]
      BY <2>5, <2>6 DEF TypeOK
    <3> QED BY <1>3, <3>1, <3>2 DEF TypeOK, TakeBatch
  <2>8. PcInv'
    BY <1>3, <2>6 DEF TypeOK, PcInv, TakeBatch
  <2> QED BY <2>7, <2>8
<1>4. CASE BeginJob(w)
  BY <1>4 DEF TypeOK, PcInv, BeginJob
<1>5. CASE EndJob(w)
  <2>1. Tail(batch[w]) \in Seq(Jobs)
    BY <1>5, HeadTailProperties DEF TypeOK, PcInv, EndJob
  <2> QED BY <1>5, <2>1 DEF TypeOK, PcInv, EndJob
<1>6. CASE Recheck(w)
  <2>1. TypeOK'
    BY <1>6 DEF TypeOK, Recheck
  <2>2. PcInv'
    BY <1>6, ZenonT(60) DEF TypeOK, PcInv, Recheck
  <2> QED BY <2>1, <2>2
<1>7. CASE ReleaseHold(w)
  <2>1. wsess[w] \in Sessions
    BY <1>7 DEF PcInv, ReleaseHold
  <2>2. holds' \in [Sessions -> Int]
    BY <1>7, <2>1 DEF TypeOK, ReleaseHold
  <2>3. TypeOK'
    BY <1>7, <2>1, <2>2 DEF TypeOK, ReleaseHold
  <2>4. PcInv'
    BY <1>7 DEF TypeOK, PcInv, ReleaseHold
  <2> QED BY <2>3, <2>4
<1>8. CASE Resubmit(w)
  <2>1. wsess[w] \in Sessions
    BY <1>8 DEF PcInv, Resubmit
  <2>2. Append(rights, wsess[w]) \in Seq(Sessions)
    BY <2>1, AppendProperties DEF TypeOK
  <2>3. TypeOK'
    BY <1>8, <2>2 DEF TypeOK, Resubmit
  <2>4. PcInv'
    BY <1>8, ZenonT(60) DEF TypeOK, PcInv, Resubmit
  <2> QED BY <2>3, <2>4
<1>9. CASE Abandon(w)
  <2>1. wsess[w] \in Sessions
    BY <1>9 DEF PcInv, Abandon
  <2>2. holds' \in [Sessions -> Int]
    BY <1>9, <2>1 DEF TypeOK, Abandon
  <2>3. TypeOK'
    BY <1>9, <2>1, <2>2 DEF TypeOK, Abandon
  <2>4. PcInv'
    BY <1>9 DEF TypeOK, PcInv, Abandon
  <2> QED BY <2>3, <2>4
<1> QED BY <1>1, <1>2, <1>3, <1>4, <1>5, <1>6, <1>7, <1>8, <1>9 DEF WorkerStep

LEMMA TypedStep == Typed /\ [Next]_vars => Typed'
<1> SUFFICES ASSUME Typed, [Next]_vars PROVE Typed'
  OBVIOUS
<1>1. CASE Stop
  BY <1>1 DEF Typed, TypeOK, PcInv, Stop, workerVars, submitVars
<1>2. CASE UNCHANGED vars
  BY <1>2 DEF Typed, TypeOK, PcInv, vars
<1>3. CASE Terminated
  BY <1>2, <1>3 DEF Terminated
<1> QED
  BY <1>1, <1>2, <1>3, SubmitTyped, SubmitStepTyped, WorkerStepTyped DEF Next

\* Every reachable state of the pool is well typed: in particular a right in
\* the queue always names a session and a worker inside a job has one.
THEOREM TypeCorrect == Spec => []TypeOK
<1>1. Typed => TypeOK
  BY DEF Typed
<1> QED BY <1>1, TypedInit, TypedStep, PTL DEF Spec

-----------------------------------------------------------------------------
(* One execution right per session *)

Queued(s) == \E i \in 1..Len(rights) : rights[i] = s
Drained(s) == \E w \in Workers : Draining(w, s)
Issued(s) == \E t \in Threads : ssess[t] = s

\* Two rights of one kind never name the same session ...
QueuedOnce == \A i, k \in 1..Len(rights) : rights[i] = rights[k] => i = k
DrainedOnce ==
    \A s \in Sessions : \A w, v \in Workers : Draining(w, s) /\ Draining(v, s) => w = v
IssuedOnce ==
    \A s \in Sessions : \A t, u \in Threads : ssess[t] = s /\ ssess[u] = s => t = u

\* ... nor do two rights of different kinds, and the flag knows of each.
Exclusive ==
    \A s \in Sessions :
        /\ ~(Queued(s) /\ Drained(s))
        /\ ~(Queued(s) /\ Issued(s))
        /\ ~(Drained(s) /\ Issued(s))
        /\ scheduled[s] <=> Queued(s) \/ Drained(s) \/ Issued(s)

RightInv == QueuedOnce /\ DrainedOnce /\ IssuedOnce /\ Exclusive

\* A right that joins the queue is the only queued one of its session.
LEMMA AppendRight ==
    ASSUME Typed, QueuedOnce, NEW s \in Sessions, ~Queued(s), rights' = Append(rights, s)
    PROVE  /\ QueuedOnce'
           /\ \A x \in Sessions : Queued(x)' <=> Queued(x) \/ x = s
<1>1. /\ Len(rights') = Len(rights) + 1 /\ Len(rights) \in Nat
      /\ \A i \in 1..Len(rights) : rights'[i] = rights[i]
      /\ rights'[Len(rights) + 1] = s
  BY AppendProperties, LenProperties DEF Typed, TypeOK
<1>2. QueuedOnce'
  BY <1>1 DEF QueuedOnce, Queued
<1>3. ASSUME NEW x \in Sessions PROVE Queued(x)' <=> Queued(x) \/ x = s
  BY <1>1 DEF Queued
<1> QED BY <1>2, <1>3

\* The right that leaves the queue was the only queued one of its session.
LEMMA TailRight ==
    ASSUME Typed, QueuedOnce, rights # <<>>, rights' = Tail(rights)
    PROVE  /\ QueuedOnce'
           /\ Head(rights) \in Sessions
           /\ Queued(Head(rights))
           /\ \A x \in Sessions : Queued(x)' <=> Queued(x) /\ x # Head(rights)
<1>1. /\ Head(rights) \in Sessions
      /\ Len(rights) \in Nat \ {0}
      /\ Len(rights') = Len(rights) - 1
      /\ \A i \in 1..Len(rights') : rights'[i] = rights[i + 1]
      /\ Head(rights) = rights[1]
  BY HeadTailProperties, EmptySeq DEF Typed, TypeOK
<1>2. QueuedOnce'
  BY <1>1 DEF QueuedOnce
<1>3. ASSUME NEW x \in Sessions PROVE Queued(x)' <=> Queued(x) /\ x # Head(rights)
  <2>1. ASSUME Queued(x)' PROVE Queued(x) /\ x # Head(rights)
    BY <1>1, <2>1 DEF Queued, QueuedOnce
  <2>2. ASSUME Queued(x), x # Head(rights) PROVE Queued(x)'
    <3>1. PICK i \in 1..Len(rights) : rights[i] = x
      BY <2>2 DEF Queued
    <3>2. i - 1 \in 1..Len(rights') /\ rights'[i - 1] = x
      BY <1>1, <2>2, <3>1
    <3> QED BY <3>2 DEF Queued
  <2> QED BY <2>1, <2>2
<1>4. Queued(Head(rights))
  BY <1>1 DEF Queued
<1> QED BY <1>1, <1>2, <1>3, <1>4

LEMMA SubmitRight ==
    ASSUME Typed, RightInv,
           NEW t \in Threads, NEW s \in Sessions, NEW j \in Jobs, Submit(t, s, j)
    PROVE  RightInv'
<1> USE SerialQueueAssumption DEF Typed, RightInv, Submit, submitVars
<1>1. /\ QueuedOnce'
      /\ \A x \in Sessions : Queued(x)' <=> Queued(x)
  BY DEF QueuedOnce, Queued
<1>2. \A w \in Workers, x \in Sessions : Draining(w, x)' <=> Draining(w, x)
  BY DEF TypeOK, MaySubmit, Draining
<1>3. /\ DrainedOnce'
      /\ \A x \in Sessions : Drained(x)' <=> Drained(x)
  BY <1>2 DEF DrainedOnce, Drained
<1>4. CASE scheduled[s]
  <2>1. IssuedOnce' /\ \A x \in Sessions : Issued(x)' <=> Issued(x)
    BY <1>4 DEF IssuedOnce, Issued
  <2>2. \A x \in Sessions : scheduled'[x] <=> scheduled[x]
    BY <1>4 DEF TypeOK
  <2> QED BY <1>1, <1>3, <2>1, <2>2 DEF Exclusive
<1>5. CASE ~scheduled[s]
  <2>1. ~Issued(s) /\ ssess[t] \notin Sessions
    BY <1>5 DEF Exclusive, PcInv, MaySubmit
  <2>2. IssuedOnce' /\ \A x \in Sessions : Issued(x)' <=> Issued(x) \/ x = s
    <3>1. \A u \in Threads : ssess'[u] = IF u = t THEN s ELSE ssess[u]
      BY <1>5 DEF TypeOK
    <3> QED BY <2>1, <3>1, Zenon DEF IssuedOnce, Issued
  <2>3. \A x \in Sessions : scheduled'[x] <=> scheduled[x] \/ x = s
    BY DEF TypeOK
  <2> QED BY <1>1, <1>3, <1>5, <2>2, <2>3 DEF Exclusive
<1> QED BY <1>4, <1>5

\* Thread t stops carrying a right of session s.
LEMMA IssuedLess ==
    ASSUME Typed, IssuedOnce, NEW t \in Threads, ssess[t] \in Sessions,
           ssess' = [ssess EXCEPT ![t] = NoSession]
    PROVE  /\ IssuedOnce'
           /\ \A x \in Sessions : Issued(x)' <=> Issued(x) /\ x # ssess[t]
BY SerialQueueAssumption DEF Typed, TypeOK, IssuedOnce, Issued

LEMMA SubmitStepRight ==
    ASSUME Typed, RightInv, NEW t \in Threads, SubmitStep(t)
    PROVE  RightInv'
<1> USE SerialQueueAssumption DEF RightInv, workerVars
<1>1. /\ DrainedOnce'
      /\ \A x \in Sessions : Drained(x)' <=> Drained(x)
  BY DEF SubmitStep, AcquireHold, PushRight, UndoSubmit, DrainedOnce, Drained, Draining
<1>2. CASE AcquireHold(t)
  <2>1. /\ QueuedOnce' /\ IssuedOnce'
        /\ \A x \in Sessions : (Queued(x)' <=> Queued(x)) /\ (Issued(x)' <=> Issued(x))
    BY <1>2 DEF AcquireHold, QueuedOnce, IssuedOnce, Queued, Issued
  <2> QED BY <1>1, <1>2, <2>1 DEF AcquireHold, Exclusive
<1>3. CASE PushRight(t)
  <2>1. ssess[t] \in Sessions /\ Issued(ssess[t])
    BY <1>3 DEF PushRight, Typed, PcInv, Issued
  <2>2. CASE stopped
    <3>1. /\ QueuedOnce' /\ IssuedOnce'
          /\ \A x \in Sessions : (Queued(x)' <=> Queued(x)) /\ (Issued(x)' <=> Issued(x))
      BY <1>3, <2>2 DEF PushRight, QueuedOnce, IssuedOnce, Queued, Issued
    <3> QED BY <1>1, <1>3, <3>1 DEF PushRight, Exclusive
  <2>3. CASE ~stopped
    <3>1. ~Queued(ssess[t])
      BY <2>1 DEF Exclusive
    <3>2. /\ QueuedOnce'
          /\ \A x \in Sessions : Queued(x)' <=> Queued(x) \/ x = ssess[t]
      BY <1>3, <2>1, <2>3, <3>1, AppendRight DEF PushRight
    <3>3. /\ IssuedOnce'
          /\ \A x \in Sessions : Issued(x)' <=> Issued(x) /\ x # ssess[t]
      BY <1>3, <2>1, <2>3, IssuedLess DEF PushRight
    <3>4. scheduled' = scheduled
      BY <1>3 DEF PushRight
    <3> QED BY <1>1, <2>1, <3>2, <3>3, <3>4 DEF Exclusive
  <2> QED BY <2>2, <2>3
<1>4. CASE UndoSubmit(t)
  <2>1. ssess[t] \in Sessions /\ Issued(ssess[t])
    BY <1>4 DEF UndoSubmit, Typed, PcInv, Issued
  <2>2. QueuedOnce' /\ \A x \in Sessions : Queued(x)' <=> Queued(x)
    BY <1>4 DEF UndoSubmit, QueuedOnce, Queued
  <2>3. IssuedOnce' /\ \A x \in Sessions : Issued(x)' <=> Issued(x) /\ x # ssess[t]
    BY <1>4, <2>1, IssuedLess DEF UndoSubmit
  <2>4. \A x \in Sessions : scheduled'[x] <=> scheduled[x] /\ x # ssess[t]
    BY <1>4, <2>1 DEF UndoSubmit, Typed, TypeOK
  <2> QED BY <1>1, <2>1, <2>2, <2>3, <2>4 DEF Exclusive
<1> QED BY <1>2, <1>3, <1>4 DEF SubmitStep

\* Worker w stops draining the session it has.
LEMMA DrainedLess ==
    ASSUME Typed, DrainedOnce, NEW w \in Workers, Draining(w, wsess[w]), wsess[w] \in Sessions,
           \A v \in Workers, x \in Sessions : Draining(v, x)' <=> Draining(v, x) /\ v # w
    PROVE  /\ DrainedOnce'
           /\ \A x \in Sessions : Drained(x)' <=> Drained(x) /\ x # wsess[w]
<1>1. DrainedOnce'
  BY DEF DrainedOnce
<1>2. ASSUME NEW x \in Sessions PROVE Drained(x)' <=> Drained(x) /\ x # wsess[w]
  <2>1. ASSUME Drained(x)' PROVE Drained(x) /\ x # wsess[w]
    BY <2>1 DEF Drained, DrainedOnce
  <2>2. ASSUME Drained(x), x # wsess[w] PROVE Drained(x)'
    BY <2>2 DEF Drained, Draining
  <2> QED BY <2>1, <2>2
<1> QED BY <1>1, <1>2

LEMMA WorkerStepRight ==
    ASSUME Typed, RightInv, NEW w \in Workers, WorkerStep(w)
    PROVE  RightInv'
<1> USE SerialQueueAssumption DEF RightInv, submitVars
<1>1. /\ IssuedOnce'
      /\ \A x \in Sessions : Issued(x)' <=> Issued(x)
  BY DEF WorkerStep, Pop, Exit, TakeBatch, BeginJob, EndJob, Recheck, ReleaseHold,
         Resubmit, Abandon, IssuedOnce, Issued
<1>2. CASE Pop(w)
  <2> DEFINE s == Head(rights)
  <2>1. /\ QueuedOnce' /\ s \in Sessions /\ Queued(s)
        /\ \A x \in Sessions : Queued(x)' <=> Queued(x) /\ x # s
    BY <1>2, TailRight DEF Pop
  <2>2. ~Drained(s)
    BY <2>1 DEF Exclusive
  <2>3. wsess' = [wsess EXCEPT ![w] = s] /\ wpc' = [wpc EXCEPT ![w] = "take"]
    BY <1>2 DEF Pop
  <2> HIDE DEF s
  <2>4. \A v \in Workers, x \in Sessions :
            Draining(v, x)' <=> Draining(v, x) \/ (v = w /\ x = s)
    BY <1>2, <2>1, <2>3 DEF Pop, Draining, Typed, TypeOK
  <2>5. DrainedOnce' /\ \A x \in Sessions : Drained(x)' <=> Drained(x) \/ x = s
    BY <2>2, <2>4 DEF DrainedOnce, Drained
  <2>6. scheduled' = scheduled
    BY <1>2 DEF Pop
  <2> QED BY <1>1, <2>1, <2>5, <2>6 DEF Exclusive
<1>3. ASSUME \A v \in Workers, x \in Sessions : Draining(v, x)' <=> Draining(v, x),
             rights' = rights, scheduled' = scheduled
      PROVE  RightInv'
  <2>1. QueuedOnce' /\ \A x \in Sessions : Queued(x)' <=> Queued(x)
    BY <1>3 DEF QueuedOnce, Queued
  <2>2. DrainedOnce' /\ \A x \in Sessions : Drained(x)' <=> Drained(x)
    BY <1>3 DEF DrainedOnce, Drained
  <2> QED BY <1>1, <1>3, <2>1, <2>2 DEF Exclusive
<1>4. CASE Exit(w) \/ TakeBatch(w) \/ BeginJob(w) \/ EndJob(w) \/ ReleaseHold(w)
  <2>1. \A v \in Workers, x \in Sessions : Draining(v, x)' <=> Draining(v, x)
    BY <1>4 DEF Exit, TakeBatch, BeginJob, EndJob, ReleaseHold, Draining, Typed, TypeOK
  <2>2. rights' = rights /\ scheduled' = scheduled
    BY <1>4 DEF Exit, TakeBatch, BeginJob, EndJob, ReleaseHold
  <2> QED BY <1>3, <2>1, <2>2
<1>5. ASSUME Draining(w, wsess[w]), wsess[w] \in Sessions,
             \A v \in Workers, x \in Sessions : Draining(v, x)' <=> Draining(v, x) /\ v # w,
             rights' = rights, scheduled' = [scheduled EXCEPT ![wsess[w]] = FALSE]
      PROVE  RightInv'
  <2>1. QueuedOnce' /\ \A x \in Sessions : Queued(x)' <=> Queued(x)
    BY <1>5 DEF QueuedOnce, Queued
  <2>2. DrainedOnce' /\ \A x \in Sessions : Drained(x)' <=> Drained(x) /\ x # wsess[w]
    BY <1>5, DrainedLess
  <2>3. \A x \in Sessions : scheduled'[x] <=> scheduled[x] /\ x # wsess[w]
    BY <1>5 DEF Typed, TypeOK
  <2>4. Drained(wsess[w])
    BY <1>5 DEF Drained
  <2> QED BY <1>1, <1>5, <2>1, <2>2, <2>3, <2>4 DEF Exclusive
<1>6. CASE Recheck(w)
  <2>1. wsess[w] \in Sessions /\ Draining(w, wsess[w])
    BY <1>6 DEF Recheck, Draining, Typed, PcInv
  <2>2. CASE serialQueue[wsess[w]] = <<>>
    <3>1. \A v \in Workers, x \in Sessions : Draining(v, x)' <=> Draining(v, x) /\ v # w
      BY <1>6, <2>2 DEF Recheck, Draining, Typed, TypeOK
    <3> QED BY <1>5, <1>6, <2>1, <2>2, <3>1 DEF Recheck
  <2>3. CASE serialQueue[wsess[w]] # <<>>
    <3>1. \A v \in Workers, x \in Sessions : Draining(v, x)' <=> Draining(v, x)
      BY <1>6, <2>3 DEF Recheck, Draining, Typed, TypeOK
    <3> QED BY <1>3, <1>6, <2>3, <3>1 DEF Recheck
  <2> QED BY <2>2, <2>3
<1>7. CASE Resubmit(w)
  <2>1. wsess[w] \in Sessions /\ Draining(w, wsess[w])
    BY <1>7 DEF Resubmit, Draining, Typed, PcInv
  <2>2. CASE stopped
    <3>1. \A v \in Workers, x \in Sessions : Draining(v, x)' <=> Draining(v, x)
      BY <1>7, <2>2 DEF Resubmit, Draining, Typed, TypeOK
    <3> QED BY <1>3, <1>7, <2>2, <3>1 DEF Resubmit
  <2>3. CASE ~stopped
    <3>1. Drained(wsess[w]) /\ ~Queued(wsess[w])
      BY <2>1 DEF Drained, Exclusive
    <3>2. \A v \in Workers, x \in Sessions : Draining(v, x)' <=> Draining(v, x) /\ v # w
      BY <1>7, <2>3 DEF Resubmit, Draining, Typed, TypeOK
    <3>3. DrainedOnce' /\ \A x \in Sessions : Drained(x)' <=> Drained(x) /\ x # wsess[w]
      BY <2>1, <3>2, DrainedLess
    <3>4. QueuedOnce' /\ \A x \in Sessions : Queued(x)' <=> Queued(x) \/ x = wsess[w]
      BY <1>7, <2>1, <2>3, <3>1, AppendRight DEF Resubmit
    <3>5. scheduled' = scheduled
      BY <1>7 DEF Resubmit
    <3> QED BY <1>1, <2>1, <3>1, <3>3, <3>4, <3>5 DEF Exclusive
  <2> QED BY <2>2, <2>3
<1>8. CASE Abandon(w)
  <2>1. wsess[w] \in Sessions /\ Draining(w, wsess[w])
    BY <1>8 DEF Abandon, Draining, Typed, PcInv
  <2>2. \A v \in Workers, x \in Sessions : Draining(v, x)' <=> Draining(v, x) /\ v # w
    BY <1>8 DEF Abandon, Draining, Typed, TypeOK
  <2> QED BY <1>5, <1>8, <2>1, <2>2 DEF Abandon
<1> QED BY <1>2, <1>4, <1>6, <1>7, <1>8 DEF WorkerStep

LEMMA RightInit == Init => RightInv
<1> SUFFICES ASSUME Init PROVE RightInv
  OBVIOUS
<1>1. \A x \in Sessions : ~Queued(x) /\ ~Drained(x) /\ ~Issued(x) /\ ~scheduled[x]
  BY SerialQueueAssumption DEF Init, Queued, Drained, Draining, Issued
<1>2. QueuedOnce /\ DrainedOnce /\ IssuedOnce
  BY SerialQueueAssumption
     DEF Init, QueuedOnce, DrainedOnce, IssuedOnce, Draining
<1> QED BY <1>1, <1>2 DEF RightInv, Exclusive

LEMMA RightStep == Typed /\ RightInv /\ [Next]_vars => RightInv'
<1> SUFFICES ASSUME Typed, RightInv, [Next]_vars PROVE RightInv'
  OBVIOUS
<1>1. ASSUME UNCHANGED <<rights, scheduled, wpc, wsess, ssess>> PROVE RightInv'
  BY <1>1 DEF RightInv, QueuedOnce, DrainedOnce, IssuedOnce, Exclusive,
              Queued, Drained, Draining, Issued
<1>2. CASE Stop
  BY <1>1, <1>2 DEF Stop, workerVars, submitVars
<1>3. CASE UNCHANGED vars \/ Terminated
  BY <1>1, <1>3 DEF vars, Terminated
<1> QED
  BY <1>2, <1>3, SubmitRight, SubmitStepRight, WorkerStepRight DEF Next

LEMMA RightInvOneRight == Typed /\ RightInv => OneRight
<1> SUFFICES ASSUME Typed, RightInv, NEW s \in Sessions
             PROVE  /\ \A x, y \in Rights(s) : x = y
                    /\ scheduled[s] <=> Rights(s) # {}
  BY DEF OneRight
<1> USE DEF RightInv
<1>1. DOMAIN rights = 1..Len(rights)
  BY LenProperties DEF Typed, TypeOK
<1>2. Rights(s) # {} <=> Queued(s) \/ Drained(s) \/ Issued(s)
  BY <1>1 DEF Rights, Queued, Drained, Issued
<1>3. ASSUME NEW x \in Rights(s), NEW y \in Rights(s) PROVE x = y
  <2>1. \/ \E i \in 1..Len(rights) : rights[i] = s /\ x = <<"queued", i>>
        \/ \E w \in Workers : Draining(w, s) /\ x = <<"drained", w>>
        \/ \E t \in Threads : ssess[t] = s /\ x = <<"issued", t>>
    BY <1>1, <1>3 DEF Rights
  <2>2. \/ \E i \in 1..Len(rights) : rights[i] = s /\ y = <<"queued", i>>
        \/ \E w \in Workers : Draining(w, s) /\ y = <<"drained", w>>
        \/ \E t \in Threads : ssess[t] = s /\ y = <<"issued", t>>
    BY <1>1, <1>3 DEF Rights
  <2> QED
    BY <2>1, <2>2 DEF QueuedOnce, DrainedOnce, IssuedOnce, Exclusive, Queued, Drained, Issued
<1> QED BY <1>2, <1>3 DEF Exclusive

\* A session has exactly one execution right while its flag is up and none
\* while it is down, however many workers and submitters race: no two workers
\* are ever inside one session and no session waits behind a flag that stands
\* for nothing.
THEOREM OneRightAlways == Spec => []OneRight
<1>1. Init => Typed /\ RightInv
  BY TypedInit, RightInit
<1>2. Typed /\ RightInv /\ [Next]_vars => (Typed /\ RightInv)'
  BY TypedStep, RightStep
<1> QED BY <1>1, <1>2, RightInvOneRight, PTL DEF Spec

-----------------------------------------------------------------------------
(* No lost wakeup *)

\* The two ways a flag is lowered over a session with queued jobs are taken
\* only after a push has failed, hence only once the queue is stopped.
UndoneOnlyIfStopped ==
    /\ \A t \in Threads : spc[t] = "undo" => stopped
    /\ \A w \in Workers : wpc[w] = "abandon" => stopped

WakeupInv == NoLostJob /\ UndoneOnlyIfStopped

LEMMA WakeupStep == Typed /\ WakeupInv /\ [Next]_vars => WakeupInv'
<1> SUFFICES ASSUME Typed, WakeupInv, [Next]_vars PROVE WakeupInv'
  OBVIOUS
<1> USE SerialQueueAssumption DEF Typed, TypeOK, WakeupInv, NoLostJob, UndoneOnlyIfStopped,
        workerVars, submitVars
<1>1. ASSUME NEW t \in Threads, NEW s \in Sessions, NEW j \in Jobs, Submit(t, s, j)
      PROVE  WakeupInv'
  <2>1. NoLostJob'
    BY <1>1 DEF Submit
  <2>2. UndoneOnlyIfStopped'
    BY <1>1 DEF Submit
  <2> QED BY <2>1, <2>2
<1>2. ASSUME NEW t \in Threads, SubmitStep(t) PROVE WakeupInv'
  <2>1. CASE AcquireHold(t)
    BY <2>1 DEF AcquireHold
  <2>2. CASE PushRight(t)
    BY <2>2 DEF PushRight
  <2>3. CASE UndoSubmit(t)
    BY <2>3 DEF UndoSubmit
  <2> QED BY <1>2, <2>1, <2>2, <2>3 DEF SubmitStep
<1>3. ASSUME NEW w \in Workers, WorkerStep(w) PROVE WakeupInv'
  <2>1. CASE TakeBatch(w)
    <3>1. wsess[w] \in Sessions
      BY <2>1 DEF TakeBatch, PcInv
    <3>2. \A s \in Sessions : s # wsess[w] => serialQueue'[s] = serialQueue[s]
      BY <2>1 DEF TakeBatch
    <3>3. serialQueue[wsess[w]] = <<>> => serialQueue'[wsess[w]] = <<>>
      <4> DEFINE q == serialQueue[wsess[w]]
      <4>1. SUFFICES ASSUME q = <<>> PROVE serialQueue'[wsess[w]] = <<>>
        OBVIOUS
      <4>2. serialQueue'[wsess[w]] = SubSeq(q, BatchSize(q) + 1, Len(q))
        BY <2>1, <3>1 DEF TakeBatch
      <4>3. Len(q) = 0 /\ BatchSize(q) = 0
        BY <4>1, EmptySeq DEF BatchSize
      <4>4. SubSeq(q, 1, 0) = <<>>
        BY <4>1, SubSeqEmpty
      <4> QED BY <4>2, <4>3, <4>4
    <3>4. NoLostJob'
      BY <2>1, <3>2, <3>3 DEF TakeBatch
    <3>5. UndoneOnlyIfStopped'
      BY <2>1 DEF TakeBatch
    <3> QED BY <3>4, <3>5
  <2>2. CASE Recheck(w)
    <3>1. NoLostJob'
      BY <2>2 DEF Recheck
    <3>2. UndoneOnlyIfStopped'
      BY <2>2 DEF Recheck
    <3> QED BY <3>1, <3>2
  <2>3. CASE Resubmit(w)
    BY <2>3 DEF Resubmit
  <2>4. CASE Abandon(w)
    BY <2>4 DEF Abandon
  <2>5. CASE Pop(w) \/ Exit(w)
    BY <2>5 DEF Pop, Exit
  <2>6. CASE BeginJob(w) \/ EndJob(w) \/ ReleaseHold(w)
    BY <2>6 DEF BeginJob, EndJob, ReleaseHold
  <2> QED BY <1>3, <2>1, <2>2, <2>3, <2>4, <2>5, <2>6 DEF WorkerStep
<1>4. CASE Stop
  BY <1>4 DEF Stop
<1>5. CASE UNCHANGED vars \/ Terminated
  BY <1>5 DEF vars, Terminated
<1> QED BY <1>1, <1>2, <1>3, <1>4, <1>5 DEF Next

\* No wakeup is lost: as long as the pool runs, a session with queued jobs has
\* its flag up, and by OneRightAlways a right that will drain it.
THEOREM NoLostJobAlways == Spec => []NoLostJob
<1>1. Init => Typed /\ WakeupInv
  BY TypedInit DEF Init, WakeupInv, NoLostJob, UndoneOnlyIfStopped
<1>2. Typed /\ WakeupInv /\ [Next]_vars => (Typed /\ WakeupInv)'
  BY TypedStep, WakeupStep
<1>3. WakeupInv => NoLostJob
  BY DEF WakeupInv
<1> QED BY <1>1, <1>2, <1>3, PTL DEF Spec

-----------------------------------------------------------------------------
(* The holds of the execution rights *)

QueuedAt(s) == {k \in DOMAIN rights : rights[k] = s}
WorkersOf(s) == {w \in Workers : wsess[w] = s}
Carriers(s) == {t \in Threads : ssess[t] = s /\ spc[t] # "acquire"}

Count(b) == IF b THEN 1 ELSE 0

LEMMA ThreadsFinite ==
    ASSUME NEW s
    PROVE  /\ IsFiniteSet(WorkersOf(s)) /\ Cardinality(WorkersOf(s)) \in Nat
           /\ IsFiniteSet(Carriers(s)) /\ Cardinality(Carriers(s)) \in Nat
<1>1. IsFiniteSet(Workers) /\ IsFiniteSet(Threads)
  BY SerialQueueAssumption, FS_Union DEF Threads
<1>2. WorkersOf(s) \subseteq Workers /\ Carriers(s) \subseteq Threads
  BY DEF WorkersOf, Carriers
<1> QED BY <1>1, <1>2, FS_Subset, FS_CardinalityType

\* Positions of s in a sequence that names nothing twice.
LEMMA OnceCounted ==
    ASSUME NEW r \in Seq(Sessions), \A i, k \in 1..Len(r) : r[i] = r[k] => i = k, NEW s
    PROVE  Cardinality({k \in DOMAIN r : r[k] = s}) = Count(\E i \in 1..Len(r) : r[i] = s)
<1>0. DOMAIN r = 1..Len(r)
  BY LenProperties
<1>1. CASE \E i \in 1..Len(r) : r[i] = s
  <2>1. PICK i \in 1..Len(r) : r[i] = s
    BY <1>1
  <2>2. {k \in DOMAIN r : r[k] = s} = {i}
    BY <1>0, <2>1
  <2> QED BY <1>1, <2>2, FS_Singleton DEF Count
<1>2. CASE ~\E i \in 1..Len(r) : r[i] = s
  <2>1. {k \in DOMAIN r : r[k] = s} = {}
    BY <1>0, <1>2
  <2> QED BY <1>2, <2>1, FS_EmptySet DEF Count
<1> QED BY <1>1, <1>2

LEMMA QueuedCounted ==
    ASSUME Typed, Typed', RightInv, RightInv', NEW s
    PROVE  /\ Cardinality(QueuedAt(s)) = Count(Queued(s))
           /\ Cardinality(QueuedAt(s)') = Count(Queued(s)')
<1>1. rights \in Seq(Sessions) /\ rights' \in Seq(Sessions)
  BY DEF Typed, TypeOK
<1>2. Cardinality({k \in DOMAIN rights : rights[k] = s})
        = Count(\E i \in 1..Len(rights) : rights[i] = s)
  BY <1>1, OnceCounted DEF RightInv, QueuedOnce
<1>3. Cardinality({k \in DOMAIN rights' : rights'[k] = s})
        = Count(\E i \in 1..Len(rights') : rights'[i] = s)
  BY <1>1, OnceCounted DEF RightInv, QueuedOnce
<1> QED BY <1>2, <1>3 DEF QueuedAt, Queued

\* A worker gets a session, or lets go of the one it has.
LEMMA WorkersMore ==
    ASSUME Typed, NEW w \in Workers, NEW s \in Sessions, wsess[w] \notin Sessions,
           wsess' = [wsess EXCEPT ![w] = s], NEW x \in Sessions
    PROVE  Cardinality(WorkersOf(x)') = Cardinality(WorkersOf(x)) + Count(x = s)
<1>1. CASE x = s
  <2>1. WorkersOf(x)' = WorkersOf(x) \cup {w} /\ w \notin WorkersOf(x)
    BY <1>1 DEF Typed, TypeOK, WorkersOf
  <2> QED BY <1>1, <2>1, ThreadsFinite, FS_AddElement DEF Count
<1>2. CASE x # s
  <2>1. WorkersOf(x)' = WorkersOf(x)
    BY <1>2 DEF Typed, TypeOK, WorkersOf
  <2> QED BY <1>2, <2>1, ThreadsFinite DEF Count
<1> QED BY <1>1, <1>2

LEMMA WorkersLess ==
    ASSUME Typed, NEW w \in Workers, wsess[w] \in Sessions,
           wsess' = [wsess EXCEPT ![w] = NoSession], NEW x \in Sessions
    PROVE  Cardinality(WorkersOf(x)') = Cardinality(WorkersOf(x)) - Count(x = wsess[w])
<1>1. CASE x = wsess[w]
  <2>1. WorkersOf(x)' = WorkersOf(x) \ {w} /\ w \in WorkersOf(x)
    BY <1>1, SerialQueueAssumption DEF Typed, TypeOK, WorkersOf
  <2> QED BY <1>1, <2>1, ThreadsFinite, FS_RemoveElement, ZenonT(60) DEF Count
<1>2. CASE x # wsess[w]
  <2>1. WorkersOf(x)' = WorkersOf(x)
    BY <1>2, SerialQueueAssumption DEF Typed, TypeOK, WorkersOf
  <2> QED BY <1>2, <2>1, ThreadsFinite DEF Count
<1> QED BY <1>1, <1>2

\* What a step does to the hold of one session and to those who have it.
LEMMA HoldBalance ==
    ASSUME Typed, Typed', RightInv, RightInv', HoldPerRight, NEW x \in Sessions,
           holds'[x] - holds[x] =
               (Count(Queued(x)') - Count(Queued(x)))
               + (Cardinality(WorkersOf(x)') - Cardinality(WorkersOf(x)))
               + (Cardinality(Carriers(x)') - Cardinality(Carriers(x)))
    PROVE  holds'[x] = Cardinality(QueuedAt(x)') + Cardinality(WorkersOf(x)')
                       + Cardinality(Carriers(x)')
<1>1. /\ Cardinality(QueuedAt(x)) = Count(Queued(x))
      /\ Cardinality(QueuedAt(x)') = Count(Queued(x)')
  BY QueuedCounted
<1>2. holds[x] = Cardinality(QueuedAt(x)) + Cardinality(WorkersOf(x)) + Cardinality(Carriers(x))
  BY DEF HoldPerRight, QueuedAt, WorkersOf, Carriers
<1>3. /\ Cardinality(WorkersOf(x)) \in Nat /\ Cardinality(Carriers(x)) \in Nat
      /\ Cardinality(WorkersOf(x)') \in Nat /\ Cardinality(Carriers(x)') \in Nat
      /\ holds[x] \in Int /\ holds'[x] \in Int
  <2>1. IsFiniteSet(Workers) /\ IsFiniteSet(Threads)
    BY SerialQueueAssumption, FS_Union DEF Threads
  <2>2. WorkersOf(x)' \subseteq Workers /\ Carriers(x)' \subseteq Threads
    BY DEF WorkersOf, Carriers
  <2> QED BY <2>1, <2>2, ThreadsFinite, FS_Subset, FS_CardinalityType DEF Typed, TypeOK
<1>4. Count(Queued(x)) \in Nat /\ Count(Queued(x)') \in Nat
  BY DEF Count
<1> QED BY <1>1, <1>2, <1>3, <1>4

\* A step that changes no hold and nobody who has one.
LEMMA HoldKept ==
    ASSUME Typed, Typed', RightInv, RightInv', HoldPerRight,
           UNCHANGED <<holds, rights, wsess>>,
           \A x \in Sessions : Carriers(x)' = Carriers(x)
    PROVE  HoldPerRight'
BY DEF HoldPerRight, Carriers

\* A thread begins or stops carrying a hold of session s to the queue.
LEMMA CarriersMore ==
    ASSUME Typed, NEW t \in Threads, ssess[t] \in Sessions, spc[t] = "acquire",
           ssess' = ssess, spc' = [spc EXCEPT ![t] = "push"], NEW x \in Sessions
    PROVE  Cardinality(Carriers(x)') = Cardinality(Carriers(x)) + Count(x = ssess[t])
<1>1. CASE x = ssess[t]
  <2>1. Carriers(x)' = Carriers(x) \cup {t} /\ t \notin Carriers(x)
    BY <1>1 DEF Typed, TypeOK, Carriers
  <2> QED BY <1>1, <2>1, ThreadsFinite, FS_AddElement DEF Count
<1>2. CASE x # ssess[t]
  <2>1. Carriers(x)' = Carriers(x)
    BY <1>2 DEF Typed, TypeOK, Carriers
  <2> QED BY <1>2, <2>1, ThreadsFinite DEF Count
<1> QED BY <1>1, <1>2

LEMMA CarriersLess ==
    ASSUME Typed, NEW t \in Threads, ssess[t] \in Sessions, spc[t] # "acquire",
           ssess' = [ssess EXCEPT ![t] = NoSession], spc' = [spc EXCEPT ![t] = "idle"],
           NEW x \in Sessions
    PROVE  Cardinality(Carriers(x)') = Cardinality(Carriers(x)) - Count(x = ssess[t])
<1>1. CASE x = ssess[t]
  <2>1. Carriers(x)' = Carriers(x) \ {t} /\ t \in Carriers(x)
    BY <1>1, SerialQueueAssumption DEF Typed, TypeOK, Carriers
  <2> QED BY <1>1, <2>1, ThreadsFinite, FS_RemoveElement, ZenonT(60) DEF Count
<1>2. CASE x # ssess[t]
  <2>1. Carriers(x)' = Carriers(x)
    BY <1>2, SerialQueueAssumption DEF Typed, TypeOK, Carriers
  <2> QED BY <1>2, <2>1, ThreadsFinite DEF Count
<1> QED BY <1>1, <1>2

LEMMA SubmitStepHold ==
    ASSUME Typed, Typed', RightInv, RightInv', HoldPerRight, NEW t \in Threads, SubmitStep(t)
    PROVE  HoldPerRight'
<1>0. /\ holds \in [Sessions -> Int] /\ UNCHANGED wsess
      /\ ssess[t] \in Sessions
      /\ \A x \in Sessions : Count(Queued(x)) \in Nat /\ Cardinality(Carriers(x)) \in Nat
                             /\ Cardinality(WorkersOf(x)) \in Nat
  BY ThreadsFinite DEF SubmitStep, AcquireHold, PushRight, UndoSubmit, workerVars, Typed, TypeOK,
                       PcInv, Count
<1>1. SUFFICES ASSUME NEW x \in Sessions
               PROVE  holds'[x] = Cardinality(QueuedAt(x)') + Cardinality(WorkersOf(x)')
                                  + Cardinality(Carriers(x)')
  BY DEF HoldPerRight, QueuedAt, WorkersOf, Carriers
<1>2. WorkersOf(x)' = WorkersOf(x)
  BY <1>0 DEF WorkersOf
<1>3. CASE AcquireHold(t)
  <2>1. Cardinality(Carriers(x)') = Cardinality(Carriers(x)) + Count(x = ssess[t])
    BY <1>0, <1>3, CarriersMore DEF AcquireHold
  <2>2. holds'[x] = holds[x] + Count(x = ssess[t])
    BY <1>0, <1>3 DEF AcquireHold, Count
  <2>3. Queued(x)' = Queued(x)
    BY <1>3 DEF AcquireHold, Queued
  <2>4. Count(x = ssess[t]) \in Int /\ holds[x] \in Int
    BY <1>0 DEF Count
  <2> QED BY <1>0, <1>2, <2>1, <2>2, <2>3, <2>4, HoldBalance
<1>4. CASE PushRight(t) /\ stopped
  <2>1. Carriers(x)' = Carriers(x)
    BY <1>4 DEF PushRight, Carriers, Typed, TypeOK
  <2>2. QueuedAt(x)' = QueuedAt(x) /\ holds' = holds
    BY <1>4 DEF PushRight, QueuedAt
  <2> QED BY <1>2, <2>1, <2>2 DEF HoldPerRight, QueuedAt, WorkersOf, Carriers
<1>5. CASE PushRight(t) /\ ~stopped
  <2>1. Cardinality(Carriers(x)') = Cardinality(Carriers(x)) - Count(x = ssess[t])
    BY <1>0, <1>5, CarriersLess DEF PushRight
  <2>2. ~Queued(ssess[t])
    BY <1>0 DEF RightInv, Exclusive, Issued
  <2>3. Queued(x)' <=> Queued(x) \/ x = ssess[t]
    BY <1>0, <1>5, <2>2, AppendRight DEF PushRight, RightInv
  <2>4. Count(Queued(x)') = Count(Queued(x)) + Count(x = ssess[t])
    BY <2>2, <2>3 DEF Count
  <2>5. holds' = holds /\ Count(x = ssess[t]) \in Int /\ holds[x] \in Int
    BY <1>0, <1>5 DEF PushRight, Count
  <2> QED BY <1>0, <1>2, <2>1, <2>4, <2>5, HoldBalance
<1>6. CASE UndoSubmit(t)
  <2>1. Cardinality(Carriers(x)') = Cardinality(Carriers(x)) - Count(x = ssess[t])
    BY <1>0, <1>6, CarriersLess DEF UndoSubmit
  <2>2. holds'[x] = holds[x] - Count(x = ssess[t])
    BY <1>0, <1>6 DEF UndoSubmit, Count
  <2>3. Queued(x)' = Queued(x)
    BY <1>6 DEF UndoSubmit, Queued
  <2>4. Count(x = ssess[t]) \in Int /\ holds[x] \in Int
    BY <1>0 DEF Count
  <2> QED BY <1>0, <1>2, <2>1, <2>2, <2>3, <2>4, HoldBalance
<1> QED BY <1>3, <1>4, <1>5, <1>6 DEF SubmitStep

LEMMA WorkerStepHold ==
    ASSUME Typed, Typed', RightInv, RightInv', HoldPerRight, NEW w \in Workers, WorkerStep(w)
    PROVE  HoldPerRight'
<1>0. /\ holds \in [Sessions -> Int]
      /\ \A x \in Sessions : /\ Carriers(x)' = Carriers(x)
                             /\ Count(Queued(x)) \in Nat /\ Cardinality(Carriers(x)) \in Nat
                             /\ Cardinality(WorkersOf(x)) \in Nat
  <2>1. UNCHANGED submitVars
    BY DEF WorkerStep, Pop, Exit, TakeBatch, BeginJob, EndJob, Recheck, ReleaseHold, Resubmit,
           Abandon
  <2> QED BY <2>1, ThreadsFinite DEF submitVars, Carriers, Typed, TypeOK, Count
<1>1. CASE UNCHANGED <<holds, rights, wsess>>
  BY <1>0, <1>1, HoldKept
<1>2. CASE Pop(w)
  <2>1. ASSUME NEW x \in Sessions
        PROVE  holds'[x] = Cardinality(QueuedAt(x)') + Cardinality(WorkersOf(x)')
                           + Cardinality(Carriers(x)')
    <3>1. /\ Head(rights) \in Sessions /\ Queued(Head(rights))
          /\ Queued(x)' <=> Queued(x) /\ x # Head(rights)
      BY <1>2, TailRight DEF Pop, RightInv
    <3>2. Cardinality(WorkersOf(x)') = Cardinality(WorkersOf(x)) + Count(x = Head(rights))
      <4> DEFINE s == Head(rights)
      <4>1. wsess[w] \notin Sessions /\ wsess' = [wsess EXCEPT ![w] = s] /\ s \in Sessions
        <5>1. wpc[w] = "pop" /\ wsess' = [wsess EXCEPT ![w] = s]
          BY <1>2 DEF Pop
        <5>2. wsess[w] \notin Sessions
          BY <5>1 DEF Typed, PcInv
        <5> QED BY <3>1, <5>1, <5>2
      <4> HIDE DEF s
      <4>2. Cardinality(WorkersOf(x)') = Cardinality(WorkersOf(x)) + Count(x = s)
        BY <4>1, WorkersMore, ZenonT(60)
      <4> QED BY <4>2 DEF s
    <3>3. Count(Queued(x)') = Count(Queued(x)) - Count(x = Head(rights))
      BY <3>1 DEF Count
    <3>4. holds' = holds /\ Count(x = Head(rights)) \in Int /\ holds[x] \in Int
      BY <1>0, <1>2 DEF Pop, Count
    <3> QED BY <1>0, <3>2, <3>3, <3>4, HoldBalance
  <2> QED BY <2>1 DEF HoldPerRight, QueuedAt, WorkersOf, Carriers
<1>3. CASE ReleaseHold(w) \/ Abandon(w)
  <2>1. ASSUME NEW x \in Sessions
        PROVE  holds'[x] = Cardinality(QueuedAt(x)') + Cardinality(WorkersOf(x)')
                           + Cardinality(Carriers(x)')
    <3>1. wsess[w] \in Sessions /\ Queued(x)' = Queued(x)
      BY <1>3 DEF ReleaseHold, Abandon, Typed, PcInv, Queued
    <3>2. Cardinality(WorkersOf(x)') = Cardinality(WorkersOf(x)) - Count(x = wsess[w])
      BY <1>3, <3>1, WorkersLess DEF ReleaseHold, Abandon
    <3>3. holds'[x] = holds[x] - Count(x = wsess[w])
      BY <1>0, <1>3, <3>1 DEF ReleaseHold, Abandon, Count
    <3>4. Count(x = wsess[w]) \in Int /\ holds[x] \in Int
      BY <1>0 DEF Count
    <3> QED BY <1>0, <3>1, <3>2, <3>3, <3>4, HoldBalance
  <2> QED BY <2>1 DEF HoldPerRight, QueuedAt, WorkersOf, Carriers
<1>4. CASE Resubmit(w) /\ ~stopped
  <2>1. ASSUME NEW x \in Sessions
        PROVE  holds'[x] = Cardinality(QueuedAt(x)') + Cardinality(WorkersOf(x)')
                           + Cardinality(Carriers(x)')
    <3>1. wsess[w] \in Sessions /\ Draining(w, wsess[w])
      BY <1>4 DEF Resubmit, Typed, PcInv, Draining
    <3>2. ~Queued(wsess[w])
      BY <3>1 DEF RightInv, Exclusive, Drained
    <3>3. Queued(x)' <=> Queued(x) \/ x = wsess[w]
      BY <1>4, <3>1, <3>2, AppendRight DEF Resubmit, RightInv
    <3>4. Cardinality(WorkersOf(x)') = Cardinality(WorkersOf(x)) - Count(x = wsess[w])
      BY <1>4, <3>1, WorkersLess DEF Resubmit
    <3>5. Count(Queued(x)') = Count(Queued(x)) + Count(x = wsess[w])
      BY <3>2, <3>3 DEF Count
    <3>6. holds' = holds /\ Count(x = wsess[w]) \in Int /\ holds[x] \in Int
      BY <1>0, <1>4 DEF Resubmit, Count
    <3> QED BY <1>0, <3>4, <3>5, <3>6, HoldBalance
  <2> QED BY <2>1 DEF HoldPerRight, QueuedAt, WorkersOf, Carriers
<1>5. CASE Resubmit(w) /\ stopped
  BY <1>1, <1>5 DEF Resubmit
<1> QED
  BY <1>1, <1>2, <1>3, <1>4, <1>5 DEF WorkerStep, Exit, TakeBatch, BeginJob, EndJob, Recheck

LEMMA HoldStep ==
    Typed /\ RightInv /\ HoldPerRight /\ [Next]_vars => HoldPerRight'
<1> SUFFICES ASSUME Typed, RightInv, HoldPerRight, [Next]_vars PROVE HoldPerRight'
  OBVIOUS
<1>1. Typed' /\ RightInv'
  BY TypedStep, RightStep
<1>2. ASSUME NEW t \in Threads, NEW s \in Sessions, NEW j \in Jobs, Submit(t, s, j)
      PROVE  HoldPerRight'
  <2>1. ssess[t] \notin Sessions
    BY <1>2 DEF Submit, MaySubmit, Typed, PcInv
  <2>2. \A x \in Sessions : Carriers(x)' = Carriers(x)
    <3>1. CASE scheduled[s]
      BY <1>2, <3>1 DEF Submit, submitVars, Carriers
    <3>2. CASE ~scheduled[s]
      BY <1>2, <2>1, <3>2 DEF Submit, Carriers, Typed, TypeOK
    <3> QED BY <3>1, <3>2
  <2> QED BY <1>1, <1>2, <2>2, HoldKept DEF Submit
<1>3. CASE Stop
  BY <1>1, <1>3, HoldKept DEF Stop, workerVars, submitVars, Carriers
<1>4. CASE UNCHANGED vars \/ Terminated
  BY <1>1, <1>4, HoldKept DEF vars, Terminated, Carriers
<1> QED BY <1>1, <1>2, <1>3, <1>4, SubmitStepHold, WorkerStepHold DEF Next

\* For any number of workers and submitters: io_count carries one hold for each
\* execution right that is queued, drained or about to be given back, on the paths
\* where a push fails too (worker_pool.cpp:107-111).
THEOREM HoldPerRightAlways == Spec => []HoldPerRight
<1>1. Init => HoldPerRight
  <2> SUFFICES ASSUME Init, NEW s \in Sessions
               PROVE  holds[s] = Cardinality(QueuedAt(s)) + Cardinality(WorkersOf(s))
                                 + Cardinality(Carriers(s))
    BY DEF HoldPerRight, QueuedAt, WorkersOf, Carriers
  <2>1. DOMAIN rights = {}
    BY EmptySeq DEF Init
  <2>2. QueuedAt(s) = {} /\ WorkersOf(s) = {} /\ Carriers(s) = {} /\ holds[s] = 0
    BY <2>1, SerialQueueAssumption DEF Init, QueuedAt, WorkersOf, Carriers
  <2> QED BY <2>2, FS_EmptySet
<1>2. Init => Typed /\ RightInv
  BY TypedInit, RightInit
<1>3. Typed /\ RightInv /\ HoldPerRight /\ [Next]_vars => (Typed /\ RightInv /\ HoldPerRight)'
  BY TypedStep, RightStep, HoldStep
<1> QED BY <1>1, <1>2, <1>3, PTL DEF Spec
-----------------------------------------------------------------------------
(* The pool implements the serial executor *)

\* What a worker has taken for its session and not begun, and what it executes.
Ahead(w) == IF InJob(w) THEN Tail(batch[w]) ELSE batch[w]
Current(w) == IF InJob(w) THEN Head(batch[w]) ELSE NoJob

\* What the executor sees of a session is what its one worker has, then its queue.
Shown ==
    \A s \in Sessions :
        /\ \A w \in Workers : Draining(w, s) =>
             Todo(s) = Ahead(w) \o serialQueue[s] /\ Running(s) = Current(w)
        /\ ~Drained(s) => Todo(s) = serialQueue[s] /\ Running(s) = NoJob

\* Between two sessions a worker has nothing left in its batch.
BatchInv == \A w \in Workers : wpc[w] \notin {"run", "job", "jobEnd"} => batch[w] = <<>>

LEMMA ShownAlways == DrainedOnce => Shown
<1> SUFFICES ASSUME DrainedOnce, NEW s \in Sessions
             PROVE  /\ \A w \in Workers : Draining(w, s) =>
                         Todo(s) = Ahead(w) \o serialQueue[s] /\ Running(s) = Current(w)
                    /\ ~Drained(s) => Todo(s) = serialQueue[s] /\ Running(s) = NoJob
  BY DEF Shown
<1>1. ASSUME NEW w \in Workers, Draining(w, s)
      PROVE  Todo(s) = Ahead(w) \o serialQueue[s] /\ Running(s) = Current(w)
  <2>1. w = CHOOSE v \in Workers : Draining(v, s)
    BY <1>1 DEF DrainedOnce
  <2>2. Todo(s) = Ahead(w) \o serialQueue[s]
    BY <1>1, <2>1 DEF Todo, Ahead
  <2>3. ASSUME NEW v \in Workers, wsess[v] = s, InJob(v) PROVE v = w
    BY <1>1, <2>3 DEF DrainedOnce, Draining, InJob
  <2>4. wsess[w] = s
    BY <1>1 DEF Draining
  <2>5. CASE InJob(w)
    <3>1. w = CHOOSE v \in Workers : wsess[v] = s /\ InJob(v)
      BY <2>3, <2>4, <2>5
    <3> QED BY <2>2, <2>4, <2>5, <3>1 DEF Running, Current
  <2>6. CASE ~InJob(w)
    BY <2>2, <2>3, <2>6 DEF Running, Current
  <2> QED BY <2>5, <2>6
<1>2. ASSUME ~Drained(s) PROVE Todo(s) = serialQueue[s] /\ Running(s) = NoJob
  BY <1>2 DEF Drained, Draining, Todo, Running, InJob
<1> QED BY <1>1, <1>2

LEMMA ShownNext == DrainedOnce' => Shown'
BY ShownAlways, PTL

LEMMA BatchInit == Init => BatchInv
BY DEF Init, BatchInv

LEMMA BatchStep == Typed /\ BatchInv /\ [Next]_vars => BatchInv'
<1> SUFFICES ASSUME Typed, BatchInv, [Next]_vars PROVE BatchInv'
  OBVIOUS
<1> USE DEF Typed, TypeOK, BatchInv
<1>1. ASSUME NEW t \in Threads, NEW s \in Sessions, NEW j \in Jobs, Submit(t, s, j)
      PROVE  BatchInv'
  BY <1>1 DEF Submit, MaySubmit
<1>2. ASSUME NEW t \in Threads, SubmitStep(t) PROVE BatchInv'
  BY <1>2 DEF SubmitStep, AcquireHold, PushRight, UndoSubmit, workerVars
<1>3. ASSUME NEW w \in Workers, WorkerStep(w) PROVE BatchInv'
  <2>1. CASE TakeBatch(w)
    BY <2>1 DEF TakeBatch
  <2>2. CASE Pop(w) \/ Exit(w) \/ BeginJob(w) \/ EndJob(w)
    BY <2>2 DEF Pop, Exit, BeginJob, EndJob
  <2>3. CASE Recheck(w) \/ ReleaseHold(w) \/ Resubmit(w) \/ Abandon(w)
    BY <2>3 DEF Recheck, ReleaseHold, Resubmit, Abandon
  <2> QED BY <1>3, <2>1, <2>2, <2>3 DEF WorkerStep
<1>4. CASE Stop \/ Terminated \/ UNCHANGED vars
  BY <1>4 DEF Stop, Terminated, vars, workerVars
<1> QED BY <1>1, <1>2, <1>3, <1>4 DEF Next

\* Steps that do not touch what the executor sees of session s.
LEMMA MapKept ==
    ASSUME DrainedOnce, DrainedOnce', NEW s \in Sessions, serialQueue'[s] = serialQueue[s],
           \A v \in Workers : Draining(v, s)' <=> Draining(v, s),
           \A v \in Workers : Draining(v, s) =>
               batch'[v] = batch[v] /\ (InJob(v)' <=> InJob(v))
    PROVE  Todo(s)' = Todo(s) /\ Running(s)' = Running(s)
<1>1. Shown /\ Shown'
  BY ShownAlways, ShownNext
<1>2. CASE Drained(s)
  <2>1. PICK w \in Workers : Draining(w, s)
    BY <1>2 DEF Drained
  <2>2. Ahead(w)' = Ahead(w) /\ Current(w)' = Current(w)
    BY <2>1 DEF Ahead, Current
  <2>3. /\ Todo(s) = Ahead(w) \o serialQueue[s] /\ Running(s) = Current(w)
        /\ Todo(s)' = Ahead(w)' \o serialQueue'[s] /\ Running(s)' = Current(w)'
    BY <1>1, <2>1 DEF Shown
  <2> QED BY <2>2, <2>3
<1>3. CASE ~Drained(s)
  <2>1. ~Drained(s)'
    BY <1>3 DEF Drained
  <2> QED BY <1>1, <1>3, <2>1 DEF Shown
<1> QED BY <1>2, <1>3
\* A step the executor does not see.
LEMMA Unseen ==
    ASSUME \A s \in Sessions : Todo(s)' = Todo(s) /\ Running(s)' = Running(s),
           stopped' = stopped
    PROVE  UNCHANGED Executor!vars
BY DEF Executor!vars

\* Head and tail of what is taken from the front of a concatenation.
LEMMA FrontOfConcat ==
    ASSUME NEW a \in Seq(Jobs), NEW b \in Seq(Jobs), a # <<>>
    PROVE  a \o b # <<>> /\ Head(a \o b) = Head(a) /\ Tail(a \o b) = Tail(a) \o b
<1>1. /\ a \o b \in Seq(Jobs) /\ Len(a \o b) = Len(a) + Len(b)
      /\ \A i \in 1..(Len(a) + Len(b)) :
           (a \o b)[i] = IF i <= Len(a) THEN a[i] ELSE b[i - Len(a)]
  BY ConcatProperties
<1>2. Len(a) \in Nat \ {0} /\ Len(b) \in Nat
  BY LenProperties, EmptySeq
<1>3. a \o b # <<>>
  BY <1>1, <1>2, EmptySeq
<1>4. /\ Head(a \o b) = (a \o b)[1] /\ Tail(a \o b) \in Seq(Jobs)
      /\ Len(Tail(a \o b)) = Len(a) + Len(b) - 1
      /\ \A i \in 1..Len(Tail(a \o b)) : Tail(a \o b)[i] = (a \o b)[i + 1]
  BY <1>1, <1>3, HeadTailProperties
<1>5. /\ Head(a) = a[1] /\ Tail(a) \in Seq(Jobs) /\ Len(Tail(a)) = Len(a) - 1
      /\ \A i \in 1..Len(Tail(a)) : Tail(a)[i] = a[i + 1]
  BY HeadTailProperties
<1>6. /\ Tail(a) \o b \in Seq(Jobs) /\ Len(Tail(a) \o b) = Len(a) - 1 + Len(b)
      /\ \A i \in 1..(Len(a) - 1 + Len(b)) :
           (Tail(a) \o b)[i] = IF i <= Len(a) - 1 THEN Tail(a)[i] ELSE b[i - (Len(a) - 1)]
  BY <1>5, ConcatProperties
<1>7. Head(a \o b) = Head(a)
  BY <1>1, <1>2, <1>4, <1>5
<1>8. Tail(a \o b) = Tail(a) \o b
  <2>1. Len(Tail(a \o b)) = Len(Tail(a) \o b)
    BY <1>2, <1>4, <1>6
  <2>2. ASSUME NEW i \in 1..Len(Tail(a \o b)) PROVE Tail(a \o b)[i] = (Tail(a) \o b)[i]
    <3>1. i \in 1..(Len(a) + Len(b) - 1) /\ i + 1 \in 1..(Len(a) + Len(b))
      BY <1>2, <1>4
    <3>2. Tail(a \o b)[i] = IF i + 1 <= Len(a) THEN a[i + 1] ELSE b[i + 1 - Len(a)]
      BY <1>1, <1>4, <3>1
    <3>3. (Tail(a) \o b)[i] = IF i <= Len(a) - 1 THEN a[i + 1] ELSE b[i - (Len(a) - 1)]
      BY <1>2, <1>5, <1>6, <3>1
    <3>4. i + 1 - Len(a) = i - (Len(a) - 1) /\ (i + 1 <= Len(a) <=> i <= Len(a) - 1)
      BY <1>2, <3>1
    <3> QED BY <3>2, <3>3, <3>4
  <2> QED BY <1>4, <1>6, <2>1, <2>2, SeqEqual
<1> QED BY <1>3, <1>7, <1>8

LEMMA SubmitMaps ==
    ASSUME Typed, RightInv, RightInv', NEW t \in Threads, NEW s \in Sessions, NEW j \in Jobs,
           Submit(t, s, j)
    PROVE  Executor!Accept(s, j)
<1> USE DEF Typed, TypeOK, RightInv
<1>1. /\ serialQueue' = [serialQueue EXCEPT ![s] = Append(serialQueue[s], j)]
      /\ wsess' = wsess /\ batch' = batch /\ stopped' = stopped
      /\ \A w \in Workers : wpc'[w] = wpc[w] \/ (wpc[w] = "job" /\ wpc'[w] = "jobEnd")
  BY DEF Submit, MaySubmit
<1>2. \A w \in Workers : InJob(w)' <=> InJob(w)
  BY <1>1 DEF InJob
<1>3. \A w \in Workers, x \in Sessions : Draining(w, x)' <=> Draining(w, x)
  BY <1>1 DEF Draining
<1>4. \A x \in Sessions : x # s => Todo(x)' = Todo(x) /\ Running(x)' = Running(x)
  BY <1>1, <1>2, <1>3, MapKept
<1>5. Todo(s)' = Append(Todo(s), j) /\ Running(s)' = Running(s)
  <2>0. Shown /\ Shown'
    BY ShownAlways, ShownNext
  <2>1. CASE Drained(s)
    <3>1. PICK w \in Workers : Draining(w, s)
      BY <2>1 DEF Drained
    <3>2. Ahead(w)' = Ahead(w) /\ Current(w)' = Current(w)
      BY <1>1, <1>2 DEF Ahead, Current
    <3>3. /\ Todo(s) = Ahead(w) \o serialQueue[s] /\ Running(s) = Current(w)
          /\ Todo(s)' = Ahead(w)' \o serialQueue'[s] /\ Running(s)' = Current(w)'
      BY <1>3, <2>0, <3>1 DEF Shown
    <3>4. Ahead(w) \in Seq(Jobs)
      BY HeadTailProperties DEF Ahead, InJob, PcInv
    <3>5. Ahead(w) \o Append(serialQueue[s], j) = Append(Ahead(w) \o serialQueue[s], j)
      <4>1. Ahead(w) \o serialQueue[s] \in Seq(Jobs) /\ <<j>> \in Seq(Jobs)
        BY <3>4, ConcatProperties
      <4>2. /\ Append(serialQueue[s], j) = serialQueue[s] \o <<j>>
            /\ Append(Ahead(w) \o serialQueue[s], j) = (Ahead(w) \o serialQueue[s]) \o <<j>>
        BY <4>1, AppendIsConcat
      <4> QED BY <3>4, <4>1, <4>2, ConcatAssociative, SMTT(60)
    <3> QED BY <1>1, <3>2, <3>3, <3>5
  <2>2. CASE ~Drained(s)
    <3>1. ~Drained(s)'
      BY <1>3, <2>2 DEF Drained
    <3> QED BY <1>1, <2>0, <2>2, <3>1 DEF Shown
  <2> QED BY <2>1, <2>2
<1> QED BY <1>1, <1>4, <1>5 DEF Executor!Accept

LEMMA SubmitStepMaps ==
    ASSUME RightInv, RightInv', NEW t \in Threads, SubmitStep(t)
    PROVE  UNCHANGED Executor!vars
<1>1. serialQueue' = serialQueue /\ UNCHANGED workerVars /\ stopped' = stopped
  BY DEF SubmitStep, AcquireHold, PushRight, UndoSubmit
<1>2. \A s \in Sessions : Todo(s)' = Todo(s) /\ Running(s)' = Running(s)
  BY <1>1, MapKept DEF RightInv, workerVars, Draining, InJob
<1> QED BY <1>1, <1>2, Unseen
\* What the session of one worker shows when that worker steps and keeps it.
LEMMA WorkerShows ==
    ASSUME DrainedOnce, DrainedOnce', NEW w \in Workers, NEW s \in Sessions,
           Draining(w, s), Draining(w, s)'
    PROVE  /\ Todo(s) = Ahead(w) \o serialQueue[s] /\ Running(s) = Current(w)
           /\ Todo(s)' = Ahead(w)' \o serialQueue'[s] /\ Running(s)' = Current(w)'
BY ShownAlways, ShownNext DEF Shown

\* A worker's step is not seen through the other sessions.
LEMMA OthersShowTheSame ==
    ASSUME Typed, DrainedOnce, DrainedOnce', NEW w \in Workers, NEW s \in Sessions,
           wsess[w] \in {s, NoSession}, wsess'[w] \in {s, NoSession},
           \A x \in Sessions : x # s => serialQueue'[x] = serialQueue[x],
           \A v \in Workers : v # w =>
               wsess'[v] = wsess[v] /\ wpc'[v] = wpc[v] /\ batch'[v] = batch[v],
           NEW x \in Sessions, x # s
    PROVE  Todo(x)' = Todo(x) /\ Running(x)' = Running(x)
<1>1. ~Draining(w, x) /\ ~Draining(w, x)'
  BY SerialQueueAssumption DEF Draining
<1>2. \A v \in Workers : Draining(v, x)' <=> Draining(v, x)
  BY <1>1 DEF Draining
<1>3. \A v \in Workers : Draining(v, x) => batch'[v] = batch[v] /\ (InJob(v)' <=> InJob(v))
  BY <1>1 DEF InJob
<1> QED BY <1>2, <1>3, MapKept

LEMMA BeginMaps ==
    ASSUME Typed, RightInv, RightInv', NEW w \in Workers, BeginJob(w)
    PROVE  Executor!Begin(wsess[w])
<1> USE DEF Typed, TypeOK, RightInv
<1>1. PICK s \in Sessions : s = wsess[w]
  BY DEF BeginJob, PcInv
<1>2. /\ wpc[w] = "run" /\ batch[w] # <<>> /\ wpc' = [wpc EXCEPT ![w] = "job"]
      /\ serialQueue' = serialQueue /\ wsess' = wsess /\ batch' = batch /\ stopped' = stopped
  BY DEF BeginJob
<1>3. ~InJob(w) /\ InJob(w)' /\ Draining(w, s) /\ Draining(w, s)'
  BY <1>1, <1>2 DEF InJob, Draining
<1>4. \A x \in Sessions : x # s => Todo(x)' = Todo(x) /\ Running(x)' = Running(x)
  BY <1>1, <1>2, OthersShowTheSame
<1>5. /\ Todo(s) = batch[w] \o serialQueue[s] /\ Running(s) = NoJob
      /\ Todo(s)' = Tail(batch[w]) \o serialQueue[s] /\ Running(s)' = Head(batch[w])
  BY <1>2, <1>3, WorkerShows DEF Ahead, Current
<1>6. /\ Todo(s) # <<>> /\ Head(Todo(s)) = Head(batch[w])
      /\ Tail(Todo(s)) = Tail(batch[w]) \o serialQueue[s]
  BY <1>2, <1>5, FrontOfConcat, ZenonT(60)
<1>7. Executor!Begin(s)
  BY <1>2, <1>4, <1>5, <1>6 DEF Executor!Begin
<1> QED BY <1>1, <1>7

LEMMA FinishMaps ==
    ASSUME Typed, RightInv, RightInv', NEW w \in Workers, EndJob(w)
    PROVE  Executor!Finish(wsess[w])
<1> USE DEF Typed, TypeOK, RightInv
<1>1. PICK s \in Sessions : s = wsess[w]
  BY DEF EndJob, PcInv
<1>2. /\ InJob(w) /\ batch[w] # <<>> /\ wpc' = [wpc EXCEPT ![w] = "run"]
      /\ batch' = [batch EXCEPT ![w] = Tail(batch[w])]
      /\ serialQueue' = serialQueue /\ wsess' = wsess /\ stopped' = stopped
  BY DEF EndJob, PcInv, InJob
<1>3. ~InJob(w)' /\ Draining(w, s) /\ Draining(w, s)'
  BY <1>1, <1>2 DEF InJob, Draining
<1>4. \A x \in Sessions : x # s => Todo(x)' = Todo(x) /\ Running(x)' = Running(x)
  BY <1>1, <1>2, OthersShowTheSame
<1>5. /\ Todo(s)' = Todo(s) /\ Running(s) = Head(batch[w]) /\ Running(s)' = NoJob
  BY <1>2, <1>3, WorkerShows DEF Ahead, Current
<1>6. Running(s) # NoJob
  BY <1>2, <1>5, HeadTailProperties, SerialQueueAssumption
<1>7. Executor!Finish(s)
  BY <1>2, <1>4, <1>5, <1>6 DEF Executor!Finish
<1> QED BY <1>1, <1>7

\* Taking a right, a batch, and giving the right back are not seen.
LEMMA HandlingUnseen ==
    ASSUME Typed, Typed', RightInv, RightInv', BatchInv, NEW w \in Workers,
           \/ Pop(w) \/ Exit(w) \/ TakeBatch(w) \/ Recheck(w)
           \/ ReleaseHold(w) \/ Resubmit(w) \/ Abandon(w)
    PROVE  UNCHANGED Executor!vars
<1> USE DEF Typed, TypeOK, RightInv
<1>1. CASE Exit(w) \/ ReleaseHold(w)
  <2>1. /\ serialQueue' = serialQueue /\ batch' = batch /\ stopped' = stopped
        /\ \A v \in Workers : v # w => wsess'[v] = wsess[v] /\ wpc'[v] = wpc[v]
        /\ wpc[w] \in {"pop", "release"} /\ wpc'[w] \in {"pop", "exit"}
    BY <1>1 DEF Exit, ReleaseHold
  <2>2. \A s \in Sessions : \A v \in Workers : Draining(v, s)' <=> Draining(v, s)
    BY <2>1 DEF Draining
  <2>3. \A v \in Workers : InJob(v)' <=> InJob(v)
    BY <2>1 DEF InJob
  <2>4. \A s \in Sessions : Todo(s)' = Todo(s) /\ Running(s)' = Running(s)
    BY <2>1, <2>2, <2>3, MapKept
  <2> QED BY <2>1, <2>4, Unseen
<1>2. CASE Pop(w)
  <2>1. /\ rights # <<>> /\ Head(rights) \in Sessions /\ Queued(Head(rights))
        /\ wsess' = [wsess EXCEPT ![w] = Head(rights)] /\ wpc' = [wpc EXCEPT ![w] = "take"]
        /\ batch' = batch /\ serialQueue' = serialQueue /\ stopped' = stopped
        /\ wsess[w] = NoSession /\ batch[w] = <<>> /\ wpc[w] = "pop"
    BY <1>2, TailRight DEF Pop, PcInv, BatchInv
  <2>2. PICK s \in Sessions : s = Head(rights)
    BY <2>1
  <2>3. \A x \in Sessions : x # s => Todo(x)' = Todo(x) /\ Running(x)' = Running(x)
    BY <2>1, <2>2, OthersShowTheSame
  <2>4. Todo(s)' = Todo(s) /\ Running(s)' = Running(s)
    <3>1. ~Drained(s) /\ Draining(w, s)'
      BY <2>1, <2>2 DEF Exclusive, Draining
    <3>2. Todo(s) = serialQueue[s] /\ Running(s) = NoJob
      BY <3>1, ShownAlways DEF Shown
    <3>3. Todo(s)' = Ahead(w)' \o serialQueue'[s] /\ Running(s)' = Current(w)'
      BY <3>1, ShownNext DEF Shown
    <3>4. Ahead(w)' = <<>> /\ Current(w)' = NoJob
      BY <2>1 DEF Ahead, Current, InJob
    <3> QED BY <2>1, <3>2, <3>3, <3>4, ConcatEmptySeq
  <2> QED BY <2>1, <2>3, <2>4, Unseen
<1>3. CASE TakeBatch(w)
  <2>1. PICK s \in Sessions : s = wsess[w]
    BY <1>3 DEF TakeBatch, PcInv
  <2> DEFINE q == serialQueue[s]
             n == BatchSize(q)
  <2>2. /\ wpc[w] = "take" /\ wpc' = [wpc EXCEPT ![w] = "run"] /\ wsess' = wsess
        /\ batch' = [batch EXCEPT ![w] = SubSeq(q, 1, n)]
        /\ serialQueue' = [serialQueue EXCEPT ![s] = SubSeq(q, n + 1, Len(q))]
        /\ stopped' = stopped
    BY <1>3, <2>1 DEF TakeBatch
  <2>3. batch[w] = <<>>
    BY <2>2 DEF BatchInv
  <2>4. \A x \in Sessions : x # s => Todo(x)' = Todo(x) /\ Running(x)' = Running(x)
    <3> HIDE DEF q, n
    <3> QED BY <2>1, <2>2, OthersShowTheSame
  <2>5. SubSeq(q, 1, n) \o SubSeq(q, n + 1, Len(q)) = q
    <3>1. q \in Seq(Jobs) /\ Len(q) \in Nat
      BY LenProperties
    <3>2. n \in 0..Len(q)
      BY <3>1, SerialQueueAssumption DEF BatchSize
    <3> HIDE DEF q, n
    <3>3. SubSeq(q, 1, n) \o SubSeq(q, n + 1, Len(q)) = SubSeq(q, 1, Len(q))
      <4>1. 1 \in 1..(Len(q) + 1) /\ n \in (1 - 1)..Len(q) /\ Len(q) \in n..Len(q)
        BY <3>1, <3>2
      <4> QED BY <3>1, <4>1, ConcatAdjacentSubSeq
    <3> QED BY <3>1, <3>3, SubSeqFull
  <2>6. Todo(s)' = Todo(s) /\ Running(s)' = Running(s)
    <3>1. Draining(w, s) /\ Draining(w, s)'
      BY <2>1, <2>2 DEF Draining
    <3>2. ~InJob(w) /\ ~InJob(w)'
      BY <2>2 DEF InJob
    <3> HIDE DEF n
    <3>3. /\ Ahead(w) = <<>> /\ Ahead(w)' = SubSeq(q, 1, n)
          /\ Current(w) = NoJob /\ Current(w)' = NoJob
          /\ serialQueue'[s] = SubSeq(q, n + 1, Len(q))
      BY <2>2, <2>3, <3>2 DEF Ahead, Current
    <3>4. <<>> \o q = q
      BY ConcatEmptySeq
    <3> QED BY <2>5, <3>1, <3>3, <3>4, WorkerShows
  <2> QED BY <2>2, <2>4, <2>6, Unseen
<1>4. CASE Recheck(w) \/ Resubmit(w) \/ Abandon(w)
  <2>1. PICK s \in Sessions : s = wsess[w]
    BY <1>4 DEF Recheck, Resubmit, Abandon, PcInv
  <2>2. /\ wpc[w] \in {"run", "resubmit", "abandon"} /\ batch[w] = <<>>
        /\ batch' = batch /\ serialQueue' = serialQueue /\ stopped' = stopped
        /\ \A v \in Workers : v # w => wsess'[v] = wsess[v] /\ wpc'[v] = wpc[v]
        /\ wpc'[w] \in {"pop", "release", "resubmit", "abandon"}
        /\ wsess'[w] \in {s, NoSession}
    BY <1>4, <2>1, ZenonT(60) DEF Recheck, Resubmit, Abandon, BatchInv
  <2>3. \A x \in Sessions : x # s => Todo(x)' = Todo(x) /\ Running(x)' = Running(x)
    BY <2>1, <2>2, OthersShowTheSame
  <2>4. Todo(s)' = Todo(s) /\ Running(s)' = Running(s)
    <3>1. Draining(w, s)
      BY <2>1, <2>2 DEF Draining
    <3>2. /\ Ahead(w) = <<>> /\ Current(w) = NoJob
          /\ Ahead(w)' = <<>> /\ Current(w)' = NoJob
      BY <2>2 DEF Ahead, Current, InJob
    <3>3. Todo(s) = serialQueue[s] /\ Running(s) = NoJob
      <4>1. Todo(s) = <<>> \o serialQueue[s] /\ Running(s) = NoJob
        BY <3>1, <3>2, ShownAlways DEF Shown
      <4> QED BY <4>1, ConcatEmptySeq
    <3>4. CASE Draining(w, s)'
      <4>1. Todo(s)' = <<>> \o serialQueue'[s] /\ Running(s)' = NoJob
        BY <3>2, <3>4, ShownNext DEF Shown
      <4> QED BY <2>2, <3>3, <4>1, ConcatEmptySeq
    <3>5. CASE ~Draining(w, s)'
      <4>1. ~Drained(s)'
        <5>1. ASSUME NEW v \in Workers, Draining(v, s)' PROVE FALSE
          <6>1. v # w
            BY <3>5, <5>1
          <6>2. Draining(v, s)
            BY <2>2, <5>1, <6>1 DEF Draining
          <6> QED BY <3>1, <6>1, <6>2 DEF DrainedOnce
        <5> QED BY <5>1 DEF Drained
      <4> QED BY <2>2, <3>3, <4>1, ShownNext DEF Shown
    <3> QED BY <3>4, <3>5
  <2> QED BY <2>2, <2>3, <2>4, Unseen
<1> QED BY <1>1, <1>2, <1>3, <1>4

\* Every step of the pool is a step of the executor, or is not seen.
LEMMA StepMaps ==
    Typed /\ Typed' /\ RightInv /\ RightInv' /\ BatchInv /\ [Next]_vars
        => [Executor!Next]_(Executor!vars)
<1> SUFFICES ASSUME Typed, Typed', RightInv, RightInv', BatchInv, [Next]_vars
             PROVE  Executor!Next \/ UNCHANGED Executor!vars
  OBVIOUS
<1>1. ASSUME NEW t \in Threads, NEW s \in Sessions, NEW j \in Jobs, Submit(t, s, j)
      PROVE  Executor!Next
  BY <1>1, SubmitMaps DEF Executor!Next
<1>2. ASSUME NEW t \in Threads, SubmitStep(t) PROVE UNCHANGED Executor!vars
  BY <1>2, SubmitStepMaps
<1>3. ASSUME NEW w \in Workers, WorkerStep(w)
      PROVE  Executor!Next \/ UNCHANGED Executor!vars
  <2>1. CASE BeginJob(w)
    <3>1. wsess[w] \in Sessions
      BY <2>1 DEF Typed, PcInv, BeginJob
    <3> QED BY <2>1, <3>1, BeginMaps DEF Executor!Next
  <2>2. CASE EndJob(w)
    <3>1. wsess[w] \in Sessions
      BY <2>2 DEF Typed, PcInv, EndJob
    <3> QED BY <2>2, <3>1, FinishMaps DEF Executor!Next
  <2>3. CASE ~BeginJob(w) /\ ~EndJob(w)
    BY <1>3, <2>3, HandlingUnseen DEF WorkerStep
  <2> QED BY <2>1, <2>2, <2>3
<1>4. ASSUME UNCHANGED <<serialQueue, wpc, wsess, batch>>
      PROVE  \A s \in Sessions : Todo(s)' = Todo(s) /\ Running(s)' = Running(s)
  BY <1>4, MapKept DEF RightInv, Draining, InJob
<1>5. CASE Stop
  BY <1>4, <1>5 DEF Stop, workerVars, Executor!Next, Executor!Close
<1>6. CASE UNCHANGED vars \/ Terminated
  BY <1>4, <1>6, Unseen DEF vars, Terminated
<1> QED BY <1>1, <1>2, <1>3, <1>5, <1>6 DEF Next

LEMMA InitMaps == Init => Executor!Init
<1> SUFFICES ASSUME Init PROVE Executor!Init
  OBVIOUS
<1>1. \A s \in Sessions : ~Drained(s)
  BY DEF Init, Drained, Draining
<1>2. Shown
  BY RightInit, ShownAlways DEF RightInv
<1>3. \A s \in Sessions : Todo(s) = <<>> /\ Running(s) = NoJob
  BY <1>1, <1>2 DEF Shown, Init
<1> QED BY <1>3 DEF Init, Executor!Init

\* The pool is a serial executor, for any number of threads, sessions and jobs: the jobs
\* of a session begin one at a time and in the order in which submit() took them, none is
\* skipped and none begun twice, stopped or not.  (That they do begin is liveness: TLC's.)
THEOREM PoolIsSerialExecutor == Spec => Executor!SafeSpec
<1> DEFINE Inv == Typed /\ RightInv /\ BatchInv
<1>1. Init => Inv /\ Executor!Init
  BY TypedInit, RightInit, BatchInit, InitMaps
<1>2. Inv /\ [Next]_vars => Inv'
  BY TypedStep, RightStep, BatchStep
<1>3. Inv /\ Inv' /\ [Next]_vars => [Executor!Next]_(Executor!vars)
  BY StepMaps
<1> QED BY <1>1, <1>2, <1>3, PTL DEF Spec, Executor!SafeSpec
=============================================================================
