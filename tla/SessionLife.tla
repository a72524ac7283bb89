---------------------------- MODULE SessionLife ----------------------------
(***************************************************************************)
(* The life of a net::Session in the village server: accepted, read from,  *)
(* written to, entered in the roster, closed by whichever thread gets      *)
(* there first, cleaned up by a job of its own serial queue and deleted    *)
(* when nothing holds it any more (net::IocpServer, and the parts of       *)
(* app/frame_router.cpp that take or give back a hold).                    *)
(*                                                                         *)
(* A step is what one thread does up to the next point where another       *)
(* thread can see the difference: one atomic operation on io_count or      *)
(* closing, or one critical section of sessions_mutex_, of the roster's L1 *)
(* lock or of sq_mutex.  The pool is the serial executor that module       *)
(* SerialQueue implements; of the send buffers only "a send is             *)
(* outstanding" is kept.                                                   *)
(***************************************************************************)
EXTENDS Integers, Sequences, FiniteSets, Functions

CONSTANTS
    Sessions,        \* Session objects, never reused
    IoWorkers,       \* threads in IocpServer::worker_loop
    PoolWorkers,     \* threads in WorkerPool::worker_loop
    Acceptor,        \* the accept thread
    Closers,         \* threads that close by id or by idleness: sweep, S2S
    NoSession,
    MaxConnections,  \* max_connections_ (0: no limit)
    FramePool,       \* frame_pool_ capacity
    MaxFrames        \* bound of the model: frames all peers ever send

ASSUME SessionLifeAssumption ==
    /\ NoSession \notin Sessions
    /\ IsFiniteSet(IoWorkers) /\ IsFiniteSet(PoolWorkers) /\ IsFiniteSet(Closers)
    /\ Acceptor \notin IoWorkers \cup PoolWorkers \cup Closers
    /\ IoWorkers \cap PoolWorkers = {} /\ Closers \cap (IoWorkers \cup PoolWorkers) = {}
    /\ MaxConnections \in Nat
    /\ FramePool \in Nat
    /\ MaxFrames \in Nat

VARIABLES
    life,        \* "absent", "mapped" (in sessions_), "freed"
    closing,     \* Session::closing
    ioCount,     \* Session::io_count
    recv,        \* the kernel owns recv_ctx and recv_buf
    send,        \* "idle" (sending = false), "posted" (the kernel owns front),
                 \* "owned" (sending = true, no WSASend outstanding)
    toSend,      \* frames the peer may still send (bound)
    todo,        \* Session::serial_queue: jobs "frame" and "gone"
    scheduled,   \* Session::sq_scheduled
    entered,     \* Session::player_id # 0
    roster,      \* the session has an entry in EntryTable::entered_
    cleaned,     \* history: the cleanup job has run
    freeBufs,    \* free buffers of frame_pool_
    phase,       \* how far main() and IocpServer::stop have come
    pc,          \* per thread
    at,          \* per thread: the session its next step touches
    own,         \* per pool worker: the session whose right it holds
    job          \* per pool worker: the job it executes

sessionVars == <<life, closing, recv, send, toSend, entered, roster, cleaned>>
queueVars == <<todo, scheduled>>
threadVars == <<pc, at, own, job>>
vars == <<sessionVars, ioCount, queueVars, freeBufs, phase, threadVars>>

Threads == IoWorkers \cup PoolWorkers \cup {Acceptor} \cup Closers
Jobs == {"frame", "gone"}

TypeOK ==
    /\ life \in [Sessions -> {"absent", "mapped", "freed"}]
    /\ closing \in [Sessions -> BOOLEAN]
    /\ ioCount \in [Sessions -> Nat]
    /\ recv \in [Sessions -> BOOLEAN]
    /\ send \in [Sessions -> {"idle", "posted", "owned"}]
    /\ toSend \in [Sessions -> 0..MaxFrames]
    /\ todo \in [Sessions -> Seq(Jobs)]
    /\ scheduled \in [Sessions -> BOOLEAN]
    /\ entered \in [Sessions -> BOOLEAN]
    /\ roster \in [Sessions -> BOOLEAN]
    /\ cleaned \in [Sessions -> BOOLEAN]
    /\ freeBufs \in 0..FramePool
    /\ phase \in {"up", "stopping", "closed", "ioGone", "cleared"}
    /\ pc \in [Threads -> {"idle", "exit", "post", "drain", "sent", "close", "handoff",
                           "release", "remove", "next", "frame", "enter", "check",
                           "reply", "peer", "finish", "gone", "tell"}]
    /\ at \in [Threads -> Sessions \cup {NoSession}]
    /\ own \in [PoolWorkers -> Sessions \cup {NoSession}]
    /\ job \in [PoolWorkers -> Jobs \cup {"none"}]

Init ==
    /\ life = [s \in Sessions |-> "absent"]
    /\ closing = [s \in Sessions |-> FALSE]
    /\ ioCount = [s \in Sessions |-> 0]
    /\ recv = [s \in Sessions |-> FALSE]
    /\ send = [s \in Sessions |-> "idle"]
    /\ toSend \in {f \in [Sessions -> 0..MaxFrames] : SumFunction(f) = MaxFrames}
    /\ todo = [s \in Sessions |-> <<>>]
    /\ scheduled = [s \in Sessions |-> FALSE]
    /\ entered = [s \in Sessions |-> FALSE]
    /\ roster = [s \in Sessions |-> FALSE]
    /\ cleaned = [s \in Sessions |-> FALSE]
    /\ freeBufs = FramePool
    /\ phase = "up"
    /\ pc = [t \in Threads |-> "idle"]
    /\ at = [t \in Threads |-> NoSession]
    /\ own = [w \in PoolWorkers |-> NoSession]
    /\ job = [w \in PoolWorkers |-> "none"]

-----------------------------------------------------------------------------
(* Threads *)

Mapped == {s \in Sessions : life[s] = "mapped"}

\* WSARecv and WSASend fail from here on: close_session or stop() closed it.
SocketClosed(s) == closing[s] \/ phase \in {"closed", "ioGone", "cleared"}

Goto(t, label) == pc' = [pc EXCEPT ![t] = label]

GotoWith(t, label, s) ==
    /\ pc' = [pc EXCEPT ![t] = label]
    /\ at' = [at EXCEPT ![t] = s]

Hold(s) == ioCount' = [ioCount EXCEPT ![s] = @ + 1]
Drop(s) == ioCount' = [ioCount EXCEPT ![s] = @ - 1]

-----------------------------------------------------------------------------
(* WorkerPool::submit as the callers see it *)

\* The job is queued and, if nobody drains the session, so is an execution
\* right with a hold of its own.  extra: the holds the caller took for the job.
Enqueue(s, j, extra) ==
    /\ todo' = [todo EXCEPT ![s] = Append(@, j)]
    /\ scheduled' = [scheduled EXCEPT ![s] = TRUE]
    /\ ioCount' = [ioCount EXCEPT ![s] = @ + extra + (IF scheduled[s] THEN 0 ELSE 1)]

\* queue_.stop() has been called and no worker drains s: submit() gives its hold
\* back and returns false.  The job stays in a queue nothing runs any more.
Refused(s) == phase = "ioGone" /\ ~scheduled[s]

-----------------------------------------------------------------------------
(* close_session, release_io, try_remove_session: any thread *)

\* Where a thread goes on after close_session(at).
AfterClose(t) ==
    CASE t = Acceptor -> "remove"     \* it has no hold to give back
      [] t \in PoolWorkers /\ at[t] = own[t] -> "finish"
      [] OTHER -> "release"

\* Mutant: closing is read and then written, so a second closer gets through.
MarkClosingTwice(t) ==
    /\ pc[t] = "close"
    /\ closing' = [closing EXCEPT ![at[t]] = TRUE]
    /\ Goto(t, "handoff")
    /\ UNCHANGED <<life, recv, send, toSend, entered, roster, cleaned, ioCount,
                   queueVars, freeBufs, phase, at, own, job>>

\* closing.exchange(true), then closesocket: only the first one goes on.
MarkClosing(t) ==
    /\ pc[t] = "close"
    /\ closing' = [closing EXCEPT ![at[t]] = TRUE]
    /\ Goto(t, IF closing[at[t]] THEN AfterClose(t) ELSE "handoff")
    /\ UNCHANGED <<life, recv, send, toSend, entered, roster, cleaned, ioCount,
                   queueVars, freeBufs, phase, at, own, job>>

\* Mutant: the cleanup job gets no hold of its own.
HandOffUnheld(t) ==
    /\ pc[t] = "handoff"
    /\ IF Refused(at[t])
       THEN UNCHANGED <<ioCount, queueVars>>
       ELSE Enqueue(at[t], "gone", 0)
    /\ Goto(t, AfterClose(t))
    /\ UNCHANGED <<sessionVars, freeBufs, phase, at, own, job>>

\* session_gone_: the cleanup job goes to the session's own queue with a hold.
HandOff(t) ==
    /\ pc[t] = "handoff"
    /\ IF Refused(at[t])
       THEN UNCHANGED <<ioCount, queueVars>>
       ELSE Enqueue(at[t], "gone", 1)
    /\ Goto(t, AfterClose(t))
    /\ UNCHANGED <<sessionVars, freeBufs, phase, at, own, job>>

\* Where a thread goes on after release_io(at).
AfterRelease(t) ==
    IF t \notin PoolWorkers \/ own[t] = NoSession
    THEN GotoWith(t, "idle", NoSession) /\ UNCHANGED job
    ELSE IF at[t] = own[t]
    THEN GotoWith(t, "next", NoSession) /\ job' = [job EXCEPT ![t] = "none"]
    ELSE /\ GotoWith(t, IF job[t] = "frame" THEN "finish" ELSE "release", own[t])
         /\ UNCHANGED job

\* fetch_sub: only the thread that reaches 0 looks further.
ReleaseIo(t) ==
    /\ pc[t] = "release"
    /\ Drop(at[t])
    /\ IF ioCount[at[t]] = 1
       THEN Goto(t, "remove") /\ UNCHANGED <<at, job>>
       ELSE AfterRelease(t)
    /\ UNCHANGED <<sessionVars, queueVars, freeBufs, phase, own>>

\* Under sessions_mutex_, by pointer: the object may be gone already.
TryRemove(t) ==
    /\ pc[t] = "remove"
    /\ life' = IF life[at[t]] = "mapped" /\ closing[at[t]] /\ ioCount[at[t]] = 0
               THEN [life EXCEPT ![at[t]] = "freed"] ELSE life
    /\ AfterRelease(t)
    /\ UNCHANGED <<closing, recv, send, toSend, entered, roster, cleaned, ioCount,
                   queueVars, freeBufs, phase, own>>

CloseStep(t) == MarkClosing(t) \/ HandOff(t) \/ ReleaseIo(t) \/ TryRemove(t)

-----------------------------------------------------------------------------
(* The accept thread *)

\* add_session: full means the socket is closed and no Session is made.
AddSession(s) ==
    /\ life[s] = "absent"
    /\ MaxConnections # 0 => Cardinality(Mapped) < MaxConnections
    /\ life' = [life EXCEPT ![s] = "mapped"]

Accept(s) ==
    /\ pc[Acceptor] = "idle"
    /\ phase = "up"
    /\ AddSession(s)
    /\ GotoWith(Acceptor, "post", s)
    /\ UNCHANGED <<closing, recv, send, toSend, entered, roster, cleaned, ioCount,
                   queueVars, freeBufs, phase, own, job>>

\* post_recv.  The thread that posts again still has the hold of the completion
\* it is handling; the accept thread has none.
PostRecv(t) ==
    /\ pc[t] = "post"
    /\ t \in IoWorkers => phase = "up"             \* running_
    /\ ~SocketClosed(at[t])
    /\ recv' = [recv EXCEPT ![at[t]] = TRUE]
    /\ Hold(at[t])
    /\ IF t = Acceptor THEN GotoWith(t, "idle", NoSession)
                       ELSE Goto(t, "release") /\ UNCHANGED at
    /\ UNCHANGED <<life, closing, send, toSend, entered, roster, cleaned,
                   queueVars, freeBufs, phase, own, job>>

\* closing is set, running_ is not, the buffer is full, or WSARecv fails and the
\* hold it was given is taken back.  For the accept thread also: the socket cannot
\* be associated with the completion port.
PostRecvFails(t) ==
    /\ pc[t] = "post"
    /\ Goto(t, "close")
    /\ UNCHANGED <<sessionVars, ioCount, queueVars, freeBufs, phase, at, own, job>>

-----------------------------------------------------------------------------
(* I/O workers: a completion's hold passes to the worker that dequeues it *)

\* An error, or 0 bytes: the peer has closed.
RecvFails(w, s) ==
    /\ pc[w] = "idle"
    /\ recv[s]
    /\ recv' = [recv EXCEPT ![s] = FALSE]
    /\ GotoWith(w, "close", s)
    /\ UNCHANGED <<life, closing, send, toSend, entered, roster, cleaned, ioCount,
                   queueVars, freeBufs, phase, own, job>>

RecvData(w, s) ==
    /\ pc[w] = "idle"
    /\ recv[s]
    /\ recv' = [recv EXCEPT ![s] = FALSE]
    /\ GotoWith(w, "drain", s)
    /\ UNCHANGED <<life, closing, send, toSend, entered, roster, cleaned, ioCount,
                   queueVars, freeBufs, phase, own, job>>

\* One turn of drain_frames: a buffer, a hold and a job per frame.  closing is
\* not looked at.
DrainFrame(w) ==
    /\ pc[w] = "drain"
    /\ toSend[at[w]] > 0
    /\ toSend' = [toSend EXCEPT ![at[w]] = @ - 1]
    /\ IF freeBufs = 0
       THEN Goto(w, "close") /\ UNCHANGED <<ioCount, queueVars, freeBufs>>
       ELSE /\ freeBufs' = freeBufs - 1
            /\ Enqueue(at[w], "frame", 1)
            /\ UNCHANGED pc
    /\ UNCHANGED <<life, closing, recv, send, entered, roster, cleaned, phase, at, own, job>>

\* No whole frame is left, or the sizer found a broken one.
DrainEnds(w) ==
    /\ pc[w] = "drain"
    /\ \E label \in {"post", "close"} : Goto(w, label)
    /\ UNCHANGED <<sessionVars, ioCount, queueVars, freeBufs, phase, at, own, job>>

\* The error path leaves sending as it is: nothing will be sent any more.
SendFails(w, s) ==
    /\ pc[w] = "idle"
    /\ send[s] = "posted"
    /\ send' = [send EXCEPT ![s] = "owned"]
    /\ GotoWith(w, "close", s)
    /\ UNCHANGED <<life, closing, recv, toSend, entered, roster, cleaned, ioCount,
                   queueVars, freeBufs, phase, own, job>>

SendDone(w, s) ==
    /\ pc[w] = "idle"
    /\ send[s] = "posted"
    /\ send' = [send EXCEPT ![s] = "owned"]
    /\ GotoWith(w, "sent", s)
    /\ UNCHANGED <<life, closing, recv, toSend, entered, roster, cleaned, ioCount,
                   queueVars, freeBufs, phase, own, job>>

\* post_send by the thread that owns sending: post the rest or the next batch,
\* find nothing to send, or fail.
PostSend(t, yes, no) ==
    \/ /\ ~SocketClosed(at[t])
       /\ send' = [send EXCEPT ![at[t]] = "posted"]
       /\ Hold(at[t])
       /\ Goto(t, yes)
    \/ /\ send' = [send EXCEPT ![at[t]] = "idle"]
       /\ \E label \in {yes, no} : Goto(t, label)
       /\ UNCHANGED ioCount

AfterSend(w) ==
    /\ pc[w] = "sent"
    /\ PostSend(w, "release", "close")
    /\ UNCHANGED <<life, closing, recv, toSend, entered, roster, cleaned,
                   queueVars, freeBufs, phase, at, own, job>>

IoExit(w) ==
    /\ pc[w] = "idle"
    /\ phase = "closed"
    /\ Goto(w, "exit")
    /\ UNCHANGED <<sessionVars, ioCount, queueVars, freeBufs, phase, at, own, job>>

-----------------------------------------------------------------------------
(* sweep_loop and close_by_id *)

\* The hold is taken under sessions_mutex_.
HeldToClose(c, s) ==
    /\ pc[c] = "idle"
    /\ phase = "up"
    /\ life[s] = "mapped"
    /\ ~closing[s]
    /\ Hold(s)
    /\ GotoWith(c, "close", s)
    /\ UNCHANGED <<sessionVars, queueVars, freeBufs, phase, own, job>>

\* Assumption of the model: the accept thread spends less than the idle timeout
\* (90 s) between add_session and post_recv, where it has no hold.
CloseIdle(c, s) == at[Acceptor] # s /\ HeldToClose(c, s)

\* A Kick: the id is one the roster has, or had when it was asked.
CloseById(c, s) == (roster[s] \/ entered[s]) /\ HeldToClose(c, s)

-----------------------------------------------------------------------------
(* Pool workers: the jobs of a session, one at a time *)

Drained(s) == \E w \in PoolWorkers : own[w] = s

Take(w, s) ==
    /\ pc[w] = "idle"
    /\ scheduled[s]
    /\ ~Drained(s)
    /\ own' = [own EXCEPT ![w] = s]
    /\ Goto(w, "next")
    /\ UNCHANGED <<sessionVars, ioCount, queueVars, freeBufs, phase, at, job>>

BeginJob(w) ==
    /\ pc[w] = "next"
    /\ todo[own[w]] # <<>>
    /\ job' = [job EXCEPT ![w] = Head(todo[own[w]])]
    /\ todo' = [todo EXCEPT ![own[w]] = Tail(@)]
    /\ GotoWith(w, Head(todo[own[w]]), own[w])
    /\ UNCHANGED <<sessionVars, ioCount, scheduled, freeBufs, phase, own>>

\* The right ends: nothing is left to do, or the stopped queue refuses it.
EndRight(w) ==
    /\ pc[w] = "next"
    /\ todo[own[w]] = <<>> \/ phase = "ioGone"
    /\ scheduled' = [scheduled EXCEPT ![own[w]] = FALSE]
    /\ own' = [own EXCEPT ![w] = NoSession]
    /\ GotoWith(w, "release", own[w])
    /\ UNCHANGED <<sessionVars, ioCount, todo, freeBufs, phase, job>>

PoolExit(w) ==
    /\ pc[w] = "idle"
    /\ phase = "ioGone"
    /\ \A s \in Sessions : scheduled[s] => Drained(s)
    /\ Goto(w, "exit")
    /\ UNCHANGED <<sessionVars, ioCount, queueVars, freeBufs, phase, at, own, job>>

\* A handler that answers or rejects the frame, or only accepts it.
HandleFrame(w) ==
    /\ pc[w] = "frame"
    /\ \E label \in {"finish", "reply", "close"} : Goto(w, label)
    /\ UNCHANGED <<sessionVars, ioCount, queueVars, freeBufs, phase, at, own, job>>

\* handle_enter: entry.enter inserts the Session* under L1 ...
Enter(w) ==
    /\ pc[w] = "frame"
    /\ ~entered[own[w]]
    /\ roster' = [roster EXCEPT ![own[w]] = TRUE]
    /\ Goto(w, "enter")
    /\ UNCHANGED <<life, closing, recv, send, toSend, entered, cleaned, ioCount,
                   queueVars, freeBufs, phase, at, own, job>>

\* ... then the entry gets its hold ...
EnterHold(w) ==
    /\ pc[w] = "enter"
    /\ entered' = [entered EXCEPT ![own[w]] = TRUE]
    /\ Hold(own[w])
    /\ Goto(w, "check")
    /\ UNCHANGED <<life, closing, recv, send, toSend, roster, cleaned,
                   queueVars, freeBufs, phase, at, own, job>>

\* EntryTable::leave and the release of the entry's hold, if there is an entry.
LeaveRoster(s) ==
    /\ roster' = [roster EXCEPT ![s] = FALSE]
    /\ ioCount' = [ioCount EXCEPT ![s] = IF roster[s] THEN @ - 1 ELSE @]

\* Mutant: handle_enter does not look at closing again.
EnterUnchecked(w) ==
    /\ pc[w] = "check"
    /\ Goto(w, "reply")
    /\ UNCHANGED <<sessionVars, ioCount, queueVars, freeBufs, phase, at, own, job>>

\* ... and is taken out again if the session is being closed: its cleanup job may
\* have run before this one.
EnterCheck(w) ==
    /\ pc[w] = "check"
    /\ IF closing[own[w]] THEN LeaveRoster(own[w]) ELSE UNCHANGED <<roster, ioCount>>
    /\ Goto(w, "reply")
    /\ UNCHANGED <<life, closing, recv, send, toSend, entered, cleaned,
                   queueVars, freeBufs, phase, at, own, job>>

\* send_chunks to the session itself, under the job's hold.  A failure, an
\* overflow that closes, and an overflow that does not all end in false.
Reply(w) ==
    /\ pc[w] = "reply"
    /\ IF send[own[w]] = "idle" /\ ~closing[own[w]]
       THEN PostSend(w, "finish", "close")
       ELSE /\ \E label \in {"finish", "close"} : Goto(w, label)
            /\ UNCHANGED <<send, ioCount>>
    /\ UNCHANGED <<life, closing, recv, toSend, entered, roster, cleaned,
                   queueVars, freeBufs, phase, at, own, job>>

\* Mutant: the session found in the roster is used without a hold of its own.
FoundUnheld(w, s) ==
    /\ s # own[w] /\ roster[s]
    /\ GotoWith(w, "peer", s)
    /\ UNCHANGED <<sessionVars, ioCount, queueVars, freeBufs, phase, own, job>>

\* The roster is read under L1 and the session found there is held.  A broadcast
\* holds all it finds and gives them back when all have been sent to; here it
\* goes from one to the next, and the sender's own hold on itself is left out.
Found(w, s) ==
    /\ s # own[w] /\ roster[s]
    /\ Hold(s)
    /\ GotoWith(w, "peer", s)
    /\ UNCHANGED <<sessionVars, queueVars, freeBufs, phase, own, job>>

\* handle_chat: a whisper, or the members of the zone, or everybody.
Chat(w, s) == pc[w] = "frame" /\ entered[own[w]] /\ Found(w, s)

\* Those who stay in the zone are told who is in it.
TellZone(w, s) == pc[w] = "tell" /\ Found(w, s)

\* send_chunks to another session: its result is dropped, but an overflow may
\* close that session here (send_overflow_limit_).
SendPeer(w) ==
    /\ pc[w] = "peer"
    /\ IF send[at[w]] = "idle" /\ ~closing[at[w]]
       THEN PostSend(w, "release", "release")
       ELSE /\ \E label \in {"release", "close"} : Goto(w, label)
            /\ UNCHANGED <<send, ioCount>>
    /\ UNCHANGED <<life, closing, recv, toSend, entered, roster, cleaned,
                   queueVars, freeBufs, phase, at, own, job>>

\* Mutant: the job of a session that is being closed keeps its buffer.
FinishFrameKeepsBuffer(w) ==
    /\ pc[w] = "finish"
    /\ freeBufs' = IF closing[own[w]] THEN freeBufs ELSE freeBufs + 1
    /\ Goto(w, "release")
    /\ UNCHANGED <<sessionVars, ioCount, queueVars, phase, at, own, job>>

\* The end of the frame's job: the buffer first, then the hold.
FinishFrame(w) ==
    /\ pc[w] = "finish"
    /\ freeBufs' = freeBufs + 1
    /\ Goto(w, "release")
    /\ UNCHANGED <<sessionVars, ioCount, queueVars, phase, at, own, job>>

\* on_session_gone's job: leave the roster and give back the entry's hold ...
Cleanup(w) ==
    /\ pc[w] = "gone"
    /\ cleaned' = [cleaned EXCEPT ![own[w]] = TRUE]
    /\ IF entered[own[w]] /\ roster[own[w]]
       THEN LeaveRoster(own[w]) ELSE UNCHANGED <<roster, ioCount>>
    /\ Goto(w, "tell")
    /\ UNCHANGED <<life, closing, recv, send, toSend, entered,
                   queueVars, freeBufs, phase, at, own, job>>

\* ... tell the others, if any (TellZone), and give back the job's own hold.
CleanupDone(w) ==
    /\ pc[w] = "tell"
    /\ Goto(w, "release")
    /\ UNCHANGED <<sessionVars, ioCount, queueVars, freeBufs, phase, at, own, job>>

-----------------------------------------------------------------------------
(* main() and IocpServer::stop *)

Advance(from, to) ==
    /\ phase = from
    /\ phase' = to
    /\ UNCHANGED <<sessionVars, ioCount, queueVars, freeBufs, threadVars>>

\* The S2S thread is joined before stop(); an idle sweep in progress goes on.
Stop == Advance("up", "stopping")

\* Accept and sweep threads joined, every session's socket closed.
CloseSockets ==
    /\ \A t \in {Acceptor} \cup Closers : pc[t] = "idle"
    /\ Advance("stopping", "closed")

\* I/O workers joined: drain_hook_ stops the pool's queue.
StopPool ==
    /\ \A w \in IoWorkers : pc[w] = "exit"
    /\ Advance("closed", "ioGone")

\* sessions_.clear(): whatever io_count says.
ClearSessions ==
    /\ phase = "ioGone"
    /\ \A w \in PoolWorkers : pc[w] = "exit"
    /\ phase' = "cleared"
    /\ life' = [s \in Sessions |-> IF life[s] = "mapped" THEN "freed" ELSE life[s]]
    /\ UNCHANGED <<closing, recv, send, toSend, entered, roster, cleaned, ioCount,
                   queueVars, freeBufs, threadVars>>

-----------------------------------------------------------------------------
Completion(w, s) == RecvFails(w, s) \/ RecvData(w, s) \/ SendFails(w, s) \/ SendDone(w, s)

IoStep(w) == PostRecv(w) \/ PostRecvFails(w) \/ DrainFrame(w) \/ DrainEnds(w) \/ AfterSend(w)

PoolStep(w) ==
    \/ BeginJob(w) \/ EndRight(w)
    \/ HandleFrame(w) \/ Enter(w) \/ EnterHold(w) \/ EnterCheck(w) \/ Reply(w)
    \/ SendPeer(w) \/ FinishFrame(w) \/ Cleanup(w) \/ CleanupDone(w)
    \/ \E s \in Sessions : Chat(w, s) \/ TellZone(w, s)

AcceptStep == PostRecv(Acceptor) \/ PostRecvFails(Acceptor)

Next ==
    \/ \E s \in Sessions : Accept(s)
    \/ AcceptStep
    \/ \E w \in IoWorkers, s \in Sessions : Completion(w, s)
    \/ \E w \in IoWorkers : IoStep(w) \/ IoExit(w)
    \/ \E c \in Closers, s \in Sessions : CloseIdle(c, s) \/ CloseById(c, s)
    \/ \E w \in PoolWorkers, s \in Sessions : Take(w, s)
    \/ \E w \in PoolWorkers : PoolStep(w) \/ PoolExit(w)
    \/ \E t \in Threads : CloseStep(t)
    \/ Stop \/ CloseSockets \/ StopPool \/ ClearSessions
    \/ phase = "cleared" /\ UNCHANGED vars

Spec == Init /\ [][Next]_vars

\* Threads keep running, jobs and handlers end.  A thread between two steps is
\* never blocked for ever: the locks are held for a few instructions.
\* The completion port and the pool's queue are FIFO, so a completion or a right
\* that waits while threads are busy elsewhere is taken sooner or later (strong
\* fairness); only a closed socket is sure to complete what is outstanding.
\* Nothing makes a peer connect or speak, a closer close, or main() stop.
Fairness ==
    /\ WF_vars(AcceptStep)
    /\ \A t \in Threads : WF_vars(CloseStep(t))
    /\ \A w \in IoWorkers : WF_vars(IoStep(w)) /\ WF_vars(IoExit(w))
    /\ \A w \in PoolWorkers : WF_vars(PoolStep(w)) /\ WF_vars(PoolExit(w))
    /\ \A s \in Sessions :
        /\ SF_vars(SocketClosed(s) /\ \E w \in IoWorkers : Completion(w, s))
        /\ SF_vars(\E w \in PoolWorkers : Take(w, s))
    /\ WF_vars(CloseSockets) /\ WF_vars(StopPool) /\ WF_vars(ClearSessions)

FairSpec == Spec /\ Fairness

-----------------------------------------------------------------------------
(* Properties *)

One(b) == IF b THEN 1 ELSE 0

\* Everybody who still needs session s: the kernel (recv, send), the execution
\* right, the roster's entry from the moment its hold is taken, the queued jobs,
\* the job being executed, jobs of other sessions that found s in the roster,
\* and the I/O, sweep and S2S threads that took over or took a hold.
Holders(s) ==
    One(recv[s]) + One(send[s] = "posted") + One(scheduled[s])
    + One(roster[s] /\ ~\E w \in PoolWorkers : own[w] = s /\ pc[w] = "enter")
    + Len(todo[s])
    + Cardinality({w \in PoolWorkers : own[w] = s /\ job[w] # "none"})
    + Cardinality({t \in Threads \ {Acceptor} :
          /\ at[t] = s
          /\ t \in PoolWorkers => own[t] # s
          /\ pc[t] # "remove"})

\* io_count is exactly the number of those holders on every
\* path, the failing ones included: one too few deletes a session in use, one too
\* many keeps it for ever (session.h:164-174, iocp_server.cpp:330).
HoldsAccounted ==
    phase # "cleared" => \A s \in Sessions : ioCount[s] = Holders(s)

\* Nothing that may still touch a session outlives it: no outstanding WSARecv or
\* WSASend, no roster entry, no execution right, and no thread about to
\* dereference it; only try_remove_session may hold a dead pointer, which it
\* looks up before it uses (iocp_server.cpp:529-533).
NoUseAfterFree ==
    phase # "cleared" =>
        /\ \A s \in Sessions :
            recv[s] \/ send[s] = "posted" \/ roster[s] \/ scheduled[s] \/ todo[s] # <<>>
                => life[s] = "mapped"
        /\ \A t \in Threads :
            at[t] # NoSession /\ pc[t] # "remove" => life[at[t]] = "mapped"
        /\ \A w \in PoolWorkers : own[w] # NoSession => life[own[w]] = "mapped"

\* Whoever uses a session holds it, and whoever holds it is counted.
HeldWhileUsed == TypeOK /\ HoldsAccounted /\ NoUseAfterFree

\* The frames in the queues, by session and place.
QueuedFrames ==
    {p \in UNION {{s} \X DOMAIN todo[s] : s \in Sessions} : todo[p[1]][p[2]] = "frame"}

\* The workers whose job has a frame's buffer.
BufferUsers == {w \in PoolWorkers :
                  job[w] = "frame" /\ ~(pc[w] \in {"release", "remove"} /\ at[w] = own[w])}

\* A frame buffer is in the pool or with exactly one job that has not finished
\* with it, so frames that are dropped with their session do not drain the pool
\* (iocp_server.cpp:719-766).
FrameBuffersConserved ==
    freeBufs + Cardinality(QueuedFrames) + Cardinality(BufferUsers) = FramePool

\* However many threads close a session at once, its cleanup job begins at most
\* once (closing.exchange, iocp_server.cpp:408-415).
CleanupOnce ==
    [][\A w \in PoolWorkers :
          job[w] # "gone" /\ job'[w] = "gone" => ~cleaned[own[w]]]_vars

\* A session that is being closed is deleted in the end: no path forgets a hold
\* or leaves an entry in the roster behind (frame_router.cpp:407-422).
ClosedIsRemoved ==
    \A s \in Sessions : closing[s] ~> life[s] = "freed"

\* ARCHITECTURE.md:68: the cleanup is the last job of its session.
CleanupIsLast ==
    \A w \in PoolWorkers : pc[w] = "frame" => ~cleaned[own[w]]

\* iocp_server.cpp:143-144: stop() deletes a session only when its io_count is 0.
ClearedUnheld ==
    phase = "cleared" => \A s \in Sessions : ioCount[s] = 0
=============================================================================
