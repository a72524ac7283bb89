---------------------------- MODULE S2sConnector ----------------------------
(***************************************************************************)
(* net::S2sConnector: the one TCP connection a game server keeps to the    *)
(* session server, the thread that owns it, and the requests that wait for *)
(* an answer on it.                                                        *)
(*                                                                         *)
(* Other threads only push commands under commands_mutex_ and post a       *)
(* wake-up.  Everything else belongs to the S2S thread and is one record,  *)
(* `s', so that a handler is a function from a record to a record, as in   *)
(* the code it is a sequence of assignments nobody else can watch.  The    *)
(* network, the peer and the clock act between any two of its steps.       *)
(*                                                                         *)
(* A frame received comes in two halves, so a receive may end inside one.  *)
(* Wake-ups queued are a flag: one more would only turn the loop once more. *)
(* Left out: notify() (a respond() that may go out on any connection), the  *)
(* tick (it only adds wake-ups), the values of the back-off, the          *)
(* wrap of next_seq_ at 2^32, a frame longer than the receive buffer and   *)
(* malformed frames (the link is torn down as when the peer closes it).    *)
(***************************************************************************)
EXTENDS Integers, Sequences, FiniteSets, SequencesExt

CONSTANTS
    MaxRequests,     \* bound of the model: calls of request()
    MaxCuts,         \* bound of the model: calls of force_disconnect()
    MaxOwing,        \* bound of the model: calls of submit() under way at a time
    MaxConns,        \* bound of the model: attempts to connect
    MaxAsks,         \* bound of the model: requests the peer sends
    AskOn            \* bound of the model: on these connections

ASSUME S2sConnectorAssumption ==
    /\ MaxRequests \in Nat /\ MaxCuts \in Nat /\ MaxAsks \in Nat
    /\ MaxConns \in Nat \ {0} /\ MaxOwing \in Nat \ {0}
    /\ AskOn \subseteq 1..MaxConns

VARIABLES
    running,         \* running_
    closed,          \* commands_closed_
    stopper,         \* how far stop() is
    commands,        \* commands_
    batch,           \* drain_commands(): what it has swapped out of commands_
    owing,           \* calls of submit() that have pushed and not yet woken
    wake,            \* a wake-up is queued on the completion port
    pc,              \* the S2S thread
    s,               \* the connector's other members, and its connection
    requests,        \* requests accepted so far: request r is the r-th (bound)
    cuts,            \* calls of force_disconnect() so far (bound)
    asks,            \* requests the peer has sent (bound)
    done             \* history: the completions each request has had, in order

submitVars == <<closed, commands, owing, wake, requests>>
threadVars == <<pc, s, batch, done>>
vars == <<running, stopper, submitVars, threadVars, cuts, asks>>

Requests == 1..MaxRequests
Ops == {"connect", "recv", "send"}

-----------------------------------------------------------------------------
(* The record s. *)

Closed ==
    [link |-> "down",             \* connected_, connecting_
     conn |-> 0,                  \* which connection sock_ is: the attempt's number
     due |-> FALSE,               \* next_action_deadline_ms_ has passed
     generation |-> 0,            \* generation_
     ctx |-> [op \in Ops |-> 0],  \* IoCtx::generation of the three contexts
     ios |-> {},                  \* issued, not completed: outstanding_io_ counts them
     buf |-> <<>>,                \* recv_buf_ between read_pos and write_pos
     pending |-> {},              \* pending_
     nextSeq |-> 1,               \* next_seq_
     front |-> <<>>, back |-> <<>>,  \* send_front_ from send_sent_ on, send_back_
     sending |-> FALSE,           \* send_pending_
     stream |-> <<>>,             \* bytes the peer has sent on conn, not yet received
     asked |-> {}]                \* requests the peer has received on conn

(* A handler returns the record and the requests it completed on the way. *)
Result(r, completed) == [s |-> r, completed |-> completed]
Completed(entries, how) == {[req |-> e.req, how |-> how] : e \in entries}
Replied(entries, reply) ==
    {[req |-> e.req, how |-> IF e.req = reply.req THEN "ok" ELSE "crossed"] : e \in entries}
Record(completed) ==
    [r \in Requests |->
        done[r] \o SetToSeq({c.how : c \in {x \in completed : x.req = r}})]

(* teardown_connection(): idempotent, but the generation always moves on. *)
Reset(r) ==
    [Closed EXCEPT !.conn = r.conn, !.generation = r.generation + 1, !.ctx = r.ctx,
                   !.ios = r.ios]

\* Mutants: the receive buffer, the send buffer, send_pending_ are not reset.
TornDownKeepsBuf(r) == [Reset(r) EXCEPT !.buf = r.buf]
TornDownKeepsBack(r) == [Reset(r) EXCEPT !.back = r.back]
TornDownKeepsSending(r) == [Reset(r) EXCEPT !.sending = r.sending]

TornDown(r) == Reset(r)

Teardown(r, reason) ==
    IF r.link = "down" THEN Result([r EXCEPT !.generation = @ + 1], {})
    ELSE Result(TornDown(r), Completed(r.pending, reason))

(* Issuing an overlapped call; n is what a send will transfer, in frames. *)
Issue(r, op, n) ==
    [r EXCEPT !.ctx[op] = r.generation,
              !.ios = @ \cup {[op |-> op, conn |-> r.conn, n |-> n]}]

BeginConnect(r, ok) ==
    LET t == [r EXCEPT !.conn = @ + 1, !.due = FALSE] IN
    IF ok THEN Issue([t EXCEPT !.link = "connecting"], "connect", 0) ELSE t

PostRecv(r, ok) ==
    IF ok THEN Result(Issue(r, "recv", 0), {}) ELSE Teardown(r, "disconnected")

(* post_send(): when front has gone out the whole of back takes its place. *)
PostSend(r, ok, part) ==
    LET t == IF r.front = <<>> THEN [r EXCEPT !.front = r.back, !.back = <<>>] ELSE r
        n == IF part THEN 1 ELSE Len(t.front)
        out == {f \in ToSet(SubSeq(t.front, 1, n)) : f.kind = "request"}
    IN  IF t.front = <<>> THEN Result([t EXCEPT !.sending = FALSE], {})
        ELSE IF ok THEN Result([Issue(t, "send", n) EXCEPT !.asked = @ \cup out], {})
        ELSE Teardown(t, "disconnected")

MaybeKickSend(r, ok, part) ==
    IF r.link # "connected" \/ r.sending \/ r.front \o r.back = <<>>
    THEN Result(r, {})
    ELSE PostSend([r EXCEPT !.sending = TRUE], ok, part)

QueueSend(r, frame) ==
    IF r.link = "connected" THEN [r EXCEPT !.back = Append(@, frame)] ELSE r

HandleRequest(r, cmd) ==
    IF r.link # "connected"
    THEN Result(r, Completed({cmd}, "disconnected"))
    ELSE Result(QueueSend([r EXCEPT !.nextSeq = @ + 1,
                                    !.pending = @ \cup {[seq |-> r.nextSeq, req |-> cmd.req,
                                                         late |-> FALSE]}],
                          [kind |-> "request", seq |-> r.nextSeq, req |-> cmd.req]), {})

HandleCommand(r, cmd) ==
    CASE cmd.kind = "request" -> HandleRequest(r, cmd)
      [] cmd.kind = "respond" -> Result(QueueSend(r, cmd), {})
      [] cmd.kind = "cut" -> Teardown(r, "disconnected")

-----------------------------------------------------------------------------
Init ==
    /\ running = TRUE /\ closed = FALSE
    /\ stopper = "idle"
    /\ commands = <<>> /\ owing = 0 /\ wake = FALSE
    /\ pc = "begin"
    /\ s = Closed /\ batch = <<>>
    /\ requests = 0 /\ cuts = 0 /\ asks = 0
    /\ done = [r \in Requests |-> <<>>]

(* submit(), called by request() and by force_disconnect() on a thread that  *)
(* is not the S2S thread: push under the lock, wake up after it.  When the   *)
(* queue is closed the call is refused and changes nothing.                  *)
Push(cmd) ==
    /\ ~closed /\ owing < MaxOwing
    /\ commands' = Append(commands, cmd)
    /\ owing' = owing + 1
    /\ UNCHANGED <<running, closed, stopper, wake, threadVars, asks>>

PushRequest ==
    /\ requests < MaxRequests
    /\ Push([kind |-> "request", req |-> requests + 1])
    /\ requests' = requests + 1
    /\ UNCHANGED cuts

PushCut ==
    /\ cuts < MaxCuts
    /\ Push([kind |-> "cut"])
    /\ cuts' = cuts + 1
    /\ UNCHANGED requests

Wake ==
    /\ owing > 0
    /\ owing' = owing - 1
    /\ wake' = TRUE
    /\ UNCHANGED <<running, closed, stopper, commands, requests, threadVars, cuts, asks>>

(* stop(): the flag; the queue and a wake-up; then it joins the thread, so it *)
(* returns when pc is "done".                                                 *)
StopFlag ==
    /\ stopper = "idle"
    /\ running' = FALSE
    /\ stopper' = "flagged"
    /\ UNCHANGED <<submitVars, threadVars, cuts, asks>>

\* Mutant: the thread is not woken up.
StopCloseAsleep ==
    /\ stopper = "flagged"
    /\ closed' = TRUE
    /\ stopper' = "closed"
    /\ UNCHANGED <<running, commands, owing, wake, requests, threadVars, cuts, asks>>

StopClose ==
    /\ stopper = "flagged"
    /\ closed' = TRUE
    /\ wake' = TRUE
    /\ stopper' = "closed"
    /\ UNCHANGED <<running, commands, owing, requests, threadVars, cuts, asks>>

-----------------------------------------------------------------------------
(* The S2S thread. *)

(* The loop of thread_main(): wait, handle the completion, drain the commands, *)
(* look at running_ and the timers.  What is shared is touched twice after the  *)
(* wait, the queue in TakeCommands and the flag in TurnEnd.                     *)

(* A step of the thread that changes only its own members. *)
Own(at, result, next) ==
    /\ pc = at
    /\ \E res \in {result} : s' = res.s /\ done' = Record(res.completed)
    /\ pc' = next

\* What others change too, but for commands, and what only drain_commands() changes.
UnchangedAround == UNCHANGED <<running, stopper, closed, owing, wake, requests, cuts, asks>>
UnchangedOutside == UNCHANGED <<running, stopper, submitVars, batch, cuts, asks>>

Begin(ok) ==
    /\ Own("begin", Result(BeginConnect(s, ok), {}), IF running THEN "wait" ELSE "cleanup")
    /\ UnchangedOutside

(* GetQueuedCompletionStatus returns: a wake-up, a deadline or a completion. *)
TakeWake ==
    /\ pc = "wait" /\ wake
    /\ wake' = FALSE
    /\ pc' = "turn"
    /\ UNCHANGED <<running, closed, stopper, commands, owing, requests, s, batch, done, cuts, asks>>

\* Mutant: outstanding_io_ is not looked at.
MayReconnectEarly(r) == r.link = "down" /\ r.conn < MaxConns

MayReconnect(r) == r.link = "down" /\ r.ios = {} /\ r.conn < MaxConns

\* Mutant: compute_wait_ms() leaves the retry out.
DeadlinePassedRequests == \E e \in s.pending : e.late

DeadlinePassed ==
    \/ MayReconnect(s) /\ s.due
    \/ \E e \in s.pending : e.late

Deadline ==
    /\ DeadlinePassed
    /\ Own("wait", Result(s, {}), "turn")
    /\ UnchangedOutside

(* handle_completion(): outstanding_io_ first, then the generation; a context  *)
(* nothing is outstanding on is not looked at, and is set back to 0.           *)
Fresh(io) == s.ctx[io.op] = s.generation
Taken(io) == [s EXCEPT !.ios = @ \ {io}, !.ctx[io.op] = 0]

StaleDone ==
    \E io \in s.ios :
        /\ ~Fresh(io)
        /\ Own("wait", Result(Taken(io), {}), "turn")
        /\ UnchangedOutside

ConnectDone(ok, post) ==
    \E io \in s.ios :
        /\ io.op = "connect" /\ Fresh(io)
        /\ Own("wait",
               IF ok THEN PostRecv([Taken(io) EXCEPT !.link = "connected"], post)
                     ELSE Result([Taken(io) EXCEPT !.link = "down", !.due = FALSE], {}),
               "turn")
        /\ UnchangedOutside

(* on_recv_io_complete(): n = 0 when the peer has closed or the call failed. *)
RecvDone(n) ==
    \E io \in s.ios :
        /\ io.op = "recv" /\ Fresh(io)
        /\ n <= Len(s.stream)
        /\ IF n = 0
           THEN Own("wait", Teardown(Taken(io), "disconnected"), "turn")
           ELSE Own("wait", Result([Taken(io) EXCEPT !.buf = @ \o SubSeq(s.stream, 1, n),
                                                     !.stream = SubSeq(@, n + 1, Len(@))], {}),
                    "frames")
        /\ UnchangedOutside

SendDone(ok, post, part) ==
    \E io \in s.ios :
        /\ io.op = "send" /\ Fresh(io)
        /\ Own("wait",
               IF ok THEN PostSend([Taken(io) EXCEPT !.front = SubSeq(@, io.n + 1, Len(@))],
                                   post, part)
                     ELSE Teardown(Taken(io), "disconnected"),
               "turn")
        /\ UnchangedOutside

(* drain_recv_frames(), dispatch_frame(): the frame leaves the buffer after  *)
(* its callback, unless the callback has cut the link.                       *)
FrameReady == Len(s.buf) >= 2
Frame == s.buf[1].frame
Consume(r) == [r EXCEPT !.buf = SubSeq(@, 3, Len(@))]
\* Mutant: answers are taken to come in the order of the requests.
WaitingOldest == {e \in s.pending : \A f \in s.pending : e.seq <= f.seq}

Waiting == {e \in s.pending : e.seq = Frame.seq}

DispatchReply ==
    /\ FrameReady /\ Frame.kind = "reply"
    /\ Own("frames",
           Result(Consume([s EXCEPT !.pending = @ \ Waiting]), Replied(Waiting, Frame)),
           "frames")
    /\ UnchangedOutside

(* force_disconnect() from a callback runs at once. *)
CutInside ==
    /\ cuts < MaxCuts
    /\ cuts' = cuts + 1

\* Mutant: the callback runs before the entry is erased.
DispatchReplyCutFirst ==
    /\ FrameReady /\ Frame.kind = "reply" /\ Waiting # {}
    /\ CutInside
    /\ LET down == Teardown(s, "disconnected") IN
       Own("frames",
           Result(down.s, down.completed \cup Replied(Waiting, Frame)), "turn")
    /\ UNCHANGED <<running, stopper, submitVars, batch, asks>>

DispatchReplyCut ==
    /\ FrameReady /\ Frame.kind = "reply" /\ Waiting # {}
    /\ CutInside
    /\ LET down == Teardown([s EXCEPT !.pending = @ \ Waiting], "disconnected") IN
       Own("frames",
           Result(down.s, down.completed \cup Replied(Waiting, Frame)), "turn")
    /\ UNCHANGED <<running, stopper, submitVars, batch, asks>>

(* The owner answers a request of the peer inside on_request_, by respond(). *)
DispatchRequest ==
    /\ FrameReady /\ Frame.kind = "request"
    /\ Own("frames", Result(Consume(s), {}), "frames")
    /\ commands' = IF closed THEN commands
                   ELSE Append(commands, [kind |-> "respond", conn |-> s.buf[1].conn])
    /\ wake' = (wake \/ ~closed)
    /\ UNCHANGED <<running, stopper, closed, owing, requests, batch, cuts, asks>>

FramesEnd(post) ==
    /\ ~FrameReady
    /\ Own("frames", PostRecv(s, post), "turn")
    /\ UnchangedOutside

(* drain_commands(): the queue is swapped out, every command handled, and    *)
(* what they queued is sent at once, unless the queue was empty.             *)
SwapOut(at, drain, next) ==
    /\ pc = at
    /\ batch' = commands /\ commands' = <<>>
    /\ pc' = IF commands = <<>> THEN next ELSE drain
    /\ UnchangedAround /\ UNCHANGED <<s, done>>

TakeCommands == SwapOut("turn", "drain", "sweep")

DrainNext ==
    /\ pc \in {"drain", "final"} /\ batch # <<>>
    /\ Own(pc, HandleCommand(s, Head(batch)), pc)
    /\ batch' = Tail(batch)
    /\ UnchangedAround /\ UNCHANGED commands

DrainEnd(ok, part) ==
    /\ pc \in {"drain", "final"} /\ batch = <<>>
    /\ Own(pc, MaybeKickSend(s, ok, part), IF pc = "drain" THEN "sweep" ELSE "done")
    /\ UnchangedOutside

(* sweep_timeouts(), maybe_reconnect(). *)
Sweep(r) ==
    LET expired == {e \in r.pending : e.late} IN
    Result([r EXCEPT !.pending = @ \ expired], Completed(expired, "timeout"))

MaybeReconnect(r, ok) == IF MayReconnect(r) /\ r.due THEN BeginConnect(r, ok) ELSE r

TurnEnd(ok) ==
    /\ LET swept == Sweep(s) IN
       IF running THEN Own("sweep", Result(MaybeReconnect(swept.s, ok), swept.completed), "wait")
                  ELSE Own("sweep", Result(s, {}), "cleanup")
    /\ UnchangedOutside

(* The callback of a request that timed out cuts the link. *)
TurnCut ==
    /\ running
    /\ CutInside
    /\ LET swept == Sweep(s)
           down == Teardown(swept.s, "disconnected")
       IN  /\ swept.completed # {}
           /\ Own("sweep", Result(down.s, down.completed \cup swept.completed), "wait")
    /\ UNCHANGED <<running, stopper, submitVars, batch, asks>>

(* shutdown_cleanup(): fail what waits, give the kernel a second to return   *)
(* what it holds, fail what was still queued.                                *)
Cleanup ==
    /\ Own("cleanup", Teardown(s, "stopped"), "reap")
    /\ UnchangedOutside

Reap ==
    \E io \in s.ios :
        /\ Own("reap", Result(Taken(io), {}), "reap")
        /\ UnchangedOutside

ReapEnd ==
    /\ Own("reap", Result(s, {}), "last")
    /\ UnchangedOutside

\* Mutant: what was queued when the thread left its loop is dropped.
LastCommandsDrop ==
    /\ Own("last", Result(s, {}), "done")
    /\ commands' = <<>>
    /\ UnchangedAround /\ UNCHANGED batch

LastCommands == SwapOut("last", "final", "done")

-----------------------------------------------------------------------------
(* The network, the peer and the clock move while the thread waits: nothing  *)
(* it does from one wait to the next looks at what they change.               *)

Halves(frame) == <<[conn |-> s.conn, frame |-> frame, half |-> 1],
                   [conn |-> s.conn, frame |-> frame, half |-> 2]>>

Environment(r) ==
    /\ pc = "wait"
    /\ s' = r
    /\ UNCHANGED <<running, stopper, submitVars, batch, pc, done, cuts>>

PeerReplies ==
    \E f \in s.asked :
        /\ Environment([s EXCEPT !.asked = @ \ {f},
                                 !.stream = @ \o Halves([kind |-> "reply", seq |-> f.seq,
                                                         req |-> f.req])])
        /\ UNCHANGED asks

PeerAsks ==
    /\ s.link = "connected" /\ s.conn \in AskOn /\ asks < MaxAsks
    /\ asks' = asks + 1
    /\ Environment([s EXCEPT !.stream = @ \o Halves([kind |-> "request"])])

(* Deadlines pass in the order of their sequence numbers. *)
RequestExpires ==
    \E e \in s.pending :
        /\ ~e.late
        /\ \A f \in s.pending : f.late \/ e.seq <= f.seq
        /\ Environment([s EXCEPT !.pending = (@ \ {e}) \cup {[e EXCEPT !.late = TRUE]}])
        /\ UNCHANGED asks

RetryDue ==
    /\ s.link = "down" /\ ~s.due
    /\ Environment([s EXCEPT !.due = TRUE])
    /\ UNCHANGED asks

-----------------------------------------------------------------------------
ThreadStep ==
    \/ \E ok \in BOOLEAN : Begin(ok) \/ FramesEnd(ok)
    \/ TakeWake \/ Deadline
    \/ TakeCommands \/ DrainNext
    \/ \E ok, part \in BOOLEAN : DrainEnd(ok, part)
    \/ \E ok \in BOOLEAN : TurnEnd(ok)
    \/ DispatchReply \/ DispatchRequest
    \/ Cleanup \/ ReapEnd \/ LastCommands

Kernel ==
    \/ \E ok, post \in BOOLEAN : ConnectDone(ok, post)
    \/ \E n \in 0..Len(s.stream) : RecvDone(n)
    \/ \E ok, post, part \in BOOLEAN : SendDone(ok, post, part)
    \/ Reap

Callbacks ==
    \/ DispatchReplyCut
    \/ TurnCut

Clock == RequestExpires \/ RetryDue

Next ==
    \/ PushRequest \/ PushCut \/ Wake
    \/ StopFlag \/ StopClose
    \/ ThreadStep \/ StaleDone \/ Kernel \/ Callbacks
    \/ PeerReplies \/ PeerAsks \/ Clock

Spec == Init /\ [][Next]_vars

(* The S2S thread is scheduled: unless it keeps running out of things to do   *)
(* it keeps moving.  This is weak fairness of its steps with what enables     *)
(* them written out; pc is its own, and it has a step in every state but two. *)
ThreadReady ==
    \/ pc \notin {"wait", "done"}
    \/ pc = "wait" /\ (wake \/ DeadlinePassed \/ \E io \in s.ios : ~Fresh(io))

ThreadFair == []<>(~ThreadReady) \/ []<><<TRUE>>_pc

(* Calls that began end and time passes; the kernel ends what was issued on a *)
(* socket that has been closed (it is in ThreadReady).  Nothing is assumed of *)
(* the peer, nor of a connection that is open.                                *)
FairSpec ==
    /\ Spec
    /\ ThreadFair
    /\ WF_vars(Clock)
    /\ WF_vars(Wake) /\ WF_vars(StopClose)

-----------------------------------------------------------------------------
Frames == [kind : {"request"}, seq : Nat, req : Requests]
          \cup [kind : {"respond"}, conn : 1..MaxConns]

TypeOK ==
    /\ running \in BOOLEAN /\ closed \in BOOLEAN
    /\ stopper \in {"idle", "flagged", "closed"}
    /\ wake \in BOOLEAN /\ owing \in Nat
    /\ pc \in {"begin", "wait", "frames", "turn", "drain", "sweep",
               "cleanup", "reap", "last", "final", "done"}
    /\ s.link \in {"down", "connecting", "connected"}
    /\ s.conn \in 0..MaxConns
    /\ s.pending \subseteq [seq : Nat, req : Requests, late : BOOLEAN]
    /\ s.front \in Seq(Frames) /\ s.back \in Seq(Frames)
    /\ done \in [Requests -> Seq({"ok", "crossed", "timeout", "disconnected", "stopped"})]
    /\ requests \in 0..MaxRequests
    /\ cuts \in 0..MaxCuts /\ asks \in 0..MaxAsks

(* A request that was accepted is in exactly one place: queued, waiting for  *)
(* its answer, or completed, once (s2s_connector.h: every request gets       *)
(* exactly one completion).  Answer, time-out, loss of the link, a cut from  *)
(* inside another request's callback and stop() compete for it.              *)
OneCompletion ==
    \A r \in Requests :
        LET queue == batch \o commands
            queued == {i \in DOMAIN queue : queue[i].kind = "request" /\ queue[i].req = r}
            waiting == {e \in s.pending : e.req = r}
        IN  Cardinality(queued) + Cardinality(waiting) + Len(done[r])
              = IF r <= requests THEN 1 ELSE 0

(* An answer completes the request it answers, although sequence numbers     *)
(* start again at 1 on every connection and may have been given up.          *)
RightAnswer ==
    \A r \in Requests : \A i \in DOMAIN done[r] : done[r][i] # "crossed"

(* Every request is completed once, and by its own answer. *)
CompletedOnce == OneCompletion /\ RightAnswer

(* The three contexts are reused by every connection.  A completion that     *)
(* passes for the present generation belongs to the present connection, and  *)
(* no context is issued twice at a time.                                     *)
ContextsOwned ==
    /\ \A io \in s.ios : Fresh(io) => io.conn = s.conn /\ s.link # "down"
    /\ \A io, jo \in s.ios : io.op = jo.op => io = jo

(* The receive buffer starts where a frame starts, and holds bytes of this   *)
(* connection only.                                                          *)
BufferAligned ==
    s.buf # <<>> => /\ s.link = "connected"
                    /\ s.buf[1].half = 1
                    /\ \A i \in DOMAIN s.buf : s.buf[i].conn = s.conn

(* An answer to the peer goes out on the connection that asked. *)
RespondsHome ==
    \A i \in DOMAIN (s.front \o s.back) :
        LET f == (s.front \o s.back)[i] IN f.kind = "respond" => f.conn = s.conn

(* Nothing of an earlier connection is taken for the present one: completions, *)
(* received bytes, answers to the peer.                                        *)
OwnConnection == TypeOK /\ ContextsOwned /\ BufferAligned /\ RespondsHome

(* While the thread waits, an open connection has a receive issued, and      *)
(* something to send means a send is issued that will come back for it.      *)
NeverDeaf ==
    pc = "wait" /\ s.link = "connected" =>
        /\ \E io \in s.ios : io.op = "recv" /\ Fresh(io)
        /\ s.front \o s.back # <<>> => \E io \in s.ios : io.op = "send" /\ Fresh(io)

(* Every request accepted before stop() is completed, whatever the peer does. *)
Answered == \A r \in Requests : r <= requests /\ running ~> done[r] # <<>>

(* A connection that is down is tried again, until stop(). *)
Retries ==
    s.link = "down" /\ s.conn < MaxConns ~> s.link = "connecting" \/ s.conn = MaxConns \/ ~running

(* stop() returns. *)
StopEnds == ~running ~> stopper = "closed" /\ pc = "done"

(* Nobody waits for ever: callers for an answer, the link for another try,   *)
(* the main thread in stop().                                                *)
Progress == Answered /\ Retries /\ StopEnds

=============================================================================
