------------------------------ MODULE SendPipe ------------------------------
(***************************************************************************)
(* The send path of one session: IocpServer::send_chunks and post_send,    *)
(* the completion of a WSASend, and the double buffer they share           *)
(* (net::SendBuffer).  Any number of threads send to the session at once;  *)
(* whoever raises `sending' owns front and the socket's send side until it *)
(* finds nothing more to send.                                             *)
(*                                                                         *)
(* A step is one critical section of send_buf.mutex, one WSASend, one      *)
(* close_session, or the completion the kernel delivers.  Bytes come in    *)
(* units: unit <<n, i>> is part i of message n.                            *)
(***************************************************************************)
EXTENDS Integers, Sequences, FiniteSets

CONSTANTS
    Senders,         \* threads that send to the session
    IoWorkers,       \* threads that take its completions
    MaxQueue,        \* kMaxSendQueue, in units
    Limit,           \* send_overflow_limit_ (0: nobody is kicked)
    MaxSize,         \* bound of the model: units of one message
    MaxMessages      \* bound of the model: calls of send_chunks

ASSUME SendPipeAssumption ==
    /\ IsFiniteSet(Senders) /\ IsFiniteSet(IoWorkers)
    /\ Senders \cap IoWorkers = {}
    /\ MaxQueue \in Nat
    /\ Limit \in Nat
    /\ MaxSize \in Nat \ {0}
    /\ MaxMessages \in Nat

VARIABLES
    front, back,     \* SendBuffer::front, back
    sent,            \* SendBuffer::sent: units of front that have gone out
    sending,         \* SendBuffer::sending: somebody owns the send side
    streak,          \* SendBuffer::overflow_streak
    closing,         \* Session::closing
    kicked,          \* send_full_kicked_
    dead,            \* the connection is broken
    posted,          \* WSASends the kernel has not completed
    issued,          \* calls of send_chunks so far (bound)
    accepted,        \* history: units taken into the queue, in order
    wire,            \* history: units the peer was sent, in order
    outcomes,        \* history: which calls were accepted, in order
    failed,          \* history: how a WSASend has failed, "call" or "completion"
    pc,              \* per thread
    msg,             \* per thread: the message it sends
    batch            \* per thread: units it is about to post

bufferVars == <<front, back, sent, sending, streak>>
socketVars == <<closing, kicked, dead, posted>>
historyVars == <<issued, accepted, wire, outcomes, failed>>
threadVars == <<pc, msg, batch>>
vars == <<bufferVars, socketVars, historyVars, threadVars>>

Threads == Senders \cup IoWorkers
Unit == (1..MaxMessages) \X (1..MaxSize)

TypeOK ==
    /\ front \in Seq(Unit) /\ back \in Seq(Unit)
    /\ sent \in 0..Len(front)
    /\ sending \in BOOLEAN
    /\ streak \in Nat
    /\ closing \in BOOLEAN /\ dead \in BOOLEAN
    /\ kicked \in Nat
    /\ posted \in Seq(Seq(Unit))
    /\ issued \in 0..MaxMessages
    /\ accepted \in Seq(Unit) /\ wire \in Seq(Unit)
    /\ outcomes \in Seq(BOOLEAN)
    /\ failed \subseteq {"call", "completion"}
    /\ pc \in [Threads -> {"idle", "append", "kick", "post", "send", "undo", "close"}]
    /\ msg \in [Threads -> Seq(Unit)]
    /\ batch \in [Threads -> Nat]

Init ==
    /\ front = <<>> /\ back = <<>>
    /\ sent = 0
    /\ sending = FALSE
    /\ streak = 0
    /\ closing = FALSE /\ dead = FALSE
    /\ kicked = 0
    /\ posted = <<>>
    /\ issued = 0
    /\ accepted = <<>> /\ wire = <<>>
    /\ outcomes = <<>>
    /\ failed = {}
    /\ pc = [t \in Threads |-> "idle"]
    /\ msg = [t \in Threads |-> <<>>]
    /\ batch = [t \in Threads |-> 0]

Goto(t, label) == pc' = [pc EXCEPT ![t] = label]

\* The units of front that have not gone out.
Unsent == SubSeq(front, sent + 1, Len(front))

-----------------------------------------------------------------------------
(* send_chunks *)

\* The call, up to its look at closing: a session being closed takes nothing.
Send(t, size) ==
    /\ pc[t] = "idle"
    /\ issued < MaxMessages
    /\ issued' = issued + 1
    /\ IF closing
       THEN UNCHANGED <<pc, msg>>
       ELSE /\ msg' = [msg EXCEPT ![t] = [i \in 1..size |-> <<issued + 1, i>>]]
            /\ Goto(t, "append")
    /\ UNCHANGED <<bufferVars, socketVars, accepted, wire, outcomes, failed, batch>>

Overflows(t) == Len(back) + Len(msg[t]) > MaxQueue

\* The message is queued whole, and the right to send taken if it is free.
QueueMessage(t) ==
    /\ pc[t] = "append"
    /\ ~Overflows(t)
    /\ streak' = 0
    /\ back' = back \o msg[t]
    /\ accepted' = accepted \o msg[t]
    /\ outcomes' = Append(outcomes, TRUE)
    /\ sending' = TRUE
    /\ Goto(t, IF sending THEN "idle" ELSE "post")
    /\ msg' = [msg EXCEPT ![t] = <<>>]
    /\ UNCHANGED <<front, sent, socketVars, issued, wire, failed, batch>>

\* The caller of send_chunks gets false: it closes the session (its own answer)
\* or goes on (a broadcast).
CallerDecides(t) == \E label \in {"idle", "close"} : Goto(t, label)

\* Mutant: the streak is compared before it grows.
OverflowKicksLate(t) ==
    /\ pc[t] = "append"
    /\ Overflows(t)
    /\ streak' = streak + 1
    /\ outcomes' = Append(outcomes, FALSE)
    /\ msg' = [msg EXCEPT ![t] = <<>>]
    /\ IF Limit > 0 /\ streak = Limit THEN Goto(t, "kick") ELSE CallerDecides(t)
    /\ UNCHANGED <<front, back, sent, sending, socketVars, issued, accepted, wire, failed, batch>>

\* The queue is full: the message is dropped, the Limit-th time in a row by the
\* thread that is to close the session.
Overflow(t) ==
    /\ pc[t] = "append"
    /\ Overflows(t)
    /\ streak' = streak + 1
    /\ outcomes' = Append(outcomes, FALSE)
    /\ msg' = [msg EXCEPT ![t] = <<>>]
    /\ IF Limit > 0 /\ streak + 1 = Limit THEN Goto(t, "kick") ELSE CallerDecides(t)
    /\ UNCHANGED <<front, back, sent, sending, socketVars, issued, accepted, wire, failed, batch>>

\* Outside of the lock.
Kick(t) ==
    /\ pc[t] = "kick"
    /\ closing' = TRUE
    /\ kicked' = kicked + 1
    /\ CallerDecides(t)
    /\ UNCHANGED <<bufferVars, dead, posted, historyVars, msg, batch>>

-----------------------------------------------------------------------------
(* post_send, by the thread that owns the right *)

\* Mutant: back replaces front although part of front has not gone out.
SwapEarly(t) ==
    /\ pc[t] = "post"
    /\ front' = back /\ back' = <<>> /\ sent' = 0
    /\ IF back = <<>>
       THEN sending' = FALSE /\ Goto(t, "idle") /\ UNCHANGED batch
       ELSE /\ batch' = [batch EXCEPT ![t] = Len(back)]
            /\ Goto(t, "send")
            /\ UNCHANGED sending
    /\ UNCHANGED <<streak, socketVars, historyVars, msg>>

\* Mutant: the right is given back without a look at what was queued meanwhile.
SwapGivesUp(t) ==
    /\ pc[t] = "post"
    /\ IF Unsent = <<>> /\ front # <<>>
       THEN /\ front' = <<>> /\ sent' = 0
            /\ sending' = FALSE
            /\ Goto(t, "idle")
            /\ UNCHANGED <<back, batch>>
       ELSE /\ IF Unsent = <<>> THEN front' = back /\ back' = <<>> /\ sent' = 0
                                ELSE UNCHANGED <<front, back, sent>>
            /\ batch' = [batch EXCEPT ![t] = Len(front') - sent']
            /\ Goto(t, "send")
            /\ UNCHANGED sending
    /\ UNCHANGED <<streak, socketVars, historyVars, msg>>

\* What was queued meanwhile becomes the next batch once front has gone out; the
\* right is given back, under the same lock, only when there is nothing.
Swap(t) ==
    /\ pc[t] = "post"
    /\ IF Unsent = <<>>
       THEN front' = back /\ back' = <<>> /\ sent' = 0
       ELSE UNCHANGED <<front, back, sent>>
    /\ IF Unsent = <<>> /\ back = <<>>
       THEN sending' = FALSE /\ Goto(t, "idle") /\ UNCHANGED batch
       ELSE /\ batch' = [batch EXCEPT ![t] = Len(front') - sent']
            /\ Goto(t, "send")
            /\ UNCHANGED sending
    /\ UNCHANGED <<streak, socketVars, historyVars, msg>>

WsaSend(t) ==
    /\ pc[t] = "send"
    /\ ~closing
    /\ posted' = Append(posted, SubSeq(front, sent + 1, sent + batch[t]))
    /\ Goto(t, "idle")
    /\ UNCHANGED <<bufferVars, closing, kicked, dead, historyVars, msg, batch>>

\* WSASend itself fails: a broken or closed connection, or no buffer space.
WsaSendFails(t) ==
    /\ pc[t] = "send"
    /\ failed' = failed \cup {"call"}
    /\ Goto(t, "undo")
    /\ UNCHANGED <<bufferVars, socketVars, issued, accepted, wire, outcomes, msg, batch>>

\* Mutant: the right stays with a thread that will never use it.
UndoKeepsRight(t) ==
    /\ pc[t] = "undo"
    /\ IF t \in Senders THEN CallerDecides(t) ELSE Goto(t, "close")
    /\ UNCHANGED <<bufferVars, socketVars, historyVars, msg, batch>>

\* A failed WSASend gives the right back; front keeps what has not gone out.
Undo(t) ==
    /\ pc[t] = "undo"
    /\ sending' = FALSE
    /\ IF t \in Senders THEN CallerDecides(t) ELSE Goto(t, "close")
    /\ UNCHANGED <<front, back, sent, streak, socketVars, historyVars, msg, batch>>

-----------------------------------------------------------------------------
(* Completions, and closing *)

\* A completion of k units, fewer than posted or all of them: the worker adds
\* them to sent and goes on with post_send as the owner of the right.
SendDone(w, i, k) ==
    /\ pc[w] = "idle"
    /\ k <= Len(posted[i])
    /\ sent' = sent + k
    /\ wire' = wire \o SubSeq(posted[i], 1, k)
    /\ posted' = SubSeq(posted, 1, i - 1) \o SubSeq(posted, i + 1, Len(posted))
    /\ Goto(w, "post")
    /\ UNCHANGED <<front, back, sending, streak, closing, kicked, dead,
                   issued, accepted, outcomes, failed, msg, batch>>

\* An error completion: the worker closes and leaves the buffer as it is.
SendError(w, i) ==
    /\ pc[w] = "idle"
    /\ closing \/ dead
    /\ posted' = SubSeq(posted, 1, i - 1) \o SubSeq(posted, i + 1, Len(posted))
    /\ failed' = failed \cup {"completion"}
    /\ Goto(w, "close")
    /\ UNCHANGED <<bufferVars, closing, kicked, dead, issued, accepted, wire, outcomes,
                   msg, batch>>

Close(t) ==
    /\ pc[t] = "close"
    /\ closing' = TRUE
    /\ Goto(t, "idle")
    /\ UNCHANGED <<bufferVars, kicked, dead, posted, historyVars, msg, batch>>

PeerResets ==
    /\ ~dead
    /\ dead' = TRUE
    /\ UNCHANGED <<bufferVars, closing, kicked, posted, historyVars, threadVars>>

\* The outstanding WSARecv fails: there is always one while the session is open.
RecvFails(w) ==
    /\ pc[w] = "idle"
    /\ dead /\ ~closing
    /\ Goto(w, "close")
    /\ UNCHANGED <<bufferVars, socketVars, historyVars, msg, batch>>

-----------------------------------------------------------------------------
PostStep(t) == Swap(t) \/ WsaSend(t) \/ WsaSendFails(t) \/ Undo(t) \/ Close(t)

SendStep(t) == QueueMessage(t) \/ Overflow(t) \/ Kick(t)

Completion(w) ==
    \E i \in DOMAIN posted :
        (\E k \in 1..(MaxMessages * MaxSize) : SendDone(w, i, k)) \/ SendError(w, i)

Next ==
    \/ \E t \in Senders : SendStep(t) \/ \E size \in 1..MaxSize : Send(t, size)
    \/ \E t \in Threads : PostStep(t)
    \/ \E w \in IoWorkers : Completion(w) \/ RecvFails(w)
    \/ PeerResets

Spec == Init /\ [][Next]_vars

\* Threads run, and the completion port hands out what the kernel completes.
\* The peer reads: a WSASend completes in the end, or the connection dies, which
\* the outstanding WSARecv reports.
Fairness ==
    /\ \A t \in Threads : WF_vars(PostStep(t))
    /\ \A t \in Senders : WF_vars(SendStep(t))
    /\ SF_vars(\E w \in IoWorkers : Completion(w))
    /\ SF_vars(\E w \in IoWorkers : RecvFails(w))

FairSpec == Spec /\ Fairness

-----------------------------------------------------------------------------
(* Properties *)

\* The right to send: with a thread between taking it and giving it back or
\* handing it to the kernel, or with an outstanding WSASend.
Owners == {t \in Threads : pc[t] \in {"post", "send", "undo"}}

\* Besides the types: never more than one WSASend of a session, by any interleaving of
\* senders and completions; `sending' is up exactly while somebody owns the right,
\* except that an error completion leaves it up for good (session.h:132-138,
\* iocp_server.cpp:918-926).
OneSendAtATime ==
    /\ TypeOK
    /\ Cardinality(Owners) + Len(posted) <= 1
    /\ Cardinality(Owners) + Len(posted) = 1 => sending
    /\ sending => Cardinality(Owners) + Len(posted) = 1 \/ "completion" \in failed

\* The peer gets what was accepted, in order, whole messages one after the other,
\* nothing twice and nothing missing; the rest is still in the two buffers.  While
\* the kernel reads from front, front does not change (iocp_server.cpp:922-926).
StreamInOrder ==
    /\ accepted = wire \o Unsent \o back
    /\ \A i \in DOMAIN posted : posted[i] = Unsent

\* No accepted message waits in a queue nobody sends, unless WSASend itself failed
\* (iocp_server.cpp:945-947).
NothingStuck ==
    ~sending /\ "call" \notin failed => Unsent = <<>> /\ back = <<>>

\* The stream is what was accepted, none of it left behind.
StreamWhole == StreamInOrder /\ NothingStuck

\* Whatever was accepted gets out, unless the session is closed or WSASend
\* itself failed; the senders stop after MaxMessages messages.
AllGetsOut ==
    (accepted # wire) ~> (accepted = wire \/ closing \/ "call" \in failed)

\* The ends of the runs of Limit dropped messages that follow an accepted one (or
\* the beginning).
Runs ==
    {i \in Limit..Len(outcomes) :
        /\ \A j \in (i - Limit + 1)..i : ~outcomes[j]
        /\ i > Limit => outcomes[i - Limit]}

\* One thread kicks for each run of Limit messages dropped in a row, whichever
\* threads dropped them, and none for drops that a success interrupted
\* (session.h:139-143, TESTING.md:359-360).
KickPerRun ==
    Limit > 0 =>
        kicked + Cardinality({t \in Threads : pc[t] = "kick"}) = Cardinality(Runs)

\* iocp_server.cpp:869-873: only one thread sees the streak at exactly the limit,
\* so a session is kicked, and counted in send_full_kicked_, at most once.
KickedOnce == kicked <= 1
=============================================================================
