--------------------------- MODULE SessionLifeProofs ---------------------------
(***************************************************************************)
(* TLAPS proofs about SessionLife, for any sessions, any finite sets of    *)
(* I/O workers, pool workers and closing threads, any limits and any       *)
(* number of frames.                                                       *)
(***************************************************************************)
EXTENDS SessionLife, SequenceTheorems, FiniteSetTheorems, TLAPS

(* What a thread has at hand, by where it is. *)

PoolCtrl(w) ==
    /\ pc[w] \in {"idle", "exit"} =>
          own[w] = NoSession /\ at[w] = NoSession /\ job[w] = "none"
    /\ pc[w] = "next" => own[w] # NoSession /\ at[w] = NoSession /\ job[w] = "none"
    /\ pc[w] \in {"frame", "enter", "check", "reply", "finish"} =>
          own[w] # NoSession /\ at[w] = own[w] /\ job[w] = "frame"
    /\ pc[w] \in {"gone", "tell"} =>
          own[w] # NoSession /\ at[w] = own[w] /\ job[w] = "gone"
    /\ pc[w] = "peer" => own[w] # NoSession /\ at[w] # own[w] /\ job[w] # "none"
    /\ pc[w] \in {"close", "handoff"} =>
          own[w] # NoSession /\ job[w] # "none" /\ (at[w] = own[w] => job[w] = "frame")
    /\ pc[w] \in {"release", "remove"} => (own[w] = NoSession <=> job[w] = "none")
    /\ pc[w] \in {"idle", "exit", "next"} <=> at[w] = NoSession
    /\ pc[w] = "remove" => at[w] # own[w]
    /\ pc[w] \notin {"post", "drain", "sent"}

IoCtrl(w) ==
    /\ pc[w] \in {"idle", "exit"} <=> at[w] = NoSession
    /\ pc[w] \in {"idle", "exit", "post", "drain", "sent", "close", "handoff", "release",
                  "remove"}

CloserCtrl(c) ==
    /\ pc[c] = "idle" <=> at[c] = NoSession
    /\ pc[c] \in {"idle", "close", "handoff", "release", "remove"}

AcceptCtrl ==
    /\ pc[Acceptor] = "idle" <=> at[Acceptor] = NoSession
    /\ pc[Acceptor] \in {"idle", "post", "close", "handoff", "remove"}

CtrlInv ==
    /\ \A w \in PoolWorkers : PoolCtrl(w)
    /\ \A w \in IoWorkers : IoCtrl(w)
    /\ \A c \in Closers : CloserCtrl(c)
    /\ AcceptCtrl

\* The execution right of a session is with one worker.
RightInv ==
    /\ \A w, v \in PoolWorkers : own[w] = own[v] /\ own[w] # NoSession => w = v
    /\ \A w \in PoolWorkers : own[w] # NoSession => scheduled[own[w]]

\* A session in the roster has entered, or is entering.
EnterInv ==
    /\ \A w \in PoolWorkers : pc[w] = "enter" => roster[own[w]]
    /\ \A s \in Sessions :
        roster[s] => entered[s] \/ \E w \in PoolWorkers : own[w] = s /\ pc[w] = "enter"

\* One thread at most reads from a session, or the kernel; the same for sending.
ReadInv ==
    /\ \A t \in Threads : pc[t] \in {"post", "drain"} => ~recv[at[t]]
    /\ \A t, u \in Threads :
        pc[t] \in {"post", "drain"} /\ pc[u] \in {"post", "drain"} /\ at[t] = at[u] => t = u

SendInv ==
    /\ \A t \in Threads : pc[t] = "sent" => send[at[t]] = "owned"
    /\ \A t, u \in Threads : pc[t] = "sent" /\ pc[u] = "sent" /\ at[t] = at[u] => t = u

\* Nobody knows the session but perhaps the accept thread.
Fresh(s) ==
    /\ ~recv[s] /\ send[s] = "idle" /\ ~scheduled[s] /\ todo[s] = <<>>
    /\ ~roster[s] /\ ~entered[s]
    /\ \A t \in Threads \ {Acceptor} : at[t] # s
    /\ \A w \in PoolWorkers : own[w] # s

FreshInv ==
    /\ \A s \in Sessions : life[s] = "absent" => Fresh(s) /\ at[Acceptor] # s
    /\ pc[Acceptor] \in {"post", "close", "handoff"} => Fresh(at[Acceptor])

Counted == \A s \in Sessions : ioCount[s] = Holders(s)

Buffers == freeBufs \in Nat /\ IsFiniteSet(QueuedFrames) /\ FrameBuffersConserved

\* The cleanup job of a session is about to be queued, queued, or begun: once.
IsGone(s, i) == i \in 1..Len(todo[s]) /\ todo[s][i] = "gone"
NoCleanup(s) ==
    /\ ~cleaned[s]
    /\ \A w \in PoolWorkers : own[w] = s => job[w] # "gone"
GoneInv ==
    /\ \A t, u \in Threads :
        pc[t] = "handoff" /\ pc[u] = "handoff" /\ at[t] = at[u] => t = u
    /\ \A t \in Threads :
        pc[t] = "handoff" =>
          closing[at[t]] /\ NoCleanup(at[t]) /\ \A i \in Nat : ~IsGone(at[t], i)
    /\ \A s \in Sessions, i, k \in Nat :
        IsGone(s, i) =>
          closing[s] /\ NoCleanup(s) /\ (IsGone(s, k) => i = k)
    /\ \A s \in Sessions : cleaned[s] => closing[s]
    /\ \A w \in PoolWorkers : job[w] = "gone" => closing[own[w]]

-----------------------------------------------------------------------------
(* Types and threads *)

\* The types, without the ranges that follow from the accounts.
Typed ==
    /\ life \in [Sessions -> {"absent", "mapped", "freed"}]
    /\ closing \in [Sessions -> BOOLEAN]
    /\ ioCount \in [Sessions -> Int]
    /\ recv \in [Sessions -> BOOLEAN]
    /\ send \in [Sessions -> {"idle", "posted", "owned"}]
    /\ toSend \in [Sessions -> 0..MaxFrames]
    /\ todo \in [Sessions -> Seq(Jobs)]
    /\ scheduled \in [Sessions -> BOOLEAN]
    /\ entered \in [Sessions -> BOOLEAN]
    /\ roster \in [Sessions -> BOOLEAN]
    /\ cleaned \in [Sessions -> BOOLEAN]
    /\ freeBufs \in Int
    /\ phase \in {"up", "stopping", "closed", "ioGone", "cleared"}
    /\ pc \in [Threads -> {"idle", "exit", "post", "drain", "sent", "close", "handoff",
                           "release", "remove", "next", "frame", "enter", "check",
                           "reply", "peer", "finish", "gone", "tell"}]
    /\ at \in [Threads -> Sessions \cup {NoSession}]
    /\ own \in [PoolWorkers -> Sessions \cup {NoSession}]
    /\ job \in [PoolWorkers -> Jobs \cup {"none"}]

Labels == {"idle", "exit", "post", "drain", "sent", "close", "handoff", "release", "remove",
           "next", "frame", "enter", "check", "reply", "peer", "finish", "gone", "tell"}

LEMMA ThreadKinds ==
    /\ IoWorkers \subseteq Threads /\ PoolWorkers \subseteq Threads /\ Closers \subseteq Threads
    /\ Acceptor \in Threads /\ IsFiniteSet(Threads) /\ NoSession \notin Sessions
    /\ \A t \in Threads :
        /\ t \in IoWorkers \/ t \in PoolWorkers \/ t \in Closers \/ t = Acceptor
        /\ t \in IoWorkers => t \notin PoolWorkers /\ t \notin Closers /\ t # Acceptor
        /\ t \in PoolWorkers => t \notin Closers /\ t # Acceptor
        /\ t \in Closers => t # Acceptor
<1>1. IsFiniteSet(IoWorkers \cup PoolWorkers \cup {Acceptor} \cup Closers)
  <2>1. IsFiniteSet(IoWorkers \cup PoolWorkers)
    BY SessionLifeAssumption, FS_Union
  <2>2. IsFiniteSet(IoWorkers \cup PoolWorkers \cup {Acceptor})
    BY <2>1, FS_Singleton, FS_Union
  <2> QED BY <2>2, SessionLifeAssumption, FS_Union
<1> QED BY <1>1, SessionLifeAssumption DEF Threads

\* Queues, by length and element.
LEMMA QueueOps ==
    ASSUME Typed, NEW s \in Sessions
    PROVE  /\ Len(todo[s]) \in Nat
           /\ \A i \in 1..Len(todo[s]) : todo[s][i] \in Jobs
           /\ \A j \in Jobs :
                /\ Append(todo[s], j) \in Seq(Jobs)
                /\ Len(Append(todo[s], j)) = Len(todo[s]) + 1
                /\ \A i \in 1..Len(todo[s]) : Append(todo[s], j)[i] = todo[s][i]
                /\ Append(todo[s], j)[Len(todo[s]) + 1] = j
           /\ todo[s] # <<>> =>
                /\ Head(todo[s]) \in Jobs /\ Head(todo[s]) = todo[s][1]
                /\ Tail(todo[s]) \in Seq(Jobs) /\ Len(todo[s]) \in Nat \ {0}
                /\ Len(Tail(todo[s])) = Len(todo[s]) - 1
                /\ \A i \in 1..(Len(todo[s]) - 1) : Tail(todo[s])[i] = todo[s][i + 1]
<1> DEFINE q == todo[s]
<1>1. q \in Seq(Jobs)
  BY DEF Typed
<1> HIDE DEF q
<1>2. Len(q) \in Nat /\ \A i \in 1..Len(q) : q[i] \in Jobs
  BY <1>1, LenProperties, ElementOfSeq
<1>3. ASSUME NEW j \in Jobs
      PROVE  /\ Append(q, j) \in Seq(Jobs) /\ Len(Append(q, j)) = Len(q) + 1
             /\ \A i \in 1..Len(q) : Append(q, j)[i] = q[i]
             /\ Append(q, j)[Len(q) + 1] = j
  BY <1>1, AppendProperties
<1>4. q # <<>> =>
        /\ Head(q) \in Jobs /\ Head(q) = q[1] /\ Tail(q) \in Seq(Jobs) /\ Len(q) \in Nat \ {0}
        /\ Len(Tail(q)) = Len(q) - 1
        /\ \A i \in 1..(Len(q) - 1) : Tail(q)[i] = q[i + 1]
  <2> SUFFICES ASSUME q # <<>>
               PROVE  /\ Head(q) \in Jobs /\ Head(q) = q[1] /\ Tail(q) \in Seq(Jobs)
                      /\ Len(q) \in Nat \ {0} /\ Len(Tail(q)) = Len(q) - 1
                      /\ \A i \in 1..(Len(q) - 1) : Tail(q)[i] = q[i + 1]
    OBVIOUS
  <2>1. Head(q) \in Jobs /\ Head(q) = q[1] /\ Tail(q) \in Seq(Jobs) /\ Len(q) \in Nat \ {0}
    BY <1>1, HeadTailProperties, EmptySeq
  <2>2. Len(Tail(q)) = Len(q) - 1 /\ \A i \in 1..Len(Tail(q)) : Tail(q)[i] = q[i + 1]
    BY <1>1, HeadTailProperties
  <2> QED BY <2>1, <2>2
<1> QED BY <1>2, <1>3, <1>4 DEF q

LEMMA QueuedTyped ==
    ASSUME Typed, NEW s \in Sessions, NEW j \in Jobs, NEW n \in {0, 1}, Enqueue(s, j, n)
    PROVE  /\ todo' \in [Sessions -> Seq(Jobs)] /\ scheduled' \in [Sessions -> BOOLEAN]
           /\ ioCount' \in [Sessions -> Int]
<1>1. Append(todo[s], j) \in Seq(Jobs)
  BY QueueOps
<1> QED BY <1>1 DEF Enqueue, Typed

LEMMA HoldTyped ==
    ASSUME Typed, NEW x, x \in Sessions \cup {NoSession}
    PROVE  /\ Hold(x) => ioCount' \in [Sessions -> Int]
           /\ Drop(x) => ioCount' \in [Sessions -> Int]
           /\ LeaveRoster(x) => ioCount' \in [Sessions -> Int] /\ roster' \in [Sessions -> BOOLEAN]
<1>1. CASE x \in Sessions
  <2>1. ioCount \in [Sessions -> Int] /\ roster \in [Sessions -> BOOLEAN] /\ ioCount[x] \in Int
    BY <1>1 DEF Typed
  <2>2. ASSUME NEW n \in Int PROVE [ioCount EXCEPT ![x] = n] \in [Sessions -> Int]
    BY <2>1
  <2>3. Hold(x) => ioCount' = [ioCount EXCEPT ![x] = ioCount[x] + 1]
    BY DEF Hold
  <2>4. Drop(x) => ioCount' = [ioCount EXCEPT ![x] = ioCount[x] - 1]
    BY DEF Drop
  <2>5. LeaveRoster(x) =>
          /\ ioCount' = [ioCount EXCEPT ![x] = IF roster[x] THEN ioCount[x] - 1 ELSE ioCount[x]]
          /\ roster' \in [Sessions -> BOOLEAN]
    BY <2>1 DEF LeaveRoster
  <2>6. (IF roster[x] THEN ioCount[x] - 1 ELSE ioCount[x]) \in Int
    BY <2>1
  <2> QED BY <2>1, <2>2, <2>3, <2>4, <2>5, <2>6
<1>2. CASE x = NoSession
  BY <1>2, ThreadKinds DEF Typed, Hold, Drop, LeaveRoster
<1> QED BY <1>1, <1>2

LEMMA PostSendTyped ==
    ASSUME Typed, NEW t \in Threads, NEW yes \in Labels, NEW no \in Labels, PostSend(t, yes, no)
    PROVE  /\ send' \in [Sessions -> {"idle", "posted", "owned"}]
           /\ ioCount' \in [Sessions -> Int]
           /\ pc' \in [Threads -> Labels]
<1>1. pc' \in [Threads -> Labels] /\ send' \in [Sessions -> {"idle", "posted", "owned"}]
  <2>1. \E label \in {yes, no} : Goto(t, label)
    BY DEF PostSend
  <2>2. pc' \in [Threads -> Labels]
    BY <2>1 DEF Goto, Typed, Labels
  <2>3. send' = [send EXCEPT ![at[t]] = "posted"] \/ send' = [send EXCEPT ![at[t]] = "idle"]
    BY DEF PostSend
  <2>4. send' \in [Sessions -> {"idle", "posted", "owned"}]
    BY <2>3 DEF Typed
  <2> QED BY <2>2, <2>4
<1>2. Hold(at[t]) \/ UNCHANGED ioCount
  BY DEF PostSend
<1>3. at[t] \in Sessions \cup {NoSession}
  BY DEF Typed
<1> QED BY <1>1, <1>2, <1>3, HoldTyped DEF Typed

LEMMA ReleaseTyped ==
    ASSUME Typed, NEW t \in Threads, AfterRelease(t)
    PROVE  /\ pc' \in [Threads -> Labels]
           /\ at' \in [Threads -> Sessions \cup {NoSession}]
           /\ job' \in [PoolWorkers -> Jobs \cup {"none"}]
<1> USE DEF Typed, Labels
<1>1. CASE t \notin PoolWorkers \/ own[t] = NoSession
  BY <1>1 DEF AfterRelease, GotoWith
<1>2. CASE t \in PoolWorkers /\ own[t] # NoSession /\ at[t] = own[t]
  BY <1>2, ZenonT(60) DEF AfterRelease, GotoWith
<1>3. CASE t \in PoolWorkers /\ own[t] # NoSession /\ at[t] # own[t]
  BY <1>3, ZenonT(60) DEF AfterRelease, GotoWith
<1> QED BY <1>1, <1>2, <1>3

\* Who is in the middle of something is there for a session.
LEMMA AtSession ==
    ASSUME Typed, CtrlInv, NEW t \in Threads, pc[t] \notin {"idle", "exit", "next"}
    PROVE  at[t] \in Sessions
BY ThreadKinds DEF Typed, CtrlInv, PoolCtrl, IoCtrl, CloserCtrl, AcceptCtrl

LEMMA TypedStep ==
    ASSUME Typed, CtrlInv, Next
    PROVE  Typed'
<1> USE DEF Typed, Labels
<1>0. Acceptor \in Threads /\ IoWorkers \subseteq Threads /\ PoolWorkers \subseteq Threads
     /\ Closers \subseteq Threads
  BY ThreadKinds
<1>1. ASSUME NEW s \in Sessions, Accept(s) PROVE Typed'
  BY <1>0, <1>1 DEF Accept, AddSession, GotoWith, queueVars
<1>2. ASSUME NEW t \in Threads, PostRecv(t) PROVE Typed'
  BY <1>2, HoldTyped, ZenonT(60) DEF PostRecv, Goto, GotoWith, queueVars
<1>3. ASSUME NEW t \in Threads, PostRecvFails(t) PROVE Typed'
  BY <1>3 DEF PostRecvFails, Goto, sessionVars, queueVars
<1>4. ASSUME NEW w \in IoWorkers, NEW s \in Sessions, RecvFails(w, s) PROVE Typed'
  BY <1>0, <1>4 DEF RecvFails, GotoWith, queueVars
<1>5. ASSUME NEW w \in IoWorkers, NEW s \in Sessions, RecvData(w, s) PROVE Typed'
  BY <1>0, <1>5 DEF RecvData, GotoWith, queueVars
<1>6. ASSUME NEW w \in IoWorkers, NEW s \in Sessions, SendFails(w, s) PROVE Typed'
  BY <1>0, <1>6 DEF SendFails, GotoWith, queueVars
<1>7. ASSUME NEW w \in IoWorkers, NEW s \in Sessions, SendDone(w, s) PROVE Typed'
  BY <1>0, <1>7 DEF SendDone, GotoWith, queueVars
<1>8. ASSUME NEW w \in IoWorkers, DrainFrame(w) PROVE Typed'
  <2>1. at[w] \in Sessions /\ "frame" \in Jobs
    BY <1>0, <1>8 DEF DrainFrame, CtrlInv, IoCtrl, Jobs
  <2>2. toSend' \in [Sessions -> 0..MaxFrames]
    BY <1>8, <2>1, SessionLifeAssumption DEF DrainFrame
  <2>4. CASE freeBufs = 0
    BY <1>0, <1>8, <2>2, <2>4, ZenonT(60) DEF DrainFrame, Goto, queueVars
  <2>5. CASE freeBufs # 0
    BY <1>8, <2>1, <2>2, <2>5, QueuedTyped, SMTT(60) DEF DrainFrame
  <2> QED BY <2>4, <2>5
<1>9. ASSUME NEW w \in IoWorkers, DrainEnds(w) PROVE Typed'
  BY <1>0, <1>9, SMTT(60) DEF DrainEnds, Goto, sessionVars, queueVars
<1>10. ASSUME NEW w \in IoWorkers, AfterSend(w) PROVE Typed'
  BY <1>0, <1>10, PostSendTyped DEF AfterSend, queueVars
<1>11. ASSUME NEW w \in IoWorkers, IoExit(w) PROVE Typed'
  BY <1>0, <1>11 DEF IoExit, Goto, sessionVars, queueVars
<1>12. ASSUME NEW c \in Closers, NEW s \in Sessions, HeldToClose(c, s) PROVE Typed'
  BY <1>0, <1>12 DEF HeldToClose, Hold, GotoWith, sessionVars, queueVars
<1>13. ASSUME NEW w \in PoolWorkers, NEW s \in Sessions, Take(w, s) PROVE Typed'
  BY <1>0, <1>13 DEF Take, Goto, sessionVars, queueVars
<1>14. ASSUME NEW w \in PoolWorkers, NEW s \in Sessions, Found(w, s) PROVE Typed'
  BY <1>0, <1>14 DEF Found, Hold, GotoWith, sessionVars, queueVars
<1>15. ASSUME NEW w \in PoolWorkers, BeginJob(w) PROVE Typed'
  <2>1. own[w] \in Sessions /\ todo[own[w]] # <<>>
    BY <1>15 DEF BeginJob, CtrlInv, PoolCtrl
  <2>2. Head(todo[own[w]]) \in Jobs /\ Tail(todo[own[w]]) \in Seq(Jobs)
    BY <2>1, QueueOps
  <2>3. todo' = [todo EXCEPT ![own[w]] = Tail(todo[own[w]])]
    BY <1>15 DEF BeginJob
  <2>4. todo' \in [Sessions -> Seq(Jobs)]
    BY <2>2, <2>3
  <2> QED BY <1>0, <1>15, <2>1, <2>2, <2>4 DEF BeginJob, GotoWith, sessionVars, Jobs
<1>16. ASSUME NEW w \in PoolWorkers, EndRight(w) PROVE Typed'
  BY <1>0, <1>16 DEF EndRight, GotoWith, sessionVars
<1>17. ASSUME NEW w \in PoolWorkers, PoolExit(w) PROVE Typed'
  BY <1>0, <1>17 DEF PoolExit, Goto, sessionVars, queueVars
<1>18. ASSUME NEW w \in PoolWorkers, HandleFrame(w) PROVE Typed'
  BY <1>0, <1>18 DEF HandleFrame, Goto, sessionVars, queueVars
<1>19. ASSUME NEW w \in PoolWorkers, Enter(w) PROVE Typed'
  BY <1>0, <1>19 DEF Enter, Goto, queueVars
<1>2a. ASSUME NEW w \in PoolWorkers, EnterHold(w) PROVE Typed'
  BY <1>0, <1>2a, HoldTyped DEF EnterHold, Goto, queueVars
<1>21. ASSUME NEW w \in PoolWorkers, EnterCheck(w) PROVE Typed'
  BY <1>0, <1>21, HoldTyped DEF EnterCheck, Goto, queueVars
<1>22. ASSUME NEW w \in PoolWorkers, Reply(w) PROVE Typed'
  <2>1. send' \in [Sessions -> {"idle", "posted", "owned"}] /\ ioCount' \in [Sessions -> Int]
        /\ pc' \in [Threads -> Labels]
    <3>1. CASE send[own[w]] = "idle" /\ ~closing[own[w]]
      BY <1>0, <1>22, <3>1, PostSendTyped DEF Reply
    <3>2. CASE ~(send[own[w]] = "idle" /\ ~closing[own[w]])
      <4>1. \E label \in {"finish", "close"} : Goto(w, label)
        BY <1>22, <3>2 DEF Reply
      <4>2. UNCHANGED <<send, ioCount>>
        BY <1>22, <3>2 DEF Reply
      <4> QED BY <1>0, <4>1, <4>2 DEF Goto
    <3> QED BY <3>1, <3>2, SMTT(60)
  <2> QED BY <1>0, <1>22, <2>1 DEF Reply, queueVars
<1>23. ASSUME NEW w \in PoolWorkers, SendPeer(w) PROVE Typed'
  <2>1. send' \in [Sessions -> {"idle", "posted", "owned"}] /\ ioCount' \in [Sessions -> Int]
        /\ pc' \in [Threads -> Labels]
    <3>1. CASE send[at[w]] = "idle" /\ ~closing[at[w]]
      BY <1>0, <1>23, <3>1, PostSendTyped DEF SendPeer
    <3>2. CASE ~(send[at[w]] = "idle" /\ ~closing[at[w]])
      <4>1. \E label \in {"release", "close"} : Goto(w, label)
        BY <1>23, <3>2 DEF SendPeer
      <4>2. UNCHANGED <<send, ioCount>>
        BY <1>23, <3>2 DEF SendPeer
      <4> QED BY <1>0, <4>1, <4>2 DEF Goto
    <3> QED BY <3>1, <3>2
  <2> QED BY <1>0, <1>23, <2>1, SMTT(60) DEF SendPeer, queueVars
<1>24. ASSUME NEW w \in PoolWorkers, FinishFrame(w) PROVE Typed'
  BY <1>0, <1>24 DEF FinishFrame, Goto, sessionVars, queueVars
<1>25. ASSUME NEW w \in PoolWorkers, Cleanup(w) PROVE Typed'
  BY <1>0, <1>25, HoldTyped DEF Cleanup, Goto, queueVars
<1>26. ASSUME NEW w \in PoolWorkers, CleanupDone(w) PROVE Typed'
  BY <1>0, <1>26 DEF CleanupDone, Goto, sessionVars, queueVars
<1>27. ASSUME NEW t \in Threads, MarkClosing(t) PROVE Typed'
  BY <1>27 DEF MarkClosing, AfterClose, Goto, queueVars
<1>28. ASSUME NEW t \in Threads, HandOff(t) PROVE Typed'
  <2>1. at[t] \in Sessions /\ "gone" \in Jobs
    <3>1. pc[t] = "handoff"
      BY <1>28 DEF HandOff
    <3> QED BY <3>1, AtSession DEF Jobs
  <2>2. pc' \in [Threads -> Labels]
    BY <1>28 DEF HandOff, AfterClose, Goto
  <2>3. CASE Refused(at[t])
    BY <1>28, <2>2, <2>3 DEF HandOff, sessionVars, queueVars
  <2>4. CASE ~Refused(at[t])
    BY <1>28, <2>1, <2>2, <2>4, QueuedTyped DEF HandOff, sessionVars
  <2> QED BY <2>3, <2>4
<1>29. ASSUME NEW t \in Threads, ReleaseIo(t) PROVE Typed'
  BY <1>29, ReleaseTyped, HoldTyped, ZenonT(60) DEF ReleaseIo, Goto, sessionVars, queueVars
<1>30. ASSUME NEW t \in Threads, TryRemove(t) PROVE Typed'
  BY <1>30, ReleaseTyped DEF TryRemove, queueVars
<1>31. CASE Stop
  BY <1>31 DEF Stop, Advance, vars, sessionVars, queueVars, threadVars
<1>32. CASE CloseSockets
  BY <1>32 DEF CloseSockets, Advance, vars, sessionVars, queueVars, threadVars
<1>33. CASE StopPool
  BY <1>33 DEF StopPool, Advance, vars, sessionVars, queueVars, threadVars
<1>34. CASE ClearSessions
  BY <1>34 DEF ClearSessions, Advance, vars, sessionVars, queueVars, threadVars
<1>35. CASE UNCHANGED vars
  BY <1>35 DEF Advance, vars, sessionVars, queueVars, threadVars
<1> QED
  BY <1>0, <1>1, <1>2, <1>3, <1>4, <1>5, <1>6, <1>7, <1>8, <1>9, <1>10, <1>11, <1>12, <1>13,
     <1>14, <1>15, <1>16, <1>17, <1>18, <1>19, <1>2a, <1>21, <1>22, <1>23, <1>24, <1>25, <1>26,
     <1>27, <1>28, <1>29, <1>30, <1>31, <1>32, <1>33, <1>34, <1>35
     DEF Next, AcceptStep, Completion, IoStep, PoolStep, CloseStep, CloseIdle, CloseById, Chat, TellZone

-----------------------------------------------------------------------------
(* One thread at a time *)

\* A step of one thread: nobody else's program counter or pointers change.
Others(t) ==
    \A u \in Threads \ {t} :
        /\ pc'[u] = pc[u] /\ at'[u] = at[u]
        /\ u \in PoolWorkers => own'[u] = own[u] /\ job'[u] = job[u]

ThreadStep(t) ==
    \/ t = Acceptor /\ \E s \in Sessions : Accept(s)
    \/ t \in IoWorkers \cup {Acceptor} /\ (PostRecv(t) \/ PostRecvFails(t))
    \/ t \in IoWorkers /\ (DrainFrame(t) \/ DrainEnds(t) \/ AfterSend(t) \/ IoExit(t))
    \/ t \in IoWorkers /\ \E s \in Sessions : Completion(t, s)
    \/ t \in Closers /\ \E s \in Sessions : CloseIdle(t, s) \/ CloseById(t, s)
    \/ t \in PoolWorkers /\ (PoolStep(t) \/ PoolExit(t) \/ \E s \in Sessions : Take(t, s))
    \/ CloseStep(t)

MainStep == Stop \/ CloseSockets \/ StopPool \/ ClearSessions \/ UNCHANGED vars

LEMMA Steps == Next => MainStep \/ \E t \in Threads : ThreadStep(t)
BY ThreadKinds DEF Next, ThreadStep, MainStep, AcceptStep, IoStep

LEMMA Alone ==
    ASSUME Typed, NEW t \in Threads, ThreadStep(t)
    PROVE  Others(t)
<1> USE DEF Others
<1>0. Typed /\ PoolWorkers \subseteq Threads
  BY ThreadKinds
<1>1. ASSUME NEW s \in Sessions, t = Acceptor, Accept(s) PROVE Others(t)
  BY <1>0, <1>1 DEF Typed, Accept, GotoWith
<1>2. ASSUME PostRecv(t) PROVE Others(t)
  BY <1>0, <1>2 DEF Typed, PostRecv, Goto, GotoWith
<1>3. ASSUME PostRecvFails(t) PROVE Others(t)
  BY <1>0, <1>3 DEF Typed, PostRecvFails, Goto
<1>4. ASSUME NEW s \in Sessions, t \in IoWorkers, RecvFails(t, s) PROVE Others(t)
  BY <1>0, <1>4 DEF Typed, RecvFails, GotoWith
<1>5. ASSUME NEW s \in Sessions, t \in IoWorkers, RecvData(t, s) PROVE Others(t)
  BY <1>0, <1>5 DEF Typed, RecvData, GotoWith
<1>6. ASSUME NEW s \in Sessions, t \in IoWorkers, SendFails(t, s) PROVE Others(t)
  BY <1>0, <1>6 DEF Typed, SendFails, GotoWith
<1>7. ASSUME NEW s \in Sessions, t \in IoWorkers, SendDone(t, s) PROVE Others(t)
  BY <1>0, <1>7 DEF Typed, SendDone, GotoWith
<1>8. ASSUME t \in IoWorkers, DrainFrame(t) PROVE Others(t)
  BY <1>0, <1>8 DEF Typed, DrainFrame, Goto
<1>9. ASSUME t \in IoWorkers, DrainEnds(t) PROVE Others(t)
  BY <1>0, <1>9 DEF Typed, DrainEnds, Goto
<1>10. ASSUME t \in IoWorkers, AfterSend(t) PROVE Others(t)
  BY <1>0, <1>10 DEF Typed, AfterSend, PostSend, Goto
<1>11. ASSUME t \in IoWorkers, IoExit(t) PROVE Others(t)
  BY <1>0, <1>11 DEF Typed, IoExit, Goto
<1>12. ASSUME NEW s \in Sessions, t \in Closers, HeldToClose(t, s) PROVE Others(t)
  BY <1>0, <1>12 DEF Typed, HeldToClose, GotoWith
<1>13. ASSUME NEW s \in Sessions, t \in PoolWorkers, Take(t, s) PROVE Others(t)
  BY <1>0, <1>13 DEF Typed, Take, Goto
<1>14. ASSUME NEW s \in Sessions, t \in PoolWorkers, Found(t, s) PROVE Others(t)
  BY <1>0, <1>14 DEF Typed, Found, GotoWith
<1>15. ASSUME t \in PoolWorkers, BeginJob(t) PROVE Others(t)
  BY <1>0, <1>15 DEF Typed, BeginJob, GotoWith
<1>16. ASSUME t \in PoolWorkers, EndRight(t) PROVE Others(t)
  BY <1>0, <1>16 DEF Typed, EndRight, GotoWith
<1>17. ASSUME t \in PoolWorkers, PoolExit(t) PROVE Others(t)
  BY <1>0, <1>17 DEF Typed, PoolExit, Goto
<1>18. ASSUME t \in PoolWorkers, HandleFrame(t) PROVE Others(t)
  BY <1>0, <1>18 DEF Typed, HandleFrame, Goto
<1>19. ASSUME t \in PoolWorkers, Enter(t) PROVE Others(t)
  BY <1>0, <1>19 DEF Typed, Enter, Goto
<1>2a. ASSUME t \in PoolWorkers, EnterHold(t) PROVE Others(t)
  BY <1>0, <1>2a DEF Typed, EnterHold, Goto
<1>21. ASSUME t \in PoolWorkers, EnterCheck(t) PROVE Others(t)
  BY <1>0, <1>21 DEF Typed, EnterCheck, Goto
<1>22. ASSUME t \in PoolWorkers, Reply(t) PROVE Others(t)
  BY <1>0, <1>22 DEF Typed, Reply, PostSend, Goto
<1>23. ASSUME t \in PoolWorkers, SendPeer(t) PROVE Others(t)
  BY <1>0, <1>23 DEF Typed, SendPeer, PostSend, Goto
<1>24. ASSUME t \in PoolWorkers, FinishFrame(t) PROVE Others(t)
  BY <1>0, <1>24 DEF Typed, FinishFrame, Goto
<1>25. ASSUME t \in PoolWorkers, Cleanup(t) PROVE Others(t)
  BY <1>0, <1>25 DEF Typed, Cleanup, Goto
<1>26. ASSUME t \in PoolWorkers, CleanupDone(t) PROVE Others(t)
  BY <1>0, <1>26 DEF Typed, CleanupDone, Goto
<1>27. ASSUME MarkClosing(t) PROVE Others(t)
  BY <1>0, <1>27 DEF Typed, MarkClosing, Goto
<1>28. ASSUME HandOff(t) PROVE Others(t)
  BY <1>0, <1>28 DEF Typed, HandOff, Goto
<1>29. ASSUME ReleaseIo(t) PROVE Others(t)
  BY <1>0, <1>29 DEF Typed, ReleaseIo, Goto, AfterRelease, GotoWith
<1>30. ASSUME TryRemove(t) PROVE Others(t)
  BY <1>0, <1>30 DEF Typed, TryRemove, AfterRelease, GotoWith
<1> QED
  BY <1>1, <1>2, <1>3, <1>4, <1>5, <1>6, <1>7, <1>8, <1>9, <1>10, <1>11, <1>12, <1>13, <1>14,
     <1>15, <1>16, <1>17, <1>18, <1>19, <1>2a, <1>21, <1>22, <1>23, <1>24, <1>25, <1>26, <1>27,
     <1>28, <1>29, <1>30
     DEF ThreadStep, Completion, PoolStep, CloseStep, CloseIdle, CloseById, Chat, TellZone

\* What a thread has at hand, whatever kind it is of.
Ctrl(t) ==
    /\ t \in PoolWorkers => PoolCtrl(t)
    /\ t \in IoWorkers => IoCtrl(t)
    /\ t \in Closers => CloserCtrl(t)
    /\ t = Acceptor => AcceptCtrl

LEMMA CtrlLocal ==
    ASSUME CtrlInv, NEW t \in Threads, Others(t), Ctrl(t)'
    PROVE  CtrlInv'
<1>1. ASSUME NEW w \in PoolWorkers PROVE PoolCtrl(w)'
  BY ThreadKinds DEF CtrlInv, Ctrl, PoolCtrl, Others
<1>2. ASSUME NEW w \in IoWorkers PROVE IoCtrl(w)'
  BY ThreadKinds DEF CtrlInv, Ctrl, IoCtrl, Others
<1>3. ASSUME NEW c \in Closers PROVE CloserCtrl(c)'
  BY ThreadKinds DEF CtrlInv, Ctrl, CloserCtrl, Others
<1>4. AcceptCtrl'
  BY ThreadKinds, SMTT(60) DEF CtrlInv, Ctrl, AcceptCtrl, Others
<1> QED BY <1>1, <1>2, <1>3, <1>4 DEF CtrlInv

LEMMA CtrlStep ==
    ASSUME Typed, CtrlInv, NEW t \in Threads, ThreadStep(t),
           \A w \in PoolWorkers :
              pc[w] = "release" /\ at[w] = own[w] => ioCount[at[w]] # 1
    PROVE  Ctrl(t)'
<1>0. /\ Typed
      /\ t \in PoolWorkers => PoolCtrl(t)
      /\ t \in IoWorkers => IoCtrl(t)
      /\ t \in Closers => CloserCtrl(t)
      /\ t = Acceptor => AcceptCtrl
      /\ t \in IoWorkers \/ t \in PoolWorkers \/ t \in Closers \/ t = Acceptor
      /\ t \in IoWorkers => t \notin PoolWorkers /\ t \notin Closers /\ t # Acceptor
      /\ t \in PoolWorkers => t \notin Closers /\ t # Acceptor
      /\ t \in Closers => t # Acceptor
      /\ NoSession \notin Sessions
  BY ThreadKinds DEF CtrlInv
<1> USE DEF Ctrl, PoolCtrl, IoCtrl, CloserCtrl, AcceptCtrl
<1>1. ASSUME NEW s \in Sessions, t = Acceptor, Accept(s) PROVE Ctrl(t)'
  BY <1>0, <1>1 DEF Typed, Accept, GotoWith
<1>2. ASSUME t \in IoWorkers \cup {Acceptor}, PostRecv(t) PROVE Ctrl(t)'
  BY <1>0, <1>2 DEF Typed, PostRecv, Goto, GotoWith
<1>3. ASSUME t \in IoWorkers \cup {Acceptor}, PostRecvFails(t) PROVE Ctrl(t)'
  BY <1>0, <1>3 DEF Typed, PostRecvFails, Goto
<1>4. ASSUME NEW s \in Sessions, t \in IoWorkers, RecvFails(t, s) PROVE Ctrl(t)'
  BY <1>0, <1>4 DEF Typed, RecvFails, GotoWith
<1>5. ASSUME NEW s \in Sessions, t \in IoWorkers, RecvData(t, s) PROVE Ctrl(t)'
  BY <1>0, <1>5 DEF Typed, RecvData, GotoWith
<1>6. ASSUME NEW s \in Sessions, t \in IoWorkers, SendFails(t, s) PROVE Ctrl(t)'
  BY <1>0, <1>6 DEF Typed, SendFails, GotoWith
<1>7. ASSUME NEW s \in Sessions, t \in IoWorkers, SendDone(t, s) PROVE Ctrl(t)'
  BY <1>0, <1>7 DEF Typed, SendDone, GotoWith
<1>8. ASSUME t \in IoWorkers, DrainFrame(t) PROVE Ctrl(t)'
  BY <1>0, <1>8 DEF Typed, DrainFrame, Goto
<1>9. ASSUME t \in IoWorkers, DrainEnds(t) PROVE Ctrl(t)'
  BY <1>0, <1>9 DEF Typed, DrainEnds, Goto
<1>10. ASSUME t \in IoWorkers, AfterSend(t) PROVE Ctrl(t)'
  BY <1>0, <1>10 DEF Typed, AfterSend, PostSend, Goto
<1>11. ASSUME t \in IoWorkers, IoExit(t) PROVE Ctrl(t)'
  BY <1>0, <1>11 DEF Typed, IoExit, Goto
<1>12. ASSUME NEW s \in Sessions, t \in Closers, at[Acceptor] # s \/ roster[s] \/ entered[s],
              HeldToClose(t, s)
       PROVE  Ctrl(t)'
  BY <1>0, <1>12 DEF Typed, HeldToClose, GotoWith
<1>13. ASSUME NEW s \in Sessions, t \in PoolWorkers, Take(t, s) PROVE Ctrl(t)'
  BY <1>0, <1>13 DEF Typed, Take, Goto
<1>14. ASSUME NEW s \in Sessions, t \in PoolWorkers, pc[t] \in {"frame", "tell"}, Found(t, s)
       PROVE  Ctrl(t)'
  BY <1>0, <1>14 DEF Typed, Found, GotoWith
<1>15. ASSUME t \in PoolWorkers, BeginJob(t) PROVE Ctrl(t)'
  <2>1. Head(todo[own[t]]) \in Jobs /\ own[t] \in Sessions
    BY <1>0, <1>15, QueueOps DEF Typed, BeginJob
  <2> QED BY <1>0, <1>15, <2>1 DEF Typed, BeginJob, GotoWith, Jobs
<1>16. ASSUME t \in PoolWorkers, EndRight(t) PROVE Ctrl(t)'
  BY <1>0, <1>16 DEF Typed, EndRight, GotoWith
<1>17. ASSUME t \in PoolWorkers, PoolExit(t) PROVE Ctrl(t)'
  BY <1>0, <1>17 DEF Typed, PoolExit, Goto
<1>18. ASSUME t \in PoolWorkers, HandleFrame(t) PROVE Ctrl(t)'
  BY <1>0, <1>18 DEF Typed, HandleFrame, Goto
<1>19. ASSUME t \in PoolWorkers, Enter(t) PROVE Ctrl(t)'
  BY <1>0, <1>19 DEF Typed, Enter, Goto
<1>2a. ASSUME t \in PoolWorkers, EnterHold(t) PROVE Ctrl(t)'
  BY <1>0, <1>2a DEF Typed, EnterHold, Goto
<1>21. ASSUME t \in PoolWorkers, EnterCheck(t) PROVE Ctrl(t)'
  BY <1>0, <1>21 DEF Typed, EnterCheck, Goto
<1>22. ASSUME t \in PoolWorkers, Reply(t) PROVE Ctrl(t)'
  BY <1>0, <1>22 DEF Typed, Reply, PostSend, Goto
<1>23. ASSUME t \in PoolWorkers, SendPeer(t) PROVE Ctrl(t)'
  BY <1>0, <1>23 DEF Typed, SendPeer, PostSend, Goto
<1>24. ASSUME t \in PoolWorkers, FinishFrame(t) PROVE Ctrl(t)'
  BY <1>0, <1>24 DEF Typed, FinishFrame, Goto
<1>25. ASSUME t \in PoolWorkers, Cleanup(t) PROVE Ctrl(t)'
  BY <1>0, <1>25 DEF Typed, Cleanup, Goto
<1>26. ASSUME t \in PoolWorkers, CleanupDone(t) PROVE Ctrl(t)'
  BY <1>0, <1>26 DEF Typed, CleanupDone, Goto
<1>27. ASSUME MarkClosing(t) PROVE Ctrl(t)'
  BY <1>0, <1>27 DEF Typed, MarkClosing, AfterClose, Goto
<1>28. ASSUME HandOff(t) PROVE Ctrl(t)'
  BY <1>0, <1>28 DEF Typed, HandOff, AfterClose, Goto
<1>29. ASSUME ReleaseIo(t) PROVE Ctrl(t)'
  BY <1>0, <1>29 DEF Typed, ReleaseIo, Goto, AfterRelease, GotoWith
<1>30. ASSUME TryRemove(t) PROVE Ctrl(t)'
  BY <1>0, <1>30 DEF Typed, TryRemove, AfterRelease, GotoWith
<1> QED
  BY <1>1, <1>2, <1>3, <1>4, <1>5, <1>6, <1>7, <1>8, <1>9, <1>10, <1>11, <1>12, <1>13, <1>14,
     <1>15, <1>16, <1>17, <1>18, <1>19, <1>2a, <1>21, <1>22, <1>23, <1>24, <1>25, <1>26, <1>27,
     <1>28, <1>29, <1>30
     DEF ThreadStep, Completion, PoolStep, CloseStep, CloseIdle, CloseById, Chat, TellZone

-----------------------------------------------------------------------------
(* Execution rights *)

\* Only taking and ending a right moves one.
LEMMA RightsStand ==
    ASSUME Typed, CtrlInv, NEW t \in Threads, ThreadStep(t)
    PROVE  \/ own' = own /\ \A s \in Sessions : scheduled[s] => scheduled'[s]
           \/ t \in PoolWorkers /\ EndRight(t)
           \/ t \in PoolWorkers /\ \E s \in Sessions : Take(t, s)
<1> DEFINE Stand == own' = own /\ \A s \in Sessions : scheduled[s] => scheduled'[s]
<1>0. UNCHANGED <<own, scheduled>> => Stand
  OBVIOUS
<1> USE DEF queueVars
<1>1. ASSUME NEW s \in Sessions, t = Acceptor, Accept(s) PROVE Stand
  BY <1>0, <1>1 DEF Accept
<1>2. ASSUME t \in IoWorkers \cup {Acceptor}, PostRecv(t) PROVE Stand
  BY <1>0, <1>2 DEF PostRecv
<1>3. ASSUME t \in IoWorkers \cup {Acceptor}, PostRecvFails(t) PROVE Stand
  BY <1>0, <1>3 DEF PostRecvFails
<1>4. ASSUME NEW s \in Sessions, t \in IoWorkers, RecvFails(t, s) PROVE Stand
  BY <1>0, <1>4 DEF RecvFails
<1>5. ASSUME NEW s \in Sessions, t \in IoWorkers, RecvData(t, s) PROVE Stand
  BY <1>0, <1>5 DEF RecvData
<1>6. ASSUME NEW s \in Sessions, t \in IoWorkers, SendFails(t, s) PROVE Stand
  BY <1>0, <1>6 DEF SendFails
<1>7. ASSUME NEW s \in Sessions, t \in IoWorkers, SendDone(t, s) PROVE Stand
  BY <1>0, <1>7 DEF SendDone
<1>8. ASSUME t \in IoWorkers, DrainFrame(t) PROVE Stand
  <2>1. CASE UNCHANGED queueVars
    BY <1>0, <1>8, <2>1 DEF DrainFrame
  <2>2. CASE \E j \in Jobs : Enqueue(at[t], j, 1)
    BY <1>8, <2>2 DEF DrainFrame, Enqueue, Typed
  <2> QED BY <1>8, <2>1, <2>2 DEF DrainFrame, Jobs
<1>9. ASSUME t \in IoWorkers, DrainEnds(t) PROVE Stand
  BY <1>0, <1>9 DEF DrainEnds
<1>10. ASSUME t \in IoWorkers, AfterSend(t) PROVE Stand
  BY <1>0, <1>10 DEF AfterSend
<1>11. ASSUME t \in IoWorkers, IoExit(t) PROVE Stand
  BY <1>0, <1>11 DEF IoExit
<1>12. ASSUME NEW s \in Sessions, t \in Closers, at[Acceptor] # s \/ roster[s] \/ entered[s],
              HeldToClose(t, s)
       PROVE  Stand
  BY <1>0, <1>12 DEF HeldToClose
<1>13. ASSUME NEW s \in Sessions, t \in PoolWorkers, pc[t] \in {"frame", "tell"}, Found(t, s)
       PROVE  Stand
  BY <1>0, <1>13 DEF Found
<1>14. ASSUME t \in PoolWorkers, BeginJob(t) PROVE Stand
  BY <1>0, <1>14 DEF BeginJob
<1>15. ASSUME t \in PoolWorkers, PoolExit(t) PROVE Stand
  BY <1>0, <1>15 DEF PoolExit
<1>16. ASSUME t \in PoolWorkers, HandleFrame(t) PROVE Stand
  BY <1>0, <1>16 DEF HandleFrame
<1>17. ASSUME t \in PoolWorkers, Enter(t) PROVE Stand
  BY <1>0, <1>17 DEF Enter
<1>18. ASSUME t \in PoolWorkers, EnterHold(t) PROVE Stand
  BY <1>0, <1>18 DEF EnterHold
<1>19. ASSUME t \in PoolWorkers, EnterCheck(t) PROVE Stand
  BY <1>0, <1>19 DEF EnterCheck
<1>2a. ASSUME t \in PoolWorkers, Reply(t) PROVE Stand
  BY <1>0, <1>2a DEF Reply
<1>21. ASSUME t \in PoolWorkers, SendPeer(t) PROVE Stand
  BY <1>0, <1>21 DEF SendPeer
<1>22. ASSUME t \in PoolWorkers, FinishFrame(t) PROVE Stand
  BY <1>0, <1>22 DEF FinishFrame
<1>23. ASSUME t \in PoolWorkers, Cleanup(t) PROVE Stand
  BY <1>0, <1>23 DEF Cleanup
<1>24. ASSUME t \in PoolWorkers, CleanupDone(t) PROVE Stand
  BY <1>0, <1>24 DEF CleanupDone
<1>25. ASSUME MarkClosing(t) PROVE Stand
  BY <1>0, <1>25 DEF MarkClosing
<1>26. ASSUME HandOff(t) PROVE Stand
  <2>1. CASE UNCHANGED queueVars
    BY <1>0, <1>26, <2>1 DEF HandOff
  <2>2. CASE \E j \in Jobs : Enqueue(at[t], j, 1)
    BY <1>26, <2>2 DEF HandOff, Enqueue, Typed
  <2> QED BY <1>26, <2>1, <2>2 DEF HandOff, Jobs
<1>27. ASSUME ReleaseIo(t) PROVE Stand
  BY <1>0, <1>27 DEF ReleaseIo
<1>28. ASSUME TryRemove(t) PROVE Stand
  BY <1>0, <1>28 DEF TryRemove
<1> QED
  BY <1>1, <1>2, <1>3, <1>4, <1>5, <1>6, <1>7, <1>8, <1>9, <1>10, <1>11, <1>12, <1>13,
     <1>14, <1>15, <1>16, <1>17, <1>18, <1>19, <1>2a, <1>21, <1>22, <1>23, <1>24,
     <1>25, <1>26, <1>27, <1>28
     DEF ThreadStep, Completion, PoolStep, CloseStep, CloseIdle, CloseById, Chat, TellZone

LEMMA RightStep ==
    ASSUME Typed, CtrlInv, RightInv, NEW t \in Threads, ThreadStep(t)
    PROVE  RightInv'
<1>1. ASSUME t \in PoolWorkers, NEW s \in Sessions, Take(t, s) PROVE RightInv'
  BY <1>1, ThreadKinds DEF Take, Drained, RightInv, Typed, queueVars
<1>2. ASSUME t \in PoolWorkers, EndRight(t) PROVE RightInv'
  BY <1>2, ThreadKinds DEF EndRight, RightInv, Typed, CtrlInv, PoolCtrl
<1>3. CASE own' = own /\ \A s \in Sessions : scheduled[s] => scheduled'[s]
  BY <1>3 DEF RightInv, Typed
<1> QED BY <1>1, <1>2, <1>3, RightsStand

-----------------------------------------------------------------------------
(* The roster *)

\* Only entering and leaving change who is in it, or who is about to have a hold there.
LEMMA RosterStands ==
    ASSUME Typed, CtrlInv, NEW t \in Threads, ThreadStep(t)
    PROVE  \/ roster' = roster /\ entered' = entered /\ pc[t] # "enter" /\ pc'[t] # "enter"
           \/ t \in PoolWorkers /\ (Enter(t) \/ EnterHold(t) \/ EnterCheck(t) \/ Cleanup(t))
<1> DEFINE Stand == roster' = roster /\ entered' = entered /\ pc[t] # "enter" /\ pc'[t] # "enter"
<1>0. Typed
  OBVIOUS
<1>1. ASSUME NEW s \in Sessions, t = Acceptor, Accept(s) PROVE Stand
  BY <1>0, <1>1 DEF Typed, sessionVars, Accept, GotoWith
<1>2. ASSUME t \in IoWorkers \cup {Acceptor}, PostRecv(t) PROVE Stand
  BY <1>0, <1>2 DEF Typed, sessionVars, PostRecv, Goto, GotoWith
<1>3. ASSUME t \in IoWorkers \cup {Acceptor}, PostRecvFails(t) PROVE Stand
  BY <1>0, <1>3 DEF Typed, sessionVars, PostRecvFails, Goto
<1>4. ASSUME NEW s \in Sessions, t \in IoWorkers, RecvFails(t, s) PROVE Stand
  BY <1>0, <1>4 DEF Typed, sessionVars, RecvFails, GotoWith
<1>5. ASSUME NEW s \in Sessions, t \in IoWorkers, RecvData(t, s) PROVE Stand
  BY <1>0, <1>5 DEF Typed, sessionVars, RecvData, GotoWith
<1>6. ASSUME NEW s \in Sessions, t \in IoWorkers, SendFails(t, s) PROVE Stand
  BY <1>0, <1>6 DEF Typed, sessionVars, SendFails, GotoWith
<1>7. ASSUME NEW s \in Sessions, t \in IoWorkers, SendDone(t, s) PROVE Stand
  BY <1>0, <1>7 DEF Typed, sessionVars, SendDone, GotoWith
<1>8. ASSUME t \in IoWorkers, DrainFrame(t) PROVE Stand
  BY <1>0, <1>8 DEF Typed, sessionVars, DrainFrame, Goto
<1>9. ASSUME t \in IoWorkers, DrainEnds(t) PROVE Stand
  BY <1>0, <1>9 DEF Typed, sessionVars, DrainEnds, Goto
<1>10. ASSUME t \in IoWorkers, AfterSend(t) PROVE Stand
  BY <1>0, <1>10 DEF Typed, sessionVars, AfterSend, PostSend, Goto
<1>11. ASSUME t \in IoWorkers, IoExit(t) PROVE Stand
  BY <1>0, <1>11 DEF Typed, sessionVars, IoExit, Goto
<1>12. ASSUME NEW s \in Sessions, t \in Closers, at[Acceptor] # s \/ roster[s] \/ entered[s],
              HeldToClose(t, s)
       PROVE  Stand
  BY <1>0, <1>12 DEF Typed, sessionVars, HeldToClose, GotoWith
<1>13. ASSUME NEW s \in Sessions, t \in PoolWorkers, Take(t, s) PROVE Stand
  BY <1>0, <1>13 DEF Typed, sessionVars, Take, Goto
<1>14. ASSUME NEW s \in Sessions, t \in PoolWorkers, pc[t] \in {"frame", "tell"}, Found(t, s)
       PROVE  Stand
  BY <1>0, <1>14 DEF Typed, sessionVars, Found, GotoWith
<1>15. ASSUME t \in PoolWorkers, BeginJob(t) PROVE Stand
  <2>1. Head(todo[own[t]]) \in Jobs
    BY <1>0, <1>15, QueueOps, ThreadKinds DEF Typed, BeginJob, CtrlInv, PoolCtrl
  <2> QED BY <1>0, <1>15, <2>1 DEF Typed, BeginJob, GotoWith, Jobs, sessionVars
<1>16. ASSUME t \in PoolWorkers, EndRight(t) PROVE Stand
  BY <1>0, <1>16 DEF Typed, sessionVars, EndRight, GotoWith
<1>17. ASSUME t \in PoolWorkers, PoolExit(t) PROVE Stand
  BY <1>0, <1>17 DEF Typed, sessionVars, PoolExit, Goto
<1>18. ASSUME t \in PoolWorkers, HandleFrame(t) PROVE Stand
  BY <1>0, <1>18 DEF Typed, sessionVars, HandleFrame, Goto
<1>19. ASSUME t \in PoolWorkers, Reply(t) PROVE Stand
  BY <1>0, <1>19 DEF Typed, sessionVars, Reply, PostSend, Goto
<1>2a. ASSUME t \in PoolWorkers, SendPeer(t) PROVE Stand
  BY <1>0, <1>2a DEF Typed, sessionVars, SendPeer, PostSend, Goto
<1>21. ASSUME t \in PoolWorkers, FinishFrame(t) PROVE Stand
  BY <1>0, <1>21 DEF Typed, sessionVars, FinishFrame, Goto
<1>22. ASSUME t \in PoolWorkers, CleanupDone(t) PROVE Stand
  BY <1>0, <1>22 DEF Typed, sessionVars, CleanupDone, Goto
<1>23. ASSUME MarkClosing(t) PROVE Stand
  BY <1>0, <1>23 DEF Typed, sessionVars, MarkClosing, AfterClose, Goto
<1>24. ASSUME HandOff(t) PROVE Stand
  BY <1>0, <1>24 DEF Typed, sessionVars, HandOff, AfterClose, Goto
<1>25. ASSUME ReleaseIo(t) PROVE Stand
  BY <1>0, <1>25 DEF Typed, sessionVars, ReleaseIo, Goto, AfterRelease, GotoWith
<1>26. ASSUME TryRemove(t) PROVE Stand
  BY <1>0, <1>26 DEF Typed, sessionVars, TryRemove, AfterRelease, GotoWith
<1> QED
  BY <1>1, <1>2, <1>3, <1>4, <1>5, <1>6, <1>7, <1>8, <1>9, <1>10, <1>11, <1>12, <1>13,
     <1>14, <1>15, <1>16, <1>17, <1>18, <1>19, <1>2a, <1>21, <1>22, <1>23, <1>24,
     <1>25, <1>26
     DEF ThreadStep, Completion, PoolStep, CloseStep, CloseIdle, CloseById, Chat, TellZone

LEMMA RosterLeft ==
    ASSUME Typed, CtrlInv, RightInv, EnterInv, NEW t \in PoolWorkers, Others(t), own' = own, entered' = entered,
           own[t] \in Sessions, pc[t] # "enter", pc'[t] # "enter",
           roster' = roster \/ roster' = [roster EXCEPT ![own[t]] = FALSE]
    PROVE  EnterInv'
<1>0. PoolWorkers \subseteq Threads /\ NoSession \notin Sessions /\ roster \in [Sessions -> BOOLEAN]
  BY ThreadKinds DEF Typed
<1>1. ASSUME NEW w \in PoolWorkers
      PROVE  (pc[w] = "enter" \/ pc'[w] = "enter") => w # t /\ pc'[w] = pc[w]
  BY <1>0 DEF Others
<1>2. ASSUME NEW w \in PoolWorkers, pc'[w] = "enter" PROVE roster'[own'[w]]
  <2>1. roster[own[w]] /\ w # t
    BY <1>1, <1>2 DEF EnterInv
  <2>2. own[w] # own[t]
    BY <2>1, <1>0 DEF RightInv
  <2>3. own[w] \in Sessions
    <3>1. pc[w] = "enter" /\ own[w] \in Sessions \cup {NoSession}
      BY <1>1, <1>2 DEF Typed
    <3>2. own[w] # NoSession
      BY <3>1 DEF CtrlInv, PoolCtrl
    <3> QED BY <3>1, <3>2
  <2> QED BY <1>0, <2>1, <2>2, <2>3
<1>3. ASSUME NEW s \in Sessions, roster'[s]
      PROVE  entered'[s] \/ \E w \in PoolWorkers : own'[w] = s /\ pc'[w] = "enter"
  <2>1. roster[s]
    BY <1>0, <1>3
  <2> QED BY <2>1, <1>1 DEF EnterInv
<1> QED BY <1>2, <1>3 DEF EnterInv

LEMMA EnterStep ==
    ASSUME Typed, CtrlInv, RightInv, EnterInv, NEW t \in Threads, ThreadStep(t)
    PROVE  EnterInv'
<1>0. Typed /\ Others(t) /\ PoolWorkers \subseteq Threads /\ NoSession \notin Sessions
  BY Alone, ThreadKinds
<1>1. CASE /\ roster' = roster /\ entered' = entered /\ pc[t] # "enter" /\ pc'[t] # "enter"
  <2>1. ASSUME NEW w \in PoolWorkers
        PROVE  (pc[w] = "enter" \/ pc'[w] = "enter") => w # t /\ pc'[w] = pc[w] /\ own'[w] = own[w]
    BY <1>0, <1>1 DEF Others
  <2>2. ASSUME NEW w \in PoolWorkers, pc'[w] = "enter" PROVE roster'[own'[w]]
    BY <1>1, <2>1, <2>2 DEF EnterInv
  <2>3. ASSUME NEW s \in Sessions, roster'[s]
        PROVE  entered'[s] \/ \E w \in PoolWorkers : own'[w] = s /\ pc'[w] = "enter"
    BY <1>1, <2>1, <2>3 DEF EnterInv
  <2> QED BY <2>2, <2>3 DEF EnterInv
<1>2. ASSUME t \in PoolWorkers, Enter(t) PROVE EnterInv'
  BY <1>0, <1>2 DEF Enter, Goto, EnterInv, Typed, CtrlInv, PoolCtrl
<1>3. ASSUME t \in PoolWorkers, EnterHold(t) PROVE EnterInv'
  BY <1>0, <1>3 DEF EnterHold, Goto, EnterInv, Typed, CtrlInv, PoolCtrl
<1>4. ASSUME t \in PoolWorkers, EnterCheck(t) PROVE EnterInv'
  <2>1. /\ own' = own /\ entered' = entered /\ pc[t] # "enter" /\ pc'[t] # "enter"
        /\ own[t] \in Sessions
    BY <1>0, <1>4 DEF EnterCheck, Goto, Typed, CtrlInv, PoolCtrl
  <2>2. roster' = roster \/ roster' = [roster EXCEPT ![own[t]] = FALSE]
    BY <1>4 DEF EnterCheck, LeaveRoster
  <2> QED BY <1>0, <1>4, <2>1, <2>2, RosterLeft
<1>5. ASSUME t \in PoolWorkers, Cleanup(t) PROVE EnterInv'
  <2>1. /\ own' = own /\ entered' = entered /\ pc[t] # "enter" /\ pc'[t] # "enter"
        /\ own[t] \in Sessions
    BY <1>0, <1>5 DEF Cleanup, Goto, Typed, CtrlInv, PoolCtrl
  <2>2. roster' = roster \/ roster' = [roster EXCEPT ![own[t]] = FALSE]
    BY <1>5 DEF Cleanup, LeaveRoster
  <2> QED BY <1>0, <1>5, <2>1, <2>2, RosterLeft
<1> QED BY <1>1, <1>2, <1>3, <1>4, <1>5, RosterStands

-----------------------------------------------------------------------------
(* Reading and sending *)

Reading(t) == pc[t] \in {"post", "drain"}

\* Nobody begins to read but who has just accepted a session or been given its data.
LEMMA ReadersStand ==
    ASSUME Typed, CtrlInv, NEW t \in Threads, ThreadStep(t)
    PROVE  \/ /\ \A s \in Sessions : recv'[s] => recv[s]
              /\ Reading(t)' => Reading(t) /\ at'[t] = at[t]
           \/ PostRecv(t)
           \/ t = Acceptor /\ \E s \in Sessions : Accept(s)
           \/ t \in IoWorkers /\ \E s \in Sessions : RecvData(t, s)
<1> DEFINE Stand == /\ \A s \in Sessions : recv'[s] => recv[s]
                    /\ Reading(t)' => Reading(t) /\ at'[t] = at[t]
<1>0. /\ pc \in [Threads -> Labels] /\ recv \in [Sessions -> BOOLEAN]
      /\ UNCHANGED recv /\ ~Reading(t)' => Stand
  BY DEF Typed, Labels
<1>1. ASSUME t \in IoWorkers \cup {Acceptor}, PostRecvFails(t) PROVE Stand
  BY <1>0, <1>1 DEF Reading, sessionVars, PostRecvFails, Goto
<1>2. ASSUME NEW s \in Sessions, t \in IoWorkers, RecvFails(t, s) PROVE Stand
  BY <1>0, <1>2 DEF Reading, sessionVars, RecvFails, GotoWith
<1>3. ASSUME NEW s \in Sessions, t \in IoWorkers, SendFails(t, s) PROVE Stand
  BY <1>0, <1>3 DEF Reading, sessionVars, SendFails, GotoWith
<1>4. ASSUME NEW s \in Sessions, t \in IoWorkers, SendDone(t, s) PROVE Stand
  BY <1>0, <1>4 DEF Reading, sessionVars, SendDone, GotoWith
<1>5. ASSUME t \in IoWorkers, DrainFrame(t) PROVE Stand
  BY <1>0, <1>5 DEF Reading, sessionVars, DrainFrame, Goto
<1>6. ASSUME t \in IoWorkers, DrainEnds(t) PROVE Stand
  BY <1>0, <1>6 DEF Reading, sessionVars, DrainEnds, Goto
<1>7. ASSUME t \in IoWorkers, AfterSend(t) PROVE Stand
  BY <1>0, <1>7 DEF Reading, sessionVars, AfterSend, PostSend, Goto
<1>8. ASSUME t \in IoWorkers, IoExit(t) PROVE Stand
  BY <1>0, <1>8 DEF Reading, sessionVars, IoExit, Goto
<1>9. ASSUME NEW s \in Sessions, t \in Closers, at[Acceptor] # s \/ roster[s] \/ entered[s],
             HeldToClose(t, s)
      PROVE  Stand
  BY <1>0, <1>9 DEF Reading, sessionVars, HeldToClose, GotoWith
<1>10. ASSUME NEW s \in Sessions, t \in PoolWorkers, Take(t, s) PROVE Stand
  BY <1>0, <1>10 DEF Reading, sessionVars, Take, Goto
<1>11. ASSUME NEW s \in Sessions, t \in PoolWorkers, pc[t] \in {"frame", "tell"}, Found(t, s)
       PROVE  Stand
  BY <1>0, <1>11 DEF Reading, sessionVars, Found, GotoWith
<1>12. ASSUME t \in PoolWorkers, BeginJob(t) PROVE Stand
  <2>1. Head(todo[own[t]]) \in Jobs
    BY <1>12, QueueOps, ThreadKinds DEF Typed, BeginJob, CtrlInv, PoolCtrl
  <2> QED BY <1>0, <1>12, <2>1 DEF Reading, BeginJob, GotoWith, Jobs, sessionVars
<1>13. ASSUME t \in PoolWorkers, EndRight(t) PROVE Stand
  BY <1>0, <1>13 DEF Reading, sessionVars, EndRight, GotoWith
<1>14. ASSUME t \in PoolWorkers, PoolExit(t) PROVE Stand
  BY <1>0, <1>14 DEF Reading, sessionVars, PoolExit, Goto
<1>15. ASSUME t \in PoolWorkers, HandleFrame(t) PROVE Stand
  BY <1>0, <1>15 DEF Reading, sessionVars, HandleFrame, Goto
<1>16. ASSUME t \in PoolWorkers, Enter(t) PROVE Stand
  BY <1>0, <1>16 DEF Reading, sessionVars, Enter, Goto
<1>17. ASSUME t \in PoolWorkers, EnterHold(t) PROVE Stand
  BY <1>0, <1>17 DEF Reading, sessionVars, EnterHold, Goto
<1>18. ASSUME t \in PoolWorkers, EnterCheck(t) PROVE Stand
  BY <1>0, <1>18 DEF Reading, sessionVars, EnterCheck, Goto
<1>19. ASSUME t \in PoolWorkers, Reply(t) PROVE Stand
  BY <1>0, <1>19 DEF Reading, sessionVars, Reply, PostSend, Goto
<1>2a. ASSUME t \in PoolWorkers, SendPeer(t) PROVE Stand
  BY <1>0, <1>2a DEF Reading, sessionVars, SendPeer, PostSend, Goto
<1>21. ASSUME t \in PoolWorkers, FinishFrame(t) PROVE Stand
  BY <1>0, <1>21 DEF Reading, sessionVars, FinishFrame, Goto
<1>22. ASSUME t \in PoolWorkers, Cleanup(t) PROVE Stand
  BY <1>0, <1>22 DEF Reading, sessionVars, Cleanup, Goto
<1>23. ASSUME t \in PoolWorkers, CleanupDone(t) PROVE Stand
  BY <1>0, <1>23 DEF Reading, sessionVars, CleanupDone, Goto
<1>24. ASSUME MarkClosing(t) PROVE Stand
  BY <1>0, <1>24 DEF Reading, sessionVars, MarkClosing, AfterClose, Goto
<1>25. ASSUME HandOff(t) PROVE Stand
  BY <1>0, <1>25 DEF Reading, sessionVars, HandOff, AfterClose, Goto
<1>26. ASSUME ReleaseIo(t) PROVE Stand
  BY <1>0, <1>26 DEF Reading, sessionVars, ReleaseIo, Goto, AfterRelease, GotoWith
<1>27. ASSUME TryRemove(t) PROVE Stand
  BY <1>0, <1>27 DEF Reading, sessionVars, TryRemove, AfterRelease, GotoWith
<1> HIDE DEF Stand
<1>30. \/ Stand \/ PostRecv(t)
       \/ t = Acceptor /\ \E s \in Sessions : Accept(s)
       \/ t \in IoWorkers /\ \E s \in Sessions : RecvData(t, s)
  BY <1>1, <1>2, <1>3, <1>4, <1>5, <1>6, <1>7, <1>8, <1>9, <1>10, <1>11, <1>12, <1>13,
     <1>14, <1>15, <1>16, <1>17, <1>18, <1>19, <1>2a, <1>21, <1>22, <1>23, <1>24,
     <1>25, <1>26, <1>27
     DEF ThreadStep, Completion, PoolStep, CloseStep, CloseIdle, CloseById, Chat, TellZone
<1> QED BY <1>30 DEF Stand

LEMMA ReadStep ==
    ASSUME Typed, CtrlInv, ReadInv, FreshInv, NEW t \in Threads, ThreadStep(t)
    PROVE  ReadInv'
<1>0. /\ Others(t) /\ pc \in [Threads -> Labels] /\ recv \in [Sessions -> BOOLEAN]
      /\ at \in [Threads -> Sessions \cup {NoSession}]
  BY Alone DEF Typed, Labels
<1>1. ASSUME NEW u \in Threads, Reading(u) PROVE at[u] \in Sessions /\ ~recv[at[u]]
  BY <1>1, AtSession DEF ReadInv, Reading
<1>2. CASE /\ \A s \in Sessions : recv'[s] => recv[s]
           /\ Reading(t)' => Reading(t) /\ at'[t] = at[t]
  <2>1. ASSUME NEW u \in Threads, Reading(u)' PROVE Reading(u) /\ at'[u] = at[u]
    BY <1>0, <1>2, <2>1 DEF Others, Reading
  <2> QED BY <1>1, <1>2, <2>1 DEF ReadInv, Reading
<1>3. ASSUME PostRecv(t) PROVE ReadInv'
  <2>1. Reading(t) /\ ~Reading(t)' /\ at[t] \in Sessions /\ recv' = [recv EXCEPT ![at[t]] = TRUE]
    BY <1>0, <1>1, <1>3 DEF PostRecv, Goto, GotoWith, Reading
  <2>2. ASSUME NEW u \in Threads, Reading(u)' PROVE Reading(u) /\ at'[u] = at[u] /\ u # t
    BY <1>0, <2>1, <2>2 DEF Others, Reading
  <2>3. ASSUME NEW u \in Threads, Reading(u)' PROVE at[u] # at[t]
    BY <2>1, <2>2, <2>3 DEF ReadInv, Reading
  <2> QED BY <1>0, <1>1, <2>1, <2>2, <2>3 DEF ReadInv, Reading
<1>4. ASSUME t = Acceptor, NEW s \in Sessions, Accept(s) PROVE ReadInv'
  <2>1. Fresh(s) /\ recv' = recv /\ at'[t] = s
    BY <1>0, <1>4 DEF FreshInv, Accept, AddSession, GotoWith
  <2>2. ASSUME NEW u \in Threads, u # t, Reading(u)'
        PROVE  Reading(u) /\ at'[u] = at[u] /\ at[u] # s
    BY <1>0, <1>4, <2>1, <2>2 DEF Others, Reading, Fresh
  <2> QED BY <1>1, <2>1, <2>2 DEF ReadInv, Reading, Fresh
<1>5. ASSUME t \in IoWorkers, NEW s \in Sessions, RecvData(t, s) PROVE ReadInv'
  <2>1. recv[s] /\ recv' = [recv EXCEPT ![s] = FALSE] /\ at'[t] = s
    BY <1>0, <1>5 DEF RecvData, GotoWith
  <2>2. ASSUME NEW u \in Threads, u # t, Reading(u)'
        PROVE  Reading(u) /\ at'[u] = at[u] /\ at[u] # s
    BY <1>0, <1>1, <2>1, <2>2 DEF Others, Reading
  <2> QED BY <1>0, <1>1, <2>1, <2>2 DEF ReadInv, Reading
<1> QED BY <1>2, <1>3, <1>4, <1>5, ReadersStand

\* Only a completion gives the right to send to an I/O worker.
LEMMA SendersStand ==
    ASSUME Typed, CtrlInv, NEW t \in Threads, ThreadStep(t)
    PROVE  \/ (\A s \in Sessions : send[s] = "owned" => send'[s] = "owned") /\ pc'[t] # "sent"
           \/ t \in IoWorkers /\ AfterSend(t)
           \/ t \in IoWorkers /\ \E s \in Sessions : SendDone(t, s)
<1> DEFINE Stand ==
      (\A s \in Sessions : send[s] = "owned" => send'[s] = "owned") /\ pc'[t] # "sent"
<1>0. /\ pc \in [Threads -> Labels] /\ send \in [Sessions -> {"idle", "posted", "owned"}]
      /\ UNCHANGED send /\ pc'[t] # "sent" => Stand
  BY DEF Typed, Labels
<1>1. ASSUME NEW s \in Sessions, t = Acceptor, Accept(s) PROVE Stand
  BY <1>0, <1>1 DEF sessionVars, Accept, GotoWith
<1>2. ASSUME t \in IoWorkers \cup {Acceptor}, PostRecv(t) PROVE Stand
  BY <1>0, <1>2 DEF sessionVars, PostRecv, Goto, GotoWith
<1>3. ASSUME t \in IoWorkers \cup {Acceptor}, PostRecvFails(t) PROVE Stand
  BY <1>0, <1>3 DEF sessionVars, PostRecvFails, Goto
<1>4. ASSUME NEW s \in Sessions, t \in IoWorkers, RecvFails(t, s) PROVE Stand
  BY <1>0, <1>4 DEF sessionVars, RecvFails, GotoWith
<1>5. ASSUME NEW s \in Sessions, t \in IoWorkers, RecvData(t, s) PROVE Stand
  BY <1>0, <1>5 DEF sessionVars, RecvData, GotoWith
<1>6. ASSUME NEW s \in Sessions, t \in IoWorkers, SendFails(t, s) PROVE Stand
  BY <1>0, <1>6 DEF sessionVars, SendFails, GotoWith
<1>7. ASSUME t \in IoWorkers, DrainFrame(t) PROVE Stand
  BY <1>0, <1>7 DEF sessionVars, DrainFrame, Goto
<1>8. ASSUME t \in IoWorkers, DrainEnds(t) PROVE Stand
  BY <1>0, <1>8 DEF sessionVars, DrainEnds, Goto
<1>9. ASSUME t \in IoWorkers, IoExit(t) PROVE Stand
  BY <1>0, <1>9 DEF sessionVars, IoExit, Goto
<1>10. ASSUME NEW s \in Sessions, t \in Closers, at[Acceptor] # s \/ roster[s] \/ entered[s],
              HeldToClose(t, s)
       PROVE  Stand
  BY <1>0, <1>10 DEF sessionVars, HeldToClose, GotoWith
<1>11. ASSUME NEW s \in Sessions, t \in PoolWorkers, Take(t, s) PROVE Stand
  BY <1>0, <1>11 DEF sessionVars, Take, Goto
<1>12. ASSUME NEW s \in Sessions, t \in PoolWorkers, pc[t] \in {"frame", "tell"}, Found(t, s)
       PROVE  Stand
  BY <1>0, <1>12 DEF sessionVars, Found, GotoWith
<1>13. ASSUME t \in PoolWorkers, BeginJob(t) PROVE Stand
  <2>1. Head(todo[own[t]]) \in Jobs
    BY <1>13, QueueOps, ThreadKinds DEF Typed, BeginJob, CtrlInv, PoolCtrl
  <2> QED BY <1>0, <1>13, <2>1 DEF BeginJob, GotoWith, Jobs, sessionVars
<1>14. ASSUME t \in PoolWorkers, EndRight(t) PROVE Stand
  BY <1>0, <1>14 DEF sessionVars, EndRight, GotoWith
<1>15. ASSUME t \in PoolWorkers, PoolExit(t) PROVE Stand
  BY <1>0, <1>15 DEF sessionVars, PoolExit, Goto
<1>16. ASSUME t \in PoolWorkers, HandleFrame(t) PROVE Stand
  BY <1>0, <1>16 DEF sessionVars, HandleFrame, Goto
<1>17. ASSUME t \in PoolWorkers, Enter(t) PROVE Stand
  BY <1>0, <1>17 DEF sessionVars, Enter, Goto
<1>18. ASSUME t \in PoolWorkers, EnterHold(t) PROVE Stand
  BY <1>0, <1>18 DEF sessionVars, EnterHold, Goto
<1>19. ASSUME t \in PoolWorkers, EnterCheck(t) PROVE Stand
  BY <1>0, <1>19 DEF sessionVars, EnterCheck, Goto
<1>2a. ASSUME t \in PoolWorkers, Reply(t) PROVE Stand
  <2>1. CASE send[own[t]] = "idle" /\ ~closing[own[t]]
    <3>1. \E label \in {"finish", "close", "release"} : Goto(t, label)
      BY <1>2a, <2>1 DEF Reply, PostSend
    <3>2. \E v \in {"idle", "posted"} : send' = [send EXCEPT ![own[t]] = v]
      BY <1>2a, <2>1, ThreadKinds DEF Reply, PostSend, CtrlInv, PoolCtrl
    <3> QED BY <1>0, <2>1, <3>1, <3>2 DEF Goto
  <2>2. CASE ~(send[own[t]] = "idle" /\ ~closing[own[t]])
    <3>1. (\E label \in {"finish", "close", "release"} : Goto(t, label)) /\ UNCHANGED send
      BY <1>2a, <2>2 DEF Reply
    <3> QED BY <1>0, <3>1 DEF Goto
  <2> QED BY <2>1, <2>2
<1>21. ASSUME t \in PoolWorkers, SendPeer(t) PROVE Stand
  <2>1. CASE send[at[t]] = "idle" /\ ~closing[at[t]]
    <3>1. \E label \in {"release", "close", "release"} : Goto(t, label)
      BY <1>21, <2>1 DEF SendPeer, PostSend
    <3>2. \E v \in {"idle", "posted"} : send' = [send EXCEPT ![at[t]] = v]
      BY <1>21, <2>1, ThreadKinds DEF SendPeer, PostSend, CtrlInv, PoolCtrl
    <3> QED BY <1>0, <2>1, <3>1, <3>2 DEF Goto
  <2>2. CASE ~(send[at[t]] = "idle" /\ ~closing[at[t]])
    <3>1. (\E label \in {"release", "close", "release"} : Goto(t, label)) /\ UNCHANGED send
      BY <1>21, <2>2 DEF SendPeer
    <3> QED BY <1>0, <3>1 DEF Goto
  <2> QED BY <2>1, <2>2
<1>22. ASSUME t \in PoolWorkers, FinishFrame(t) PROVE Stand
  BY <1>0, <1>22 DEF sessionVars, FinishFrame, Goto
<1>23. ASSUME t \in PoolWorkers, Cleanup(t) PROVE Stand
  BY <1>0, <1>23 DEF sessionVars, Cleanup, Goto
<1>24. ASSUME t \in PoolWorkers, CleanupDone(t) PROVE Stand
  BY <1>0, <1>24 DEF sessionVars, CleanupDone, Goto
<1>25. ASSUME MarkClosing(t) PROVE Stand
  BY <1>0, <1>25 DEF sessionVars, MarkClosing, AfterClose, Goto
<1>26. ASSUME HandOff(t) PROVE Stand
  BY <1>0, <1>26 DEF sessionVars, HandOff, AfterClose, Goto
<1>27. ASSUME ReleaseIo(t) PROVE Stand
  BY <1>0, <1>27 DEF sessionVars, ReleaseIo, Goto, AfterRelease, GotoWith
<1>28. ASSUME TryRemove(t) PROVE Stand
  BY <1>0, <1>28 DEF sessionVars, TryRemove, AfterRelease, GotoWith
<1> QED
  BY <1>1, <1>2, <1>3, <1>4, <1>5, <1>6, <1>7, <1>8, <1>9, <1>10, <1>11, <1>12, <1>13,
     <1>14, <1>15, <1>16, <1>17, <1>18, <1>19, <1>2a, <1>21, <1>22, <1>23, <1>24,
     <1>25, <1>26, <1>27, <1>28
     DEF ThreadStep, Completion, PoolStep, CloseStep, CloseIdle, CloseById, Chat, TellZone

LEMMA SendStep ==
    ASSUME Typed, CtrlInv, SendInv, NEW t \in Threads, ThreadStep(t)
    PROVE  SendInv'
<1>0. /\ Others(t) /\ pc \in [Threads -> Labels]
      /\ send \in [Sessions -> {"idle", "posted", "owned"}]
      /\ at \in [Threads -> Sessions \cup {NoSession}]
  BY Alone DEF Typed, Labels
<1>1. ASSUME NEW u \in Threads, pc[u] = "sent" PROVE at[u] \in Sessions /\ send[at[u]] = "owned"
  BY <1>1, AtSession DEF SendInv
<1>2. ASSUME NEW u \in Threads, u # t, pc'[u] = "sent" PROVE pc[u] = "sent" /\ at'[u] = at[u]
  BY <1>0, <1>2 DEF Others
<1>3. CASE (\A s \in Sessions : send[s] = "owned" => send'[s] = "owned") /\ pc'[t] # "sent"
  BY <1>1, <1>2, <1>3 DEF SendInv
<1>4. ASSUME t \in IoWorkers, AfterSend(t) PROVE SendInv'
  <2>1. /\ pc[t] = "sent" /\ pc'[t] # "sent"
        /\ \E v \in {"idle", "posted"} : send' = [send EXCEPT ![at[t]] = v]
    BY <1>0, <1>4 DEF AfterSend, PostSend, Goto
  <2>2. ASSUME NEW u \in Threads, pc'[u] = "sent"
        PROVE  pc[u] = "sent" /\ at'[u] = at[u] /\ u # t /\ at[u] # at[t]
    BY <1>2, <2>1, <2>2 DEF SendInv
  <2> QED BY <1>0, <1>1, <2>1, <2>2 DEF SendInv
<1>5. ASSUME t \in IoWorkers, NEW s \in Sessions, SendDone(t, s) PROVE SendInv'
  <2>1. send[s] = "posted" /\ send' = [send EXCEPT ![s] = "owned"] /\ at'[t] = s
    BY <1>0, <1>5 DEF SendDone, GotoWith
  <2>2. ASSUME NEW u \in Threads, u # t, pc'[u] = "sent"
        PROVE  pc[u] = "sent" /\ at'[u] = at[u] /\ at[u] # s
    BY <1>1, <1>2, <2>1, <2>2
  <2> QED BY <1>0, <1>1, <2>1, <2>2 DEF SendInv
<1> QED BY <1>3, <1>4, <1>5, SendersStand

-----------------------------------------------------------------------------
(* A session nobody knows yet *)

Quiet(s) ==
    /\ ~recv[s] /\ send[s] = "idle" /\ ~scheduled[s] /\ todo[s] = <<>>
    /\ ~roster[s] /\ ~entered[s]

\* Thread t has no way to session s.
Away(t, s) == at[t] # s /\ (t \in PoolWorkers => own[t] # s)

LEMMA FreshStands ==
    ASSUME Typed, CtrlInv, NEW t \in Threads, ThreadStep(t), NEW q \in Sessions,
           Quiet(q), Away(t, q), life[q] = "absent" \/ at[Acceptor] = q,
           t = Acceptor => ~Accept(q)
    PROVE  Quiet(q)' /\ Away(t, q)'
<1> DEFINE Stand == Quiet(q)' /\ Away(t, q)'
<1>0. /\ Typed
      /\ t \in PoolWorkers => PoolCtrl(t)
      /\ NoSession \notin Sessions
      /\ Quiet(q) /\ Away(t, q)
      /\ pc[t] \notin {"idle", "exit", "next"} => at[t] \in Sessions
      /\ life[q] = "absent" \/ at[Acceptor] = q
  BY ThreadKinds, AtSession DEF CtrlInv
<1>1. ASSUME NEW s \in Sessions, t = Acceptor, Accept(s) PROVE Stand
  BY <1>0, <1>1 DEF Quiet, Away, Typed, Accept, AddSession, GotoWith, queueVars
<1>2. ASSUME t \in IoWorkers \cup {Acceptor}, PostRecv(t) PROVE Stand
  BY <1>0, <1>2 DEF Quiet, Away, Typed, PostRecv, Goto, GotoWith, Hold, queueVars
<1>3. ASSUME t \in IoWorkers \cup {Acceptor}, PostRecvFails(t) PROVE Stand
  BY <1>0, <1>3 DEF Quiet, Away, Typed, PostRecvFails, Goto, sessionVars, queueVars
<1>4. ASSUME NEW s \in Sessions, t \in IoWorkers, RecvFails(t, s) PROVE Stand
  BY <1>0, <1>4 DEF Quiet, Away, Typed, RecvFails, GotoWith, queueVars
<1>5. ASSUME NEW s \in Sessions, t \in IoWorkers, RecvData(t, s) PROVE Stand
  BY <1>0, <1>5 DEF Quiet, Away, Typed, RecvData, GotoWith, queueVars
<1>6. ASSUME NEW s \in Sessions, t \in IoWorkers, SendFails(t, s) PROVE Stand
  BY <1>0, <1>6 DEF Quiet, Away, Typed, SendFails, GotoWith, queueVars
<1>7. ASSUME NEW s \in Sessions, t \in IoWorkers, SendDone(t, s) PROVE Stand
  BY <1>0, <1>7 DEF Quiet, Away, Typed, SendDone, GotoWith, queueVars
<1>8. ASSUME t \in IoWorkers, DrainFrame(t) PROVE Stand
  <2>1. UNCHANGED queueVars \/ \E j \in Jobs : Enqueue(at[t], j, 1)
    BY <1>8 DEF DrainFrame, Jobs
  <2>2. at[t] \in Sessions \ {q}
    BY <1>0, <1>8 DEF DrainFrame, Away
  <2>3. scheduled'[q] = scheduled[q] /\ todo'[q] = todo[q]
    BY <1>0, <2>1, <2>2 DEF Enqueue, queueVars, Typed
  <2>4. UNCHANGED <<recv, send, roster, entered, at, own>>
    BY <1>8 DEF DrainFrame, sessionVars
  <2> QED BY <1>0, <2>3, <2>4 DEF Quiet, Away
<1>9. ASSUME t \in IoWorkers, DrainEnds(t) PROVE Stand
  BY <1>0, <1>9 DEF Quiet, Away, Typed, DrainEnds, Goto, sessionVars, queueVars
<1>10. ASSUME t \in IoWorkers, AfterSend(t) PROVE Stand
  BY <1>0, <1>10 DEF Quiet, Away, Typed, AfterSend, PostSend, Goto, Hold, queueVars
<1>11. ASSUME t \in IoWorkers, IoExit(t) PROVE Stand
  BY <1>0, <1>11 DEF Quiet, Away, Typed, IoExit, Goto, sessionVars, queueVars
<1>12. ASSUME NEW s \in Sessions, t \in Closers, at[Acceptor] # s \/ roster[s] \/ entered[s],
              HeldToClose(t, s)
       PROVE  Stand
  BY <1>0, <1>12 DEF Quiet, Away, Typed, HeldToClose, Hold, GotoWith, sessionVars, queueVars
<1>13. ASSUME NEW s \in Sessions, t \in PoolWorkers, Take(t, s) PROVE Stand
  BY <1>0, <1>13 DEF Quiet, Away, Typed, Take, Goto, sessionVars, queueVars
<1>14. ASSUME NEW s \in Sessions, t \in PoolWorkers, pc[t] \in {"frame", "tell"}, Found(t, s)
       PROVE  Stand
  BY <1>0, <1>14 DEF Quiet, Away, Typed, Found, Hold, GotoWith, sessionVars, queueVars
<1>15. ASSUME t \in PoolWorkers, BeginJob(t) PROVE Stand
  BY <1>0, <1>15 DEF Quiet, Away, Typed, BeginJob, GotoWith, sessionVars
<1>16. ASSUME t \in PoolWorkers, EndRight(t) PROVE Stand
  BY <1>0, <1>16 DEF Quiet, Away, Typed, EndRight, GotoWith, sessionVars
<1>17. ASSUME t \in PoolWorkers, PoolExit(t) PROVE Stand
  BY <1>0, <1>17 DEF Quiet, Away, Typed, PoolExit, Goto, sessionVars, queueVars
<1>18. ASSUME t \in PoolWorkers, HandleFrame(t) PROVE Stand
  BY <1>0, <1>18 DEF Quiet, Away, Typed, HandleFrame, Goto, sessionVars, queueVars
<1>19. ASSUME t \in PoolWorkers, Enter(t) PROVE Stand
  BY <1>0, <1>19 DEF Quiet, Away, Typed, Enter, Goto, queueVars
<1>2a. ASSUME t \in PoolWorkers, EnterHold(t) PROVE Stand
  BY <1>0, <1>2a DEF Quiet, Away, Typed, EnterHold, Goto, Hold, queueVars
<1>21. ASSUME t \in PoolWorkers, EnterCheck(t) PROVE Stand
  BY <1>0, <1>21 DEF Quiet, Away, Typed, EnterCheck, LeaveRoster, Goto, queueVars
<1>22. ASSUME t \in PoolWorkers, Reply(t) PROVE Stand
  BY <1>0, <1>22 DEF Quiet, Away, Typed, Reply, PostSend, Goto, Hold, queueVars
<1>23. ASSUME t \in PoolWorkers, SendPeer(t) PROVE Stand
  BY <1>0, <1>23 DEF Quiet, Away, Typed, SendPeer, PostSend, Goto, Hold, queueVars
<1>24. ASSUME t \in PoolWorkers, FinishFrame(t) PROVE Stand
  BY <1>0, <1>24 DEF Quiet, Away, Typed, FinishFrame, Goto, sessionVars, queueVars
<1>25. ASSUME t \in PoolWorkers, Cleanup(t) PROVE Stand
  BY <1>0, <1>25 DEF Quiet, Away, Typed, Cleanup, LeaveRoster, Goto, queueVars
<1>26. ASSUME t \in PoolWorkers, CleanupDone(t) PROVE Stand
  BY <1>0, <1>26 DEF Quiet, Away, Typed, CleanupDone, Goto, sessionVars, queueVars
<1>27. ASSUME MarkClosing(t) PROVE Stand
  BY <1>0, <1>27 DEF Quiet, Away, Typed, MarkClosing, AfterClose, Goto, queueVars
<1>28. ASSUME HandOff(t) PROVE Stand
  <2>1. UNCHANGED queueVars \/ \E j \in Jobs : Enqueue(at[t], j, 1)
    BY <1>28 DEF HandOff, Jobs
  <2>2. at[t] \in Sessions \ {q}
    BY <1>0, <1>28 DEF HandOff, Away
  <2>3. scheduled'[q] = scheduled[q] /\ todo'[q] = todo[q]
    BY <1>0, <2>1, <2>2 DEF Enqueue, queueVars, Typed
  <2>4. UNCHANGED <<recv, send, roster, entered, at, own>>
    BY <1>28 DEF HandOff, sessionVars
  <2> QED BY <1>0, <2>3, <2>4 DEF Quiet, Away
<1>29. ASSUME ReleaseIo(t) PROVE Stand
  BY <1>0, <1>29 DEF Quiet, Away, Typed, ReleaseIo, Drop, Goto, sessionVars, queueVars,
     AfterRelease, GotoWith
<1>30. ASSUME TryRemove(t) PROVE Stand
  BY <1>0, <1>30 DEF Quiet, Away, Typed, TryRemove, queueVars, AfterRelease, GotoWith
<1> QED
  BY <1>1, <1>2, <1>3, <1>4, <1>5, <1>6, <1>7, <1>8, <1>9, <1>10, <1>11, <1>12, <1>13,
     <1>14, <1>15, <1>16, <1>17, <1>18, <1>19, <1>2a, <1>21, <1>22, <1>23, <1>24,
     <1>25, <1>26, <1>27, <1>28, <1>29, <1>30
     DEF ThreadStep, Completion, PoolStep, CloseStep, CloseIdle, CloseById, Chat, TellZone

LEMMA LifeStands ==
    ASSUME Typed, NEW t \in Threads, ThreadStep(t)
    PROVE  /\ phase' = phase
           /\ \/ life' = life
              \/ t = Acceptor /\ \E s \in Sessions : Accept(s)
              \/ TryRemove(t)
<1> DEFINE Stand == phase' = phase /\ life' = life
<1>1. ASSUME NEW s \in Sessions, t = Acceptor, Accept(s) PROVE phase' = phase
  BY <1>1 DEF Accept, sessionVars
<1>2. ASSUME t \in IoWorkers \cup {Acceptor}, PostRecv(t) PROVE Stand
  BY <1>2 DEF PostRecv, sessionVars
<1>3. ASSUME t \in IoWorkers \cup {Acceptor}, PostRecvFails(t) PROVE Stand
  BY <1>3 DEF PostRecvFails, sessionVars
<1>4. ASSUME NEW s \in Sessions, t \in IoWorkers, RecvFails(t, s) PROVE Stand
  BY <1>4 DEF RecvFails, sessionVars
<1>5. ASSUME NEW s \in Sessions, t \in IoWorkers, RecvData(t, s) PROVE Stand
  BY <1>5 DEF RecvData, sessionVars
<1>6. ASSUME NEW s \in Sessions, t \in IoWorkers, SendFails(t, s) PROVE Stand
  BY <1>6 DEF SendFails, sessionVars
<1>7. ASSUME NEW s \in Sessions, t \in IoWorkers, SendDone(t, s) PROVE Stand
  BY <1>7 DEF SendDone, sessionVars
<1>8. ASSUME t \in IoWorkers, DrainFrame(t) PROVE Stand
  BY <1>8 DEF DrainFrame, sessionVars
<1>9. ASSUME t \in IoWorkers, DrainEnds(t) PROVE Stand
  BY <1>9 DEF DrainEnds, sessionVars
<1>10. ASSUME t \in IoWorkers, AfterSend(t) PROVE Stand
  BY <1>10 DEF AfterSend, sessionVars
<1>11. ASSUME t \in IoWorkers, IoExit(t) PROVE Stand
  BY <1>11 DEF IoExit, sessionVars
<1>12. ASSUME NEW s \in Sessions, t \in Closers, at[Acceptor] # s \/ roster[s] \/ entered[s],
              HeldToClose(t, s)
       PROVE  Stand
  BY <1>12 DEF HeldToClose, sessionVars
<1>13. ASSUME NEW s \in Sessions, t \in PoolWorkers, Take(t, s) PROVE Stand
  BY <1>13 DEF Take, sessionVars
<1>14. ASSUME NEW s \in Sessions, t \in PoolWorkers, pc[t] \in {"frame", "tell"}, Found(t, s)
       PROVE  Stand
  BY <1>14 DEF Found, sessionVars
<1>15. ASSUME t \in PoolWorkers, BeginJob(t) PROVE Stand
  BY <1>15 DEF BeginJob, sessionVars
<1>16. ASSUME t \in PoolWorkers, EndRight(t) PROVE Stand
  BY <1>16 DEF EndRight, sessionVars
<1>17. ASSUME t \in PoolWorkers, PoolExit(t) PROVE Stand
  BY <1>17 DEF PoolExit, sessionVars
<1>18. ASSUME t \in PoolWorkers, HandleFrame(t) PROVE Stand
  BY <1>18 DEF HandleFrame, sessionVars
<1>19. ASSUME t \in PoolWorkers, Enter(t) PROVE Stand
  BY <1>19 DEF Enter, sessionVars
<1>2a. ASSUME t \in PoolWorkers, EnterHold(t) PROVE Stand
  BY <1>2a DEF EnterHold, sessionVars
<1>21. ASSUME t \in PoolWorkers, EnterCheck(t) PROVE Stand
  BY <1>21 DEF EnterCheck, sessionVars
<1>22. ASSUME t \in PoolWorkers, Reply(t) PROVE Stand
  BY <1>22 DEF Reply, sessionVars
<1>23. ASSUME t \in PoolWorkers, SendPeer(t) PROVE Stand
  BY <1>23 DEF SendPeer, sessionVars
<1>24. ASSUME t \in PoolWorkers, FinishFrame(t) PROVE Stand
  BY <1>24 DEF FinishFrame, sessionVars
<1>25. ASSUME t \in PoolWorkers, Cleanup(t) PROVE Stand
  BY <1>25 DEF Cleanup, sessionVars
<1>26. ASSUME t \in PoolWorkers, CleanupDone(t) PROVE Stand
  BY <1>26 DEF CleanupDone, sessionVars
<1>27. ASSUME MarkClosing(t) PROVE Stand
  BY <1>27 DEF MarkClosing, sessionVars
<1>28. ASSUME HandOff(t) PROVE Stand
  BY <1>28 DEF HandOff, sessionVars
<1>29. ASSUME ReleaseIo(t) PROVE Stand
  BY <1>29 DEF ReleaseIo, sessionVars
<1>30. TryRemove(t) => phase' = phase
  BY DEF TryRemove
<1> HIDE DEF Stand
<1>40. \/ Stand
       \/ phase' = phase /\ t = Acceptor /\ \E s \in Sessions : Accept(s)
       \/ phase' = phase /\ TryRemove(t)
  BY <1>1, <1>2, <1>3, <1>4, <1>5, <1>6, <1>7, <1>8, <1>9, <1>10, <1>11, <1>12, <1>13,
     <1>14, <1>15, <1>16, <1>17, <1>18, <1>19, <1>2a, <1>21, <1>22, <1>23, <1>24,
     <1>25, <1>26, <1>27, <1>28, <1>29, <1>30
     DEF ThreadStep, Completion, PoolStep, CloseStep, CloseIdle, CloseById, Chat, TellZone
<1> QED BY <1>40 DEF Stand

LEMMA AcceptorSteps ==
    ASSUME CtrlInv, ThreadStep(Acceptor)
    PROVE  \/ \E s \in Sessions : Accept(s)
           \/ PostRecv(Acceptor) \/ PostRecvFails(Acceptor)
           \/ MarkClosing(Acceptor) \/ HandOff(Acceptor) \/ TryRemove(Acceptor)
<1>1. ~ReleaseIo(Acceptor)
  BY DEF CtrlInv, AcceptCtrl, ReleaseIo
<1> QED BY <1>1, ThreadKinds DEF ThreadStep, CloseStep

\* Of a session that is absent, or that the accept thread has just made, nobody else knows.
LEMMA FreshStep ==
    ASSUME Typed, CtrlInv, FreshInv, NEW t \in Threads, ThreadStep(t)
    PROVE  FreshInv'
<1>0. /\ Others(t) /\ PoolWorkers \subseteq Threads /\ Acceptor \in Threads /\ Acceptor \notin PoolWorkers
      /\ at[Acceptor] \in Sessions \cup {NoSession} /\ NoSession \notin Sessions
      /\ AcceptCtrl
  BY Alone, ThreadKinds DEF Typed, CtrlInv
<1>1. ASSUME NEW s \in Sessions
      PROVE  /\ Fresh(s) <=> Quiet(s) /\ \A u \in Threads \ {Acceptor} : Away(u, s)
             /\ Fresh(s)' <=> Quiet(s)' /\ \A u \in Threads \ {Acceptor} : Away(u, s)'
  BY <1>0 DEF Fresh, Quiet, Away
<1>2. ASSUME NEW s \in Sessions, life'[s] = "absent" PROVE life[s] = "absent"
  <2>1. TryRemove(t) => life' = life \/ life' = [life EXCEPT ![at[t]] = "freed"]
    BY DEF TryRemove
  <2>2. \A r \in Sessions : Accept(r) => life' = [life EXCEPT ![r] = "mapped"]
    BY DEF Accept, AddSession
  <2>3. life \in [Sessions -> {"absent", "mapped", "freed"}]
    BY DEF Typed
  <2> QED BY <1>2, <2>1, <2>2, <2>3, LifeStands
<1>3. ASSUME NEW s \in Sessions, NEW u \in Threads, u # t, Away(u, s) PROVE Away(u, s)'
  BY <1>0, <1>3 DEF Others, Away
<1>4. ASSUME t # Acceptor, NEW s \in Sessions, Fresh(s), life[s] = "absent" \/ at[Acceptor] = s
      PROVE  Fresh(s)'
  <2>1. Quiet(s) /\ Away(t, s)
    BY <1>1, <1>4
  <2>2. Quiet(s)' /\ Away(t, s)'
    BY <1>4, <2>1, FreshStands
  <2> QED BY <1>1, <1>3, <1>4, <2>2
<1>5. CASE t # Acceptor
  <2>1. pc'[Acceptor] = pc[Acceptor] /\ at'[Acceptor] = at[Acceptor]
    BY <1>0, <1>5 DEF Others
  <2>2. ASSUME NEW s \in Sessions, life'[s] = "absent" PROVE Fresh(s)' /\ at'[Acceptor] # s
    BY <1>2, <1>4, <1>5, <2>1, <2>2 DEF FreshInv
  <2>3. pc'[Acceptor] \in {"post", "close", "handoff"} => Fresh(at[Acceptor])'
    BY <1>0, <1>4, <1>5, <2>1 DEF FreshInv, AcceptCtrl
  <2> QED BY <2>1, <2>2, <2>3 DEF FreshInv
<1>6. ASSUME t = Acceptor, NEW s \in Sessions, Fresh(s), at[Acceptor] # s, life[s] = "absent",
             ~Accept(s)
      PROVE  Fresh(s)' /\ at'[Acceptor] # s
  <2>1. Quiet(s) /\ Away(t, s)
    BY <1>0, <1>1, <1>6 DEF Away
  <2>2. Quiet(s)' /\ Away(t, s)'
    BY <1>6, <2>1, FreshStands
  <2>3. at'[Acceptor] # s
    BY <1>6, <2>2 DEF Away
  <2> QED BY <1>1, <1>3, <1>6, <2>2, <2>3
<1>7. ASSUME t = Acceptor, NEW s \in Sessions, Accept(s) PROVE FreshInv'
  <2>1. /\ life[s] = "absent" /\ life' = [life EXCEPT ![s] = "mapped"] /\ at'[Acceptor] = s
        /\ UNCHANGED <<recv, send, scheduled, todo, roster, entered, own>>
    BY <1>0, <1>7 DEF Accept, AddSession, GotoWith, Typed, queueVars
  <2>2. ASSUME NEW r \in Sessions, Fresh(r) PROVE Fresh(r)'
    <3>1. Quiet(r)' /\ \A u \in Threads \ {Acceptor} : Away(u, r)
      BY <1>1, <2>1, <2>2 DEF Quiet
    <3> QED BY <1>1, <1>3, <1>7, <3>1
  <2>3. Fresh(at[Acceptor])'
    BY <2>1, <2>2 DEF FreshInv
  <2>4. ASSUME NEW r \in Sessions, life'[r] = "absent" PROVE Fresh(r)' /\ at'[Acceptor] # r
    <3>1. life[r] = "absent" /\ r # s
      BY <2>1, <2>4 DEF Typed
    <3> QED BY <2>1, <2>2, <3>1 DEF FreshInv
  <2> QED BY <2>3, <2>4 DEF FreshInv
<1>8. CASE t = Acceptor /\ \A s \in Sessions : ~Accept(s)
  <2>1. ASSUME NEW s \in Sessions, life'[s] = "absent" PROVE Fresh(s)' /\ at'[Acceptor] # s
    BY <1>2, <1>6, <1>8, <2>1 DEF FreshInv
  <2>2. CASE PostRecv(Acceptor) \/ HandOff(Acceptor) \/ TryRemove(Acceptor)
    <3>1. pc'[Acceptor] \notin {"post", "close", "handoff"}
      BY <1>0, <2>2 DEF PostRecv, HandOff, TryRemove, AfterClose, AfterRelease, Goto, GotoWith,
         Typed
    <3> QED BY <2>1, <3>1 DEF FreshInv
  <2>3. CASE PostRecvFails(Acceptor) \/ MarkClosing(Acceptor)
    <3>1. /\ pc[Acceptor] \in {"post", "close"}
          /\ UNCHANGED <<recv, send, scheduled, todo, roster, entered, own, at>>
      BY <2>3 DEF PostRecvFails, MarkClosing, sessionVars, queueVars
    <3>2. Fresh(at[Acceptor])'
      BY <3>1 DEF FreshInv, Fresh
    <3> QED BY <2>1, <3>2 DEF FreshInv
  <2> QED BY <1>8, <2>2, <2>3, AcceptorSteps
<1> QED BY <1>5, <1>7, <1>8

-----------------------------------------------------------------------------
(* Counting the holders *)

Listed(s) == roster[s] /\ ~\E w \in PoolWorkers : own[w] = s /\ pc[w] = "enter"

\* The holders that are no threads.
Base(s) ==
    One(recv[s]) + One(send[s] = "posted") + One(scheduled[s]) + One(Listed(s)) + Len(todo[s])

\* Thread t counts as a holder of s: for its job, or for what it does with s meanwhile.
Uses(t, s) ==
    IF t \in PoolWorkers /\ own[t] = s
    THEN job[t] # "none"
    ELSE t # Acceptor /\ at[t] = s /\ pc[t] # "remove"

Working(s) == {w \in PoolWorkers : own[w] = s /\ job[w] # "none"}
Touching(s) ==
    {t \in Threads \ {Acceptor} :
        /\ at[t] = s
        /\ t \in PoolWorkers => own[t] # s
        /\ pc[t] # "remove"}

LEMMA OneNat == \A b : One(b) \in {0, 1}
BY DEF One

\* Two finite sets that differ in one element at most.
LEMMA CountChange ==
    ASSUME NEW X, IsFiniteSet(X), NEW Y, IsFiniteSet(Y), NEW x, X \ {x} = Y \ {x}
    PROVE  /\ Cardinality(X) \in Nat /\ Cardinality(Y) \in Nat
           /\ Cardinality(Y) = Cardinality(X) + One(x \in Y) - One(x \in X)
<1>1. Cardinality(X) \in Nat /\ Cardinality(Y) \in Nat /\ IsFiniteSet(X \ {x})
  BY FS_CardinalityType, FS_Difference
<1>2. x \in X => Cardinality(X \ {x}) = Cardinality(X) - 1
  BY FS_RemoveElement
<1>3. x \in Y => Cardinality(Y \ {x}) = Cardinality(Y) - 1
  BY FS_RemoveElement
<1>4. (x \notin X => X \ {x} = X) /\ (x \notin Y => Y \ {x} = Y)
  OBVIOUS
<1> DEFINE n == Cardinality(X \ {x})
<1>5. n \in Nat
  BY <1>1, FS_CardinalityType
<1>6. Cardinality(X) = n + One(x \in X)
  <2>1. CASE x \in X
    BY <1>1, <1>2, <1>5, <2>1 DEF One
  <2>2. CASE x \notin X
    BY <1>4, <1>5, <2>2 DEF One
  <2> QED BY <2>1, <2>2
<1>7. Cardinality(Y) = n + One(x \in Y)
  <2>1. CASE x \in Y
    BY <1>1, <1>3, <1>5, <2>1 DEF One
  <2>2. CASE x \notin Y
    <3>1. Cardinality(Y) = Cardinality(Y \ {x})
      BY <1>4, <2>2
    <3>2. Cardinality(Y \ {x}) = n
      OBVIOUS
    <3> HIDE DEF n
    <3> QED BY <1>5, <2>2, <3>1, <3>2 DEF One
  <2> QED BY <2>1, <2>2
<1> HIDE DEF n
<1> QED BY <1>1, <1>5, <1>6, <1>7, OneNat

LEMMA HoldersFinite ==
    ASSUME NEW s \in Sessions
    PROVE  /\ IsFiniteSet(Working(s)) /\ IsFiniteSet(Touching(s))
           /\ Holders(s) = Base(s) + Cardinality(Working(s)) + Cardinality(Touching(s))
<1>1. IsFiniteSet(Working(s))
  <2>1. Working(s) \subseteq PoolWorkers
    BY DEF Working
  <2> QED BY <2>1, SessionLifeAssumption, FS_Subset
<1>2. IsFiniteSet(Touching(s))
  <2>1. Touching(s) \subseteq Threads
    BY DEF Touching
  <2> QED BY <2>1, ThreadKinds, FS_Subset
<1>3. Holders(s) = Base(s) + Cardinality(Working(s)) + Cardinality(Touching(s))
  BY DEF Holders, Base, Listed, Working, Touching
<1> QED BY <1>1, <1>2, <1>3

LEMMA BaseNat ==
    ASSUME Typed, NEW s \in Sessions
    PROVE  Base(s) \in Nat
<1>1. Len(todo[s]) \in Nat
  BY QueueOps
<1> QED BY <1>1, OneNat DEF Base

\* The thread that steps is the only one whose share can change.
LEMMA CountedLocal ==
    ASSUME Typed, Typed', Counted, NEW t \in Threads, Others(t), NEW s \in Sessions,
           ioCount'[s] = ioCount[s] + Base(s)' - Base(s) + One(Uses(t, s)') - One(Uses(t, s))
    PROVE  ioCount'[s] = Holders(s)'
<1>1. Working(s) \ {t} = Working(s)' \ {t}
  BY ThreadKinds DEF Others, Working
<1>2. Touching(s) \ {t} = Touching(s)' \ {t}
  BY ThreadKinds DEF Others, Touching
<1>3. IsFiniteSet(Working(s)) /\ IsFiniteSet(Touching(s))
  BY HoldersFinite
<1>4. IsFiniteSet(Working(s)') /\ IsFiniteSet(Touching(s)')
  <2>1. IsFiniteSet(Working(s))' /\ IsFiniteSet(Touching(s))'
    BY HoldersFinite, PTL
  <2> QED BY <2>1
<1>5. /\ Cardinality(Working(s)) \in Nat /\ Cardinality(Working(s)') \in Nat
      /\ Cardinality(Working(s)') = Cardinality(Working(s)) + One(t \in Working(s)') - One(t \in Working(s))
  BY <1>1, <1>3, <1>4, CountChange
<1>6. /\ Cardinality(Touching(s)) \in Nat /\ Cardinality(Touching(s)') \in Nat
      /\ Cardinality(Touching(s)') = Cardinality(Touching(s)) + One(t \in Touching(s)') - One(t \in Touching(s))
  BY <1>2, <1>3, <1>4, CountChange
<1>7. One(Uses(t, s)) = One(t \in Working(s)) + One(t \in Touching(s))
  BY ThreadKinds DEF Uses, Working, Touching, One
<1>8. One(Uses(t, s)') = One(t \in Working(s)') + One(t \in Touching(s)')
  BY ThreadKinds DEF Uses, Working, Touching, One
<1>9. /\ Base(s) \in Nat
      /\ ioCount[s] = Base(s) + Cardinality(Working(s)) + Cardinality(Touching(s))
  BY HoldersFinite, BaseNat DEF Counted
<1>10. Base(s)' \in Nat
  <2>1. todo'[s] \in Seq(Jobs)
    BY DEF Typed
  <2>2. Len(todo'[s]) \in Nat
    BY <2>1, LenProperties
  <2> QED BY <2>2, OneNat DEF Base
<1>11. Holders(s)' = Base(s)' + Cardinality(Working(s)') + Cardinality(Touching(s)')
  BY DEF Holders, Base, Listed, Working, Touching
<1>12. /\ One(Uses(t, s)) \in Nat /\ One(Uses(t, s)') \in Nat
       /\ One(t \in Working(s)) \in Nat /\ One(t \in Working(s)') \in Nat
       /\ One(t \in Touching(s)) \in Nat /\ One(t \in Touching(s)') \in Nat
  BY OneNat
<1> QED BY <1>5, <1>6, <1>7, <1>8, <1>9, <1>10, <1>11, <1>12

LEMMA ListedStands ==
    ASSUME NEW t \in Threads, Others(t), NEW s \in Sessions,
           roster' = roster, pc[t] # "enter", pc'[t] # "enter"
    PROVE  Listed(s)' = Listed(s)
<1>1. ASSUME NEW w \in PoolWorkers
      PROVE  (own'[w] = s /\ pc'[w] = "enter") <=> (own[w] = s /\ pc[w] = "enter")
  BY ThreadKinds DEF Others
<1> QED BY <1>1 DEF Listed

\* A job that is queued has its hold, and so has the right it brings with it.
LEMMA EnqueueCounted ==
    ASSUME Typed, NEW x \in Sessions, NEW j \in Jobs, Enqueue(x, j, 1), NEW q \in Sessions,
           recv' = recv, send' = send, Listed(q)' = Listed(q)
    PROVE  Base(q)' \in Int /\ ioCount'[q] = ioCount[q] + (Base(q)' - Base(q))
<1>0. /\ Base(q) \in Nat /\ ioCount[q] \in Int /\ Len(todo[q]) \in Nat
      /\ Len(Append(todo[q], j)) = Len(todo[q]) + 1
  BY BaseNat, QueueOps DEF Typed
<1>1. /\ todo' = [todo EXCEPT ![x] = Append(todo[x], j)]
      /\ scheduled' = [scheduled EXCEPT ![x] = TRUE]
      /\ ioCount' = [ioCount EXCEPT ![x] = ioCount[x] + 1 + (IF scheduled[x] THEN 0 ELSE 1)]
  BY DEF Enqueue
<1>2. CASE q = x
  <2>1. todo'[q] = Append(todo[q], j) /\ scheduled'[q] = TRUE
    BY <1>1, <1>2 DEF Typed
  <2>2. ioCount'[q] = ioCount[q] + 1 + (IF scheduled[q] THEN 0 ELSE 1)
    BY <1>1, <1>2 DEF Typed
  <2>3. One(scheduled'[q]) - One(scheduled[q]) = (IF scheduled[q] THEN 0 ELSE 1)
    BY <2>1 DEF One
  <2>4. Base(q)' = Base(q) + 1 + (One(scheduled'[q]) - One(scheduled[q]))
    <3>1. /\ One(recv[q]) \in {0, 1} /\ One(send[q] = "posted") \in {0, 1}
          /\ One(Listed(q)) \in {0, 1} /\ One(scheduled[q]) \in {0, 1} /\ One(scheduled'[q]) \in {0, 1}
      BY OneNat
    <3>2. Len(todo'[q]) = Len(todo[q]) + 1
      BY <1>0, <2>1
    <3> DEFINE c == One(scheduled[q])
               d == One(scheduled'[q])
               r == One(recv[q]) + One(send[q] = "posted")
               l == One(Listed(q))
               n == Len(todo[q])
    <3>3. Base(q) = r + c + l + n /\ Base(q)' = r + d + l + Len(todo'[q])
      BY DEF Base
    <3>4. r \in Int /\ c \in Int /\ d \in Int /\ l \in Int /\ n \in Int /\ Len(todo'[q]) = n + 1
      BY <1>0, <3>1, <3>2
    <3> HIDE DEF c, d, r, l, n
    <3>5. Base(q)' = Base(q) + 1 + (d - c)
      BY <3>3, <3>4
    <3> QED BY <3>5 DEF c, d
  <2> QED BY <1>0, <2>2, <2>3, <2>4, OneNat
<1>3. CASE q # x
  <2>1. todo'[q] = todo[q] /\ scheduled'[q] = scheduled[q] /\ ioCount'[q] = ioCount[q]
    BY <1>1, <1>3 DEF Typed
  <2>2. Base(q)' = Base(q)
    BY <2>1 DEF Base
  <2> QED BY <1>0, <2>1, <2>2
<1> QED BY <1>2, <1>3

\* post_send by the owner of the right: a WSASend has its hold.
LEMMA SendCounted ==
    ASSUME Typed, NEW t \in Threads, at[t] \in Sessions, send[at[t]] # "posted",
           NEW yes, NEW no, PostSend(t, yes, no), NEW q \in Sessions,
           recv' = recv, scheduled' = scheduled, todo' = todo, Listed(q)' = Listed(q)
    PROVE  Base(q)' \in Int /\ ioCount'[q] = ioCount[q] + (Base(q)' - Base(q))
<1>0. Base(q) \in Nat /\ ioCount[q] \in Int /\ Len(todo[q]) \in Nat
  BY BaseNat, QueueOps DEF Typed
<1>1. ASSUME NEW d \in {0, 1}, One(send'[q] = "posted") = One(send[q] = "posted") + d,
             ioCount'[q] = ioCount[q] + d
      PROVE  Base(q)' \in Int /\ ioCount'[q] = ioCount[q] + (Base(q)' - Base(q))
  <2>1. Base(q)' = Base(q) + d
    BY <1>0, <1>1, OneNat DEF Base
  <2> QED BY <1>0, <1>1, <2>1
<1>2. CASE send' = [send EXCEPT ![at[t]] = "posted"] /\ Hold(at[t])
  <2>1. CASE q = at[t]
    <3>1. One(send'[q] = "posted") = One(send[q] = "posted") + 1
      BY <1>2, <2>1 DEF Typed, One
    <3>2. ioCount'[q] = ioCount[q] + 1
      BY <1>2, <2>1 DEF Typed, Hold
    <3> QED BY <1>1, <3>1, <3>2
  <2>2. CASE q # at[t]
    <3>1. One(send'[q] = "posted") = One(send[q] = "posted") + 0
      BY <1>2, <2>2 DEF Typed, One
    <3>2. ioCount'[q] = ioCount[q] + 0
      BY <1>0, <1>2, <2>2 DEF Typed, Hold
    <3> QED BY <1>1, <3>1, <3>2
  <2> QED BY <2>1, <2>2
<1>3. CASE send' = [send EXCEPT ![at[t]] = "idle"] /\ UNCHANGED ioCount
  <2>1. One(send'[q] = "posted") = One(send[q] = "posted") + 0
    BY <1>3 DEF Typed, One
  <2>2. ioCount'[q] = ioCount[q] + 0
    BY <1>0, <1>3
  <2> QED BY <1>1, <2>1, <2>2
<1> QED BY <1>2, <1>3 DEF PostSend

\* After release_io a thread has nothing more to do with the session it has released.
LEMMA ReleaseUses ==
    ASSUME Typed, NEW t \in Threads, AfterRelease(t), own' = own, at[t] \in Sessions,
           t \in PoolWorkers => PoolCtrl(t), pc[t] \in {"release", "remove"}, NEW q \in Sessions
    PROVE  /\ q = at[t] => ~Uses(t, q)'
           /\ q # at[t] => Uses(t, q)' = Uses(t, q)
<1>0. NoSession \notin Sessions
  BY ThreadKinds
<1>1. CASE t \notin PoolWorkers \/ own[t] = NoSession
  <2>1. at'[t] = NoSession /\ job' = job
    BY <1>1 DEF AfterRelease, GotoWith, Typed
  <2> QED BY <1>0, <1>1, <2>1 DEF Uses
<1>2. CASE t \in PoolWorkers /\ own[t] # NoSession /\ at[t] = own[t]
  <2>1. at'[t] = NoSession /\ job'[t] = "none"
    BY <1>2 DEF AfterRelease, GotoWith, Typed
  <2> QED BY <1>0, <1>2, <2>1 DEF Uses
<1>3. CASE t \in PoolWorkers /\ own[t] # NoSession /\ at[t] # own[t]
  <2>1. at'[t] = own[t] /\ job' = job /\ pc'[t] # "remove"
    BY <1>3 DEF AfterRelease, GotoWith, Typed
  <2> QED BY <1>0, <1>3, <2>1 DEF Uses
<1> QED BY <1>1, <1>2, <1>3

\* What a step adds to io_count is what it adds to the holders: steps that leave the
\* roster alone.
LEMMA CountStands ==
    ASSUME Typed, CtrlInv, RightInv, ReadInv, SendInv, FreshInv, NEW t \in Threads, ThreadStep(t),
           Others(t), NEW q \in Sessions, Listed(q)' = Listed(q), entered' = entered,
           roster' = roster, pc[t] # "enter", pc'[t] # "enter",
           \A w \in PoolWorkers :
              pc[w] = "release" /\ at[w] = own[w] => ioCount[at[w]] # 1
    PROVE  ioCount'[q] = ioCount[q] + Base(q)' - Base(q) + One(Uses(t, q)') - One(Uses(t, q))
<1> DEFINE Delta ==
      ioCount'[q] = ioCount[q] + Base(q)' - Base(q) + One(Uses(t, q)') - One(Uses(t, q))
<1>0. /\ Typed /\ Listed(q)' = Listed(q) /\ roster' = roster /\ entered' = entered
      /\ pc[t] # "enter" /\ pc'[t] # "enter"
      /\ t \in PoolWorkers => PoolCtrl(t)
      /\ t \in IoWorkers => IoCtrl(t)
      /\ t \in Closers => CloserCtrl(t)
      /\ t = Acceptor => AcceptCtrl
      /\ t \in IoWorkers \/ t \in PoolWorkers \/ t \in Closers \/ t = Acceptor
      /\ t \in IoWorkers => t \notin PoolWorkers /\ t \notin Closers /\ t # Acceptor
      /\ t \in PoolWorkers => t \notin Closers /\ t # Acceptor
      /\ t \in Closers => t # Acceptor
      /\ NoSession \notin Sessions
      /\ pc[t] \notin {"idle", "exit", "next"} => at[t] \in Sessions
      /\ Len(todo[q]) \in Nat /\ Base(q) \in Nat /\ ioCount[q] \in Int
  BY ThreadKinds, AtSession, QueueOps, BaseNat DEF CtrlInv, Typed
<1>a. ASSUME recv'[q] = recv[q], send'[q] = send[q], scheduled'[q] = scheduled[q], todo'[q] = todo[q]
      PROVE  Base(q)' = Base(q)
  BY <1>0, <1>a DEF Base
<1>b. ASSUME Base(q)' = Base(q), Uses(t, q)' = Uses(t, q), ioCount'[q] = ioCount[q] PROVE Delta
  BY <1>0, <1>b, OneNat
<1>c. ASSUME Base(q)' \in Int, ioCount'[q] = ioCount[q] + (Base(q)' - Base(q)) + 1,
             ~Uses(t, q), Uses(t, q)' PROVE Delta
  BY <1>0, <1>c DEF One
<1>d. ASSUME Base(q)' \in Int, ioCount'[q] = ioCount[q] + (Base(q)' - Base(q)),
             Uses(t, q)' = Uses(t, q) PROVE Delta
  <2>1. One(Uses(t, q)) \in {0, 1} /\ One(Uses(t, q)') = One(Uses(t, q))
    BY <1>d, OneNat
  <2> QED BY <1>0, <1>d, <2>1
<1>e. ASSUME Base(q)' = Base(q), ioCount'[q] = ioCount[q] - 1, Uses(t, q), ~Uses(t, q)'
      PROVE  Delta
  BY <1>0, <1>e DEF One
<1>1. ASSUME NEW s \in Sessions, t = Acceptor, Accept(s) PROVE Delta
  BY <1>0, <1>1 DEF Typed, Base, Uses, One, Accept, AddSession, GotoWith, queueVars
<1>2. ASSUME t \in IoWorkers \cup {Acceptor}, PostRecv(t) PROVE Delta
  <2>1. at[t] \in Sessions /\ ~recv[at[t]]
    BY <1>0, <1>2 DEF PostRecv, ReadInv
  <2>2. Uses(t, q)' = Uses(t, q)
    BY <1>0, <1>2, <2>1 DEF Typed, Uses, IoCtrl, AcceptCtrl, PostRecv, Goto, GotoWith
  <2>3. CASE q = at[t]
    <3>1. Base(q)' = Base(q) + 1
      BY <1>0, <1>2, <2>1, <2>3 DEF Typed, Base, One, PostRecv, queueVars
    <3>2. ioCount'[q] = ioCount[q] + 1
      BY <1>2, <2>1, <2>3 DEF Typed, PostRecv, Hold
    <3>3. Base(q)' \in Int /\ ioCount'[q] = ioCount[q] + (Base(q)' - Base(q))
      BY <1>0, <3>1, <3>2
    <3> QED BY <1>d, <2>2, <3>3
  <2>4. CASE q # at[t]
    <3>1. Base(q)' = Base(q)
      BY <1>0, <1>a, <1>2, <2>4 DEF Typed, PostRecv, queueVars
    <3>2. ioCount'[q] = ioCount[q]
      BY <1>2, <2>4 DEF Typed, PostRecv, Hold
    <3> QED BY <1>b, <2>2, <3>1, <3>2
  <2> QED BY <2>3, <2>4
<1>3. ASSUME t \in IoWorkers \cup {Acceptor}, PostRecvFails(t) PROVE Delta
  BY <1>0, <1>3 DEF Typed, Base, Uses, One, PostRecvFails, Goto, sessionVars, queueVars
<1>4. ASSUME NEW s \in Sessions, t \in IoWorkers, RecvFails(t, s) PROVE Delta
  <2>1. CASE q = s
    <3>1. Base(q)' = Base(q) + (-1)
      BY <1>0, <1>4, <2>1 DEF Typed, Base, One, RecvFails, queueVars
    <3>2. ~Uses(t, q) /\ Uses(t, q)'
      BY <1>0, <1>4, <2>1 DEF Typed, Uses, IoCtrl, RecvFails, GotoWith
    <3>3. ioCount'[q] = ioCount[q]
      BY <1>0, <1>4 DEF RecvFails
    <3>4. Base(q)' \in Int /\ ioCount'[q] = ioCount[q] + (Base(q)' - Base(q)) + 1
      BY <1>0, <3>1, <3>3
    <3> QED BY <1>c, <3>2, <3>4
  <2>2. CASE q # s
    <3>1. Base(q)' = Base(q)
      BY <1>0, <1>a, <1>4, <2>2 DEF Typed, RecvFails, queueVars
    <3>2. Uses(t, q)' = Uses(t, q)
      BY <1>0, <1>4, <2>2 DEF Typed, Uses, IoCtrl, RecvFails, GotoWith
    <3> QED BY <1>b, <1>4, <3>1, <3>2 DEF RecvFails
  <2> QED BY <2>1, <2>2
<1>5. ASSUME NEW s \in Sessions, t \in IoWorkers, RecvData(t, s) PROVE Delta
  <2>1. CASE q = s
    <3>1. Base(q)' = Base(q) + (-1)
      BY <1>0, <1>5, <2>1 DEF Typed, Base, One, RecvData, queueVars
    <3>2. ~Uses(t, q) /\ Uses(t, q)'
      BY <1>0, <1>5, <2>1 DEF Typed, Uses, IoCtrl, RecvData, GotoWith
    <3>3. ioCount'[q] = ioCount[q]
      BY <1>0, <1>5 DEF RecvData
    <3>4. Base(q)' \in Int /\ ioCount'[q] = ioCount[q] + (Base(q)' - Base(q)) + 1
      BY <1>0, <3>1, <3>3
    <3> QED BY <1>c, <3>2, <3>4
  <2>2. CASE q # s
    <3>1. Base(q)' = Base(q)
      BY <1>0, <1>a, <1>5, <2>2 DEF Typed, RecvData, queueVars
    <3>2. Uses(t, q)' = Uses(t, q)
      BY <1>0, <1>5, <2>2 DEF Typed, Uses, IoCtrl, RecvData, GotoWith
    <3> QED BY <1>b, <1>5, <3>1, <3>2 DEF RecvData
  <2> QED BY <2>1, <2>2
<1>6. ASSUME NEW s \in Sessions, t \in IoWorkers, SendFails(t, s) PROVE Delta
  <2>1. CASE q = s
    <3>1. Base(q)' = Base(q) + (-1)
      BY <1>0, <1>6, <2>1 DEF Typed, Base, One, SendFails, queueVars
    <3>2. ~Uses(t, q) /\ Uses(t, q)'
      BY <1>0, <1>6, <2>1 DEF Typed, Uses, IoCtrl, SendFails, GotoWith
    <3>3. ioCount'[q] = ioCount[q]
      BY <1>0, <1>6 DEF SendFails
    <3>4. Base(q)' \in Int /\ ioCount'[q] = ioCount[q] + (Base(q)' - Base(q)) + 1
      BY <1>0, <3>1, <3>3
    <3> QED BY <1>c, <3>2, <3>4
  <2>2. CASE q # s
    <3>1. Base(q)' = Base(q)
      BY <1>0, <1>a, <1>6, <2>2 DEF Typed, SendFails, queueVars
    <3>2. Uses(t, q)' = Uses(t, q)
      BY <1>0, <1>6, <2>2 DEF Typed, Uses, IoCtrl, SendFails, GotoWith
    <3> QED BY <1>b, <1>6, <3>1, <3>2 DEF SendFails
  <2> QED BY <2>1, <2>2
<1>7. ASSUME NEW s \in Sessions, t \in IoWorkers, SendDone(t, s) PROVE Delta
  <2>1. CASE q = s
    <3>1. Base(q)' = Base(q) + (-1)
      BY <1>0, <1>7, <2>1 DEF Typed, Base, One, SendDone, queueVars
    <3>2. ~Uses(t, q) /\ Uses(t, q)'
      BY <1>0, <1>7, <2>1 DEF Typed, Uses, IoCtrl, SendDone, GotoWith
    <3>3. ioCount'[q] = ioCount[q]
      BY <1>0, <1>7 DEF SendDone
    <3>4. Base(q)' \in Int /\ ioCount'[q] = ioCount[q] + (Base(q)' - Base(q)) + 1
      BY <1>0, <3>1, <3>3
    <3> QED BY <1>c, <3>2, <3>4
  <2>2. CASE q # s
    <3>1. Base(q)' = Base(q)
      BY <1>0, <1>a, <1>7, <2>2 DEF Typed, SendDone, queueVars
    <3>2. Uses(t, q)' = Uses(t, q)
      BY <1>0, <1>7, <2>2 DEF Typed, Uses, IoCtrl, SendDone, GotoWith
    <3> QED BY <1>b, <1>7, <3>1, <3>2 DEF SendDone
  <2> QED BY <2>1, <2>2
<1>8. ASSUME t \in IoWorkers, DrainFrame(t) PROVE Delta
  <2>1. at[t] \in Sessions /\ "frame" \in Jobs /\ recv' = recv /\ send' = send
    BY <1>0, <1>8 DEF DrainFrame, Jobs
  <2>2. Uses(t, q)' = Uses(t, q)
    BY <1>0, <1>8 DEF Typed, Uses, DrainFrame, Goto
  <2>3. CASE UNCHANGED <<ioCount, queueVars>>
    <3>1. Base(q)' = Base(q) /\ ioCount'[q] = ioCount[q]
      BY <1>a, <2>1, <2>3 DEF queueVars
    <3> QED BY <1>b, <2>2, <3>1
  <2>4. CASE Enqueue(at[t], "frame", 1)
    <3>1. Base(q)' \in Int /\ ioCount'[q] = ioCount[q] + (Base(q)' - Base(q))
      BY <1>0, <2>1, <2>4, EnqueueCounted
    <3> QED BY <1>d, <2>2, <3>1
  <2> QED BY <1>8, <2>3, <2>4 DEF DrainFrame
<1>9. ASSUME t \in IoWorkers, DrainEnds(t) PROVE Delta
  BY <1>0, <1>9 DEF Typed, Base, Uses, One, DrainEnds, Goto, sessionVars, queueVars
<1>10. ASSUME t \in IoWorkers, AfterSend(t) PROVE Delta
  <2>1. at[t] \in Sessions /\ recv' = recv /\ scheduled' = scheduled /\ todo' = todo
    BY <1>0, <1>10 DEF AfterSend, queueVars
  <2>2. at' = at /\ own' = own /\ job' = job /\ pc[t] # "remove"
    BY <1>10 DEF AfterSend
  <2>3. pc'[t] \in {"release", "close"}
    BY <1>0, <1>10 DEF Typed, AfterSend, PostSend, Goto
  <2>4. Uses(t, q)' = Uses(t, q)
    BY <2>2, <2>3 DEF Uses
  <2>5. CASE UNCHANGED <<send, ioCount>>
    <3>1. Base(q)' = Base(q) /\ ioCount'[q] = ioCount[q]
      BY <1>a, <2>1, <2>5
    <3> QED BY <1>b, <2>4, <3>1
  <2>6. CASE send[at[t]] # "posted" /\ PostSend(t, "release", "close")
    <3>1. Base(q)' \in Int /\ ioCount'[q] = ioCount[q] + (Base(q)' - Base(q))
      BY <1>0, <2>1, <2>6, SendCounted
    <3> QED BY <1>d, <2>4, <3>1
  <2> QED BY <1>0, <1>10, <2>5, <2>6 DEF AfterSend, SendInv
<1>11. ASSUME t \in IoWorkers, IoExit(t) PROVE Delta
  BY <1>0, <1>11 DEF Typed, Base, Uses, One, IoExit, Goto, sessionVars, queueVars
<1>12. ASSUME NEW s \in Sessions, t \in Closers, at[Acceptor] # s \/ roster[s] \/ entered[s],
              HeldToClose(t, s)
       PROVE  Delta
  <2>0. Base(q)' = Base(q)
    BY <1>a, <1>12 DEF HeldToClose, sessionVars, queueVars
  <2>1. CASE q = s
    <3>1. ~Uses(t, q) /\ Uses(t, q)'
      BY <1>0, <1>12, <2>1 DEF Typed, Uses, CloserCtrl, HeldToClose, GotoWith
    <3>2. ioCount'[q] = ioCount[q] + 1
      BY <1>0, <1>12, <2>1 DEF Typed, HeldToClose, Hold
    <3>3. Base(q)' \in Int /\ ioCount'[q] = ioCount[q] + (Base(q)' - Base(q)) + 1
      BY <1>0, <2>0, <3>2
    <3> QED BY <1>c, <3>1, <3>3
  <2>2. CASE q # s
    <3>1. Uses(t, q)' = Uses(t, q)
      BY <1>0, <1>12, <2>2 DEF Typed, Uses, CloserCtrl, HeldToClose, GotoWith
    <3>2. ioCount'[q] = ioCount[q]
      BY <1>12, <2>2 DEF Typed, HeldToClose, Hold
    <3> QED BY <1>b, <2>0, <3>1, <3>2
  <2> QED BY <2>1, <2>2
<1>13. ASSUME NEW s \in Sessions, t \in PoolWorkers, Take(t, s) PROVE Delta
  <2>1. Base(q)' = Base(q) /\ ioCount'[q] = ioCount[q]
    BY <1>a, <1>13 DEF Take, sessionVars, queueVars
  <2>2. Uses(t, q)' = Uses(t, q)
    BY <1>0, <1>13 DEF Typed, Uses, PoolCtrl, Take, Goto
  <2> QED BY <1>b, <2>1, <2>2
<1>14. ASSUME NEW s \in Sessions, t \in PoolWorkers, pc[t] \in {"frame", "tell"}, Found(t, s)
       PROVE  Delta
  <2>0. Base(q)' = Base(q)
    BY <1>a, <1>14 DEF Found, sessionVars, queueVars
  <2>1. CASE q = s
    <3>1. ~Uses(t, q) /\ Uses(t, q)'
      BY <1>0, <1>14, <2>1 DEF Typed, Uses, PoolCtrl, Found, GotoWith
    <3>2. ioCount'[q] = ioCount[q] + 1
      BY <1>0, <1>14, <2>1 DEF Typed, Found, Hold
    <3>3. Base(q)' \in Int /\ ioCount'[q] = ioCount[q] + (Base(q)' - Base(q)) + 1
      BY <1>0, <2>0, <3>2
    <3> QED BY <1>c, <3>1, <3>3
  <2>2. CASE q # s
    <3>1. Uses(t, q)' = Uses(t, q)
      BY <1>0, <1>14, <2>2 DEF Typed, Uses, PoolCtrl, Found, GotoWith
    <3>2. ioCount'[q] = ioCount[q]
      BY <1>14, <2>2 DEF Typed, Found, Hold
    <3> QED BY <1>b, <2>0, <3>1, <3>2
  <2> QED BY <2>1, <2>2
<1>15. ASSUME t \in PoolWorkers, BeginJob(t) PROVE Delta
  <2>1. own[t] \in Sessions /\ job[t] = "none" /\ at[t] = NoSession /\ pc[t] = "next"
        /\ todo[own[t]] # <<>>
    BY <1>0, <1>15 DEF Typed, BeginJob, PoolCtrl
  <2>2. /\ own' = own /\ recv' = recv /\ send' = send /\ scheduled' = scheduled
        /\ ioCount' = ioCount /\ todo' = [todo EXCEPT ![own[t]] = Tail(todo[own[t]])]
        /\ job'[t] = Head(todo[own[t]]) /\ at'[t] = own[t]
    BY <1>0, <1>15 DEF Typed, BeginJob, GotoWith, sessionVars
  <2>3. CASE q = own[t]
    <3>0. Head(todo[q]) \in Jobs /\ Len(Tail(todo[q])) = Len(todo[q]) - 1
      BY <1>0, <2>1, <2>3, QueueOps
    <3>1. Head(todo[q]) # "none" /\ Len(todo'[q]) = Len(todo[q]) - 1
      BY <1>0, <2>2, <2>3, <3>0 DEF Jobs, Typed
    <3>2. Base(q)' = Base(q) - 1
      <4>1. /\ One(recv[q]) \in {0, 1} /\ One(send[q] = "posted") \in {0, 1}
            /\ One(Listed(q)) \in {0, 1} /\ One(scheduled[q]) \in {0, 1}
        BY OneNat
      <4>2. Len(todo'[q]) = Len(todo[q]) - 1 /\ Len(todo[q]) \in Nat
        BY <1>0, <2>1, <2>3, <3>1, QueueOps
      <4>3. Listed(q)' = Listed(q)
        BY <1>15, <2>2 DEF Listed, BeginJob, sessionVars
      <4>4. One(Listed(q))' = One(Listed(q))
        BY <4>3
      <4> QED BY <2>2, <4>1, <4>2, <4>4 DEF Base
    <3>3. ~Uses(t, q) /\ Uses(t, q)'
      BY <1>15, <2>1, <2>2, <2>3, <3>1 DEF Uses
    <3>4. Base(q)' \in Int /\ ioCount'[q] = ioCount[q] + (Base(q)' - Base(q)) + 1
      BY <1>0, <2>2, <3>2
    <3> QED BY <1>c, <3>3, <3>4
  <2>4. CASE q # own[t]
    <3>1. Base(q)' = Base(q)
      BY <1>0, <1>a, <2>2, <2>4 DEF Typed
    <3>2. Uses(t, q)' = Uses(t, q)
      BY <1>0, <1>15, <2>1, <2>2, <2>4 DEF Uses
    <3> QED BY <1>b, <2>2, <3>1, <3>2
  <2> QED BY <2>3, <2>4
<1>16. ASSUME t \in PoolWorkers, EndRight(t) PROVE Delta
  <2>1. own[t] \in Sessions /\ job[t] = "none" /\ at[t] = NoSession /\ scheduled[own[t]]
    BY <1>0, <1>16 DEF Typed, EndRight, PoolCtrl, RightInv
  <2>2. /\ own'[t] = NoSession /\ recv' = recv /\ send' = send /\ todo' = todo
        /\ ioCount' = ioCount /\ scheduled' = [scheduled EXCEPT ![own[t]] = FALSE]
        /\ job' = job /\ at'[t] = own[t] /\ pc'[t] = "release"
    BY <1>0, <1>16 DEF Typed, EndRight, GotoWith, sessionVars
  <2>3. CASE q = own[t]
    <3>1. scheduled[q] /\ ~scheduled'[q]
      BY <1>0, <2>1, <2>2, <2>3 DEF Typed
    <3>2. Base(q)' = Base(q) - 1
      <4>1. One(scheduled[q]) = 1 /\ One(scheduled'[q]) = 0
        BY <3>1 DEF One
      <4>2. /\ One(recv[q]) \in {0, 1} /\ One(send[q] = "posted") \in {0, 1}
            /\ One(Listed(q)) \in {0, 1}
        BY OneNat
      <4> DEFINE r == One(recv[q]) + One(send[q] = "posted")
                 l == One(Listed(q))
                 n == Len(todo[q])
      <4>3. Base(q) = r + 1 + l + n /\ Base(q)' = r + 0 + l + n
        BY <1>0, <2>2, <4>1 DEF Base
      <4>4. r \in Int /\ l \in Int /\ n \in Int
        BY <1>0, <4>2
      <4> HIDE DEF r, l, n
      <4> QED BY <4>3, <4>4
    <3>3. ~Uses(t, q) /\ Uses(t, q)'
      BY <1>0, <1>16, <2>1, <2>2, <2>3 DEF Uses
    <3>4. Base(q)' \in Int /\ ioCount'[q] = ioCount[q] + (Base(q)' - Base(q)) + 1
      BY <1>0, <2>2, <3>2
    <3> QED BY <1>c, <3>3, <3>4
  <2>4. CASE q # own[t]
    <3>1. Base(q)' = Base(q)
      BY <1>0, <1>a, <2>2, <2>4 DEF Typed
    <3>2. Uses(t, q)' = Uses(t, q)
      BY <1>0, <1>16, <2>1, <2>2, <2>4 DEF Uses
    <3> QED BY <1>b, <2>2, <3>1, <3>2
  <2> QED BY <2>3, <2>4
<1>17. ASSUME t \in PoolWorkers, PoolExit(t) PROVE Delta
  BY <1>0, <1>17 DEF Typed, Base, Uses, One, PoolExit, Goto, sessionVars, queueVars
<1>18. ASSUME t \in PoolWorkers, HandleFrame(t) PROVE Delta
  <2>1. Base(q)' = Base(q) /\ ioCount'[q] = ioCount[q]
    BY <1>a, <1>18 DEF HandleFrame, sessionVars, queueVars
  <2>2. pc[t] # "remove" /\ pc'[t] # "remove" /\ at' = at /\ own' = own /\ job' = job
    BY <1>0, <1>18 DEF Typed, HandleFrame, Goto
  <2>3. Uses(t, q)' = Uses(t, q)
    BY <2>2 DEF Uses
  <2> QED BY <1>b, <2>1, <2>3
<1>19. ASSUME t \in PoolWorkers, Enter(t) PROVE Delta
  BY <1>0, <1>19 DEF Typed, Base, Uses, One, Enter, Goto, queueVars
<1>2a. ASSUME t \in PoolWorkers, EnterHold(t) PROVE Delta
  BY <1>0, <1>2a DEF Typed, Base, Uses, One, EnterHold, Goto, Hold, queueVars
<1>21. ASSUME t \in PoolWorkers, EnterCheck(t) PROVE Delta
  BY <1>0, <1>21 DEF Typed, Base, Uses, One, EnterCheck, LeaveRoster, Goto, queueVars
<1>22. ASSUME t \in PoolWorkers, Reply(t) PROVE Delta
  <2>1. at[t] \in Sessions /\ recv' = recv /\ scheduled' = scheduled /\ todo' = todo
    BY <1>0, <1>22 DEF Reply, queueVars
  <2>2. at' = at /\ own' = own /\ job' = job /\ pc[t] # "remove"
    BY <1>22 DEF Reply
  <2>3. pc'[t] \in {"finish", "close"}
    BY <1>0, <1>22 DEF Typed, Reply, PostSend, Goto
  <2>4. Uses(t, q)' = Uses(t, q)
    BY <2>2, <2>3 DEF Uses
  <2>5. CASE UNCHANGED <<send, ioCount>>
    <3>1. Base(q)' = Base(q) /\ ioCount'[q] = ioCount[q]
      BY <1>a, <2>1, <2>5
    <3> QED BY <1>b, <2>4, <3>1
  <2>6. CASE send[at[t]] # "posted" /\ PostSend(t, "finish", "close")
    <3>1. Base(q)' \in Int /\ ioCount'[q] = ioCount[q] + (Base(q)' - Base(q))
      BY <1>0, <2>1, <2>6, SendCounted
    <3> QED BY <1>d, <2>4, <3>1
  <2> QED BY <1>0, <1>22, <2>5, <2>6 DEF Reply, PoolCtrl
<1>23. ASSUME t \in PoolWorkers, SendPeer(t) PROVE Delta
  <2>1. at[t] \in Sessions /\ recv' = recv /\ scheduled' = scheduled /\ todo' = todo
    BY <1>0, <1>23 DEF SendPeer, queueVars
  <2>2. at' = at /\ own' = own /\ job' = job /\ pc[t] # "remove"
    BY <1>23 DEF SendPeer
  <2>3. pc'[t] \in {"release", "close"}
    BY <1>0, <1>23 DEF Typed, SendPeer, PostSend, Goto
  <2>4. Uses(t, q)' = Uses(t, q)
    BY <2>2, <2>3 DEF Uses
  <2>5. CASE UNCHANGED <<send, ioCount>>
    <3>1. Base(q)' = Base(q) /\ ioCount'[q] = ioCount[q]
      BY <1>a, <2>1, <2>5
    <3> QED BY <1>b, <2>4, <3>1
  <2>6. CASE send[at[t]] # "posted" /\ PostSend(t, "release", "release")
    <3>1. Base(q)' \in Int /\ ioCount'[q] = ioCount[q] + (Base(q)' - Base(q))
      BY <1>0, <2>1, <2>6, SendCounted
    <3> QED BY <1>d, <2>4, <3>1
  <2> QED BY <1>0, <1>23, <2>5, <2>6 DEF SendPeer
<1>24. ASSUME t \in PoolWorkers, FinishFrame(t) PROVE Delta
  BY <1>0, <1>24 DEF Typed, Base, Uses, One, FinishFrame, Goto, sessionVars, queueVars
<1>25. ASSUME t \in PoolWorkers, Cleanup(t) PROVE Delta
  BY <1>0, <1>25 DEF Typed, Base, Uses, One, Cleanup, LeaveRoster, Goto, queueVars
<1>26. ASSUME t \in PoolWorkers, CleanupDone(t) PROVE Delta
  BY <1>0, <1>26 DEF Typed, Base, Uses, One, CleanupDone, Goto, sessionVars, queueVars
<1>27. ASSUME MarkClosing(t) PROVE Delta
  BY <1>0, <1>27 DEF Typed, Base, Uses, One, MarkClosing, AfterClose, Goto, queueVars
<1>28. ASSUME HandOff(t) PROVE Delta
  <2>1. at[t] \in Sessions /\ "gone" \in Jobs /\ recv' = recv /\ send' = send
    BY <1>0, <1>28 DEF HandOff, sessionVars, Jobs
  <2>2. pc[t] = "handoff" /\ at' = at /\ own' = own /\ job' = job
        /\ (t # Acceptor => pc'[t] # "remove")
    BY <1>0, <1>28 DEF Typed, HandOff, Goto, AfterClose
  <2>3. Uses(t, q)' = Uses(t, q)
    BY <2>2 DEF Uses
  <2>4. CASE UNCHANGED <<ioCount, queueVars>>
    <3>1. Base(q)' = Base(q) /\ ioCount'[q] = ioCount[q]
      BY <1>a, <2>1, <2>4 DEF queueVars
    <3> QED BY <1>b, <2>3, <3>1
  <2>5. CASE Enqueue(at[t], "gone", 1)
    <3>1. Base(q)' \in Int /\ ioCount'[q] = ioCount[q] + (Base(q)' - Base(q))
      BY <1>0, <2>1, <2>5, EnqueueCounted
    <3> QED BY <1>d, <2>3, <3>1
  <2> QED BY <1>28, <2>4, <2>5 DEF HandOff
<1>29. ASSUME ReleaseIo(t) PROVE Delta
  <2>0. at[t] \in Sessions /\ t # Acceptor /\ Base(q)' = Base(q)
    BY <1>0, <1>a, <1>29 DEF ReleaseIo, AcceptCtrl, sessionVars, queueVars
  <2>1. own' = own /\ pc[t] = "release" /\ ioCount' = [ioCount EXCEPT ![at[t]] = ioCount[at[t]] - 1]
    BY <1>29 DEF ReleaseIo, Drop
  <2>2. CASE ioCount[at[t]] = 1
    <3>1. pc'[t] = "remove" /\ at' = at /\ job' = job
      BY <1>0, <1>29, <2>2 DEF Typed, ReleaseIo, Goto
    <3>2. t \in PoolWorkers => at[t] # own[t]
      BY <2>1, <2>2
    <3>3. CASE q = at[t]
      <4>1. Uses(t, q) /\ ~Uses(t, q)'
        BY <2>0, <2>1, <3>1, <3>2, <3>3 DEF Uses
      <4>2. ioCount'[q] = ioCount[q] - 1
        BY <2>0, <2>1, <3>3 DEF Typed
      <4> QED BY <1>e, <2>0, <4>1, <4>2
    <3>4. CASE q # at[t]
      <4>1. Uses(t, q)' = Uses(t, q)
        BY <2>0, <2>1, <3>1, <3>2, <3>4 DEF Uses
      <4>2. ioCount'[q] = ioCount[q]
        BY <2>0, <2>1, <3>4 DEF Typed
      <4> QED BY <1>b, <2>0, <4>1, <4>2
    <3> QED BY <3>3, <3>4
  <2>3. CASE ioCount[at[t]] # 1
    <3>0. AfterRelease(t)
      BY <1>29, <2>3 DEF ReleaseIo
    <3>3. CASE q = at[t]
      <4>1. Uses(t, q)
        BY <1>0, <2>0, <2>1, <3>3 DEF Uses, PoolCtrl
      <4>2. ~Uses(t, q)'
        BY <1>0, <2>0, <2>1, <3>0, <3>3, ReleaseUses
      <4>3. ioCount'[q] = ioCount[q] - 1
        BY <2>0, <2>1, <3>3 DEF Typed
      <4> QED BY <1>e, <2>0, <4>1, <4>2, <4>3
    <3>4. CASE q # at[t]
      <4>1. Uses(t, q)' = Uses(t, q)
        BY <1>0, <2>0, <2>1, <3>0, <3>4, ReleaseUses
      <4>2. ioCount'[q] = ioCount[q]
        BY <2>0, <2>1, <3>4 DEF Typed
      <4> QED BY <1>b, <2>0, <4>1, <4>2
    <3> QED BY <3>3, <3>4
  <2> QED BY <2>2, <2>3
<1>30. ASSUME TryRemove(t) PROVE Delta
  <2>1. at[t] \in Sessions /\ Base(q)' = Base(q) /\ ioCount'[q] = ioCount[q] /\ own' = own
        /\ AfterRelease(t) /\ pc[t] = "remove"
    BY <1>0, <1>a, <1>30 DEF TryRemove, queueVars
  <2>2. Uses(t, q)' = Uses(t, q)
    <3>1. q # at[t] => Uses(t, q)' = Uses(t, q)
      BY <1>0, <2>1, ReleaseUses
    <3>2. ASSUME q = at[t] PROVE ~Uses(t, q) /\ ~Uses(t, q)'
      BY <1>0, <2>1, <3>2, ReleaseUses DEF Uses, PoolCtrl
    <3> QED BY <3>1, <3>2 DEF Uses
  <2> QED BY <1>b, <2>1, <2>2
<1> QED
  BY <1>1, <1>2, <1>3, <1>4, <1>5, <1>6, <1>7, <1>8, <1>9, <1>10, <1>11, <1>12, <1>13,
     <1>14, <1>15, <1>16, <1>17, <1>18, <1>19, <1>2a, <1>21, <1>22, <1>23, <1>24,
     <1>25, <1>26, <1>27, <1>28, <1>29, <1>30
     DEF ThreadStep, Completion, PoolStep, CloseStep, CloseIdle, CloseById, Chat, TellZone

\* The roster's share, when the rest of the holders that are no threads stands.
LEMMA BaseListed ==
    ASSUME Typed, NEW q \in Sessions,
           recv' = recv, send' = send, scheduled' = scheduled, todo' = todo
    PROVE  Base(q)' \in Int /\ Base(q)' - Base(q) = One(Listed(q)') - One(Listed(q))
<1> DEFINE r == One(recv[q]) + One(send[q] = "posted") + One(scheduled[q])
           n == Len(todo[q])
           l == One(Listed(q))
           m == One(Listed(q)')
<1>1. Base(q) = r + l + n /\ Base(q)' = r + m + n
  BY DEF Base
<1>2. r \in Int /\ n \in Int /\ l \in Int /\ m \in Int
  <2>1. /\ One(recv[q]) \in {0, 1} /\ One(send[q] = "posted") \in {0, 1} /\ One(scheduled[q]) \in {0, 1}
        /\ l \in {0, 1} /\ m \in {0, 1}
    BY OneNat
  <2> QED BY <2>1, QueueOps
<1> HIDE DEF r, n, l, m
<1>3. Base(q)' \in Int /\ Base(q)' - Base(q) = m - l
  BY <1>1, <1>2
<1> QED BY <1>3 DEF l, m

\* What a step adds to io_count is what it adds to the holders: entering and leaving.
LEMMA CountRoster ==
    ASSUME Typed, CtrlInv, RightInv, EnterInv, NEW t \in PoolWorkers, Others(t), NEW q \in Sessions,
           Enter(t) \/ EnterHold(t) \/ EnterCheck(t) \/ Cleanup(t)
    PROVE  ioCount'[q] = ioCount[q] + Base(q)' - Base(q) + One(Uses(t, q)') - One(Uses(t, q))
<1>0. /\ t \in Threads /\ PoolWorkers \subseteq Threads /\ PoolCtrl(t) /\ NoSession \notin Sessions
      /\ ioCount[q] \in Int /\ Base(q) \in Nat
  BY ThreadKinds, BaseNat DEF CtrlInv, Typed
<1>1. /\ recv' = recv /\ send' = send /\ scheduled' = scheduled /\ todo' = todo
      /\ at' = at /\ own' = own /\ job' = job
  BY DEF Enter, EnterHold, EnterCheck, Cleanup, queueVars
<1>2. pc[t] \in {"frame", "enter", "check", "gone"} /\ pc'[t] \in {"enter", "check", "reply", "tell"}
  BY <1>0 DEF Enter, EnterHold, EnterCheck, Cleanup, Goto, Typed
<1>3. Uses(t, q)' = Uses(t, q)
  BY <1>1, <1>2 DEF Uses
<1>4. own[t] \in Sessions
  BY <1>0, <1>2 DEF PoolCtrl, Typed
<1>5. ASSUME NEW d \in Int, One(Listed(q)') - One(Listed(q)) = d, ioCount'[q] = ioCount[q] + d
      PROVE  ioCount'[q] = ioCount[q] + Base(q)' - Base(q) + One(Uses(t, q)') - One(Uses(t, q))
  <2>1. Base(q)' \in Int /\ Base(q)' - Base(q) = d
    BY <1>1, <1>5, BaseListed
  <2>2. One(Uses(t, q)') = One(Uses(t, q)) /\ One(Uses(t, q)) \in {0, 1}
    BY <1>3, OneNat
  <2> QED BY <1>0, <1>5, <2>1, <2>2
<1>6. ASSUME NEW w \in PoolWorkers, w # t
      PROVE  pc'[w] = pc[w] /\ own[w] # own[t]
  BY <1>0, <1>4, <1>6 DEF Others, RightInv
<1>7. \/ roster' = roster
      \/ roster' = [roster EXCEPT ![own[t]] = TRUE]
      \/ roster' = [roster EXCEPT ![own[t]] = FALSE]
  BY DEF Enter, EnterHold, EnterCheck, Cleanup, LeaveRoster
<1>8. CASE q # own[t]
  <2>1. roster'[q] = roster[q]
    BY <1>4, <1>7, <1>8 DEF Typed
  <2>2. ASSUME NEW w \in PoolWorkers
        PROVE  (own'[w] = q /\ pc'[w] = "enter") <=> (own[w] = q /\ pc[w] = "enter")
    BY <1>1, <1>6, <1>8
  <2>3. Listed(q)' = Listed(q)
    BY <2>1, <2>2 DEF Listed
  <2>4. ioCount'[q] = ioCount[q] + 0
    BY <1>0, <1>4, <1>8 DEF Enter, EnterHold, EnterCheck, Cleanup, LeaveRoster, Hold, Typed
  <2>5. One(Listed(q)') - One(Listed(q)) = 0
    BY <2>3, OneNat
  <2> QED BY <1>5, <2>4, <2>5
<1>9. CASE q = own[t]
  <2>1. /\ Listed(q) <=> roster[q] /\ pc[t] # "enter"
        /\ Listed(q)' <=> roster'[q] /\ pc'[t] # "enter"
    BY <1>1, <1>6, <1>9 DEF Listed
  <2>2. ASSUME Enter(t)
        PROVE  ioCount'[q] = ioCount[q] + Base(q)' - Base(q) + One(Uses(t, q)') - One(Uses(t, q))
    <3>1. pc[t] = "frame" /\ pc'[t] = "enter" /\ ~entered[q] /\ ioCount'[q] = ioCount[q] + 0
      BY <1>0, <1>9, <2>2 DEF Enter, Goto, Typed
    <3>2. ~roster[q]
      BY <1>6, <1>9, <3>1 DEF EnterInv
    <3>3. One(Listed(q)') - One(Listed(q)) = 0
      BY <2>1, <3>1, <3>2 DEF One
    <3> QED BY <1>5, <3>1, <3>3
  <2>3. ASSUME EnterHold(t)
        PROVE  ioCount'[q] = ioCount[q] + Base(q)' - Base(q) + One(Uses(t, q)') - One(Uses(t, q))
    <3>1. /\ pc[t] = "enter" /\ pc'[t] = "check" /\ roster' = roster
          /\ ioCount'[q] = ioCount[q] + 1
      BY <1>0, <1>4, <1>9, <2>3 DEF EnterHold, Hold, Goto, Typed
    <3>2. roster[q]
      BY <1>9, <3>1 DEF EnterInv
    <3>3. One(Listed(q)') - One(Listed(q)) = 1
      BY <2>1, <3>1, <3>2 DEF One
    <3> QED BY <1>5, <3>1, <3>3
  <2>4. ASSUME EnterCheck(t) \/ Cleanup(t)
        PROVE  ioCount'[q] = ioCount[q] + Base(q)' - Base(q) + One(Uses(t, q)') - One(Uses(t, q))
    <3>1. pc[t] # "enter" /\ pc'[t] # "enter"
      BY <1>0, <2>4 DEF EnterCheck, Cleanup, Goto, Typed
    <3>2. (roster' = roster /\ ioCount' = ioCount) \/ LeaveRoster(q)
      BY <1>9, <2>4 DEF EnterCheck, Cleanup
    <3>3. CASE roster' = roster /\ ioCount' = ioCount
      <4>1. One(Listed(q)') - One(Listed(q)) = 0
        <5>1. Listed(q)' = Listed(q)
          BY <2>1, <3>1, <3>3 DEF Listed
        <5> QED BY <5>1, OneNat
      <4> QED BY <1>0, <1>5, <3>3, <4>1
    <3>4. CASE LeaveRoster(q) /\ roster[q]
      <4>1. ~roster'[q] /\ ioCount'[q] = ioCount[q] + (-1)
        BY <1>0, <3>4 DEF LeaveRoster, Typed
      <4>2. One(Listed(q)') - One(Listed(q)) = -1
        BY <2>1, <3>1, <3>4, <4>1 DEF One
      <4> QED BY <1>5, <4>1, <4>2
    <3>5. CASE LeaveRoster(q) /\ ~roster[q]
      <4>1. ~roster'[q] /\ ioCount'[q] = ioCount[q] + 0
        BY <1>0, <3>5 DEF LeaveRoster, Typed
      <4>2. One(Listed(q)') - One(Listed(q)) = 0
        BY <2>1, <3>5, <4>1 DEF One
      <4> QED BY <1>5, <4>1, <4>2
    <3> QED BY <3>2, <3>3, <3>4, <3>5
  <2> QED BY <2>2, <2>3, <2>4
<1> QED BY <1>8, <1>9

\* Where a pool worker releases its own session, its right still holds it: the count
\* cannot be 1, and it is not this thread that looks for the session to delete it.
LEMMA NotLast ==
    ASSUME Typed, CtrlInv, RightInv, Counted, NEW w \in PoolWorkers,
           pc[w] = "release", at[w] = own[w]
    PROVE  ioCount[at[w]] # 1
<1> DEFINE s == own[w]
<1>1. s \in Sessions /\ job[w] # "none" /\ scheduled[s]
  BY AtSession, ThreadKinds, ZenonT(60) DEF CtrlInv, PoolCtrl, RightInv, Typed
<1>2. Cardinality(Working(s)) \in Nat /\ Cardinality(Working(s)) # 0
  <2>1. IsFiniteSet(Working(s)) /\ w \in Working(s)
    BY <1>1, HoldersFinite DEF Working
  <2> QED BY <2>1, FS_CardinalityType, FS_EmptySet
<1>3. Cardinality(Touching(s)) \in Nat
  BY <1>1, HoldersFinite, FS_CardinalityType
<1>4. Base(s) \in Nat \ {0}
  <2>1. One(scheduled[s]) = 1 /\ Len(todo[s]) \in Nat
    BY <1>1, QueueOps DEF One
  <2>2. One(recv[s]) \in {0, 1} /\ One(send[s] = "posted") \in {0, 1} /\ One(Listed(s)) \in {0, 1}
    BY OneNat
  <2> HIDE DEF s
  <2> QED BY <2>1, <2>2, SMTT(60) DEF Base
<1>5. ioCount[s] = Base(s) + Cardinality(Working(s)) + Cardinality(Touching(s))
  BY <1>1, HoldersFinite DEF Counted
<1> HIDE DEF s
<1>6. ioCount[s] # 1
  BY <1>2, <1>3, <1>4, <1>5
<1> QED BY <1>6 DEF s

LEMMA CountStep ==
    ASSUME Typed, Typed', CtrlInv, RightInv, EnterInv, ReadInv, SendInv, FreshInv, Counted,
           NEW t \in Threads, ThreadStep(t)
    PROVE  Counted'
<1>1. Others(t)
  BY Alone
<1>2. \A w \in PoolWorkers : pc[w] = "release" /\ at[w] = own[w] => ioCount[at[w]] # 1
  BY NotLast
<1>3. ASSUME NEW q \in Sessions
      PROVE  ioCount'[q] = ioCount[q] + Base(q)' - Base(q) + One(Uses(t, q)') - One(Uses(t, q))
  <2>1. CASE roster' = roster /\ entered' = entered /\ pc[t] # "enter" /\ pc'[t] # "enter"
    <3>1. Listed(q)' = Listed(q)
      BY <1>1, <2>1, ListedStands
    <3> QED BY <1>1, <1>2, <2>1, <3>1, CountStands
  <2>2. CASE t \in PoolWorkers /\ (Enter(t) \/ EnterHold(t) \/ EnterCheck(t) \/ Cleanup(t))
    BY <1>1, <2>2, CountRoster
  <2> QED BY <2>1, <2>2, RosterStands
<1> QED BY <1>1, <1>3, CountedLocal DEF Counted

-----------------------------------------------------------------------------
(* What is freed is held by nobody *)

\* From the moment stop() has closed the sockets the accept thread is gone; until the
\* sessions are cleared, one that has been freed has no holds, and the one the accept
\* thread is working on has not been freed.
LiveInv ==
    /\ phase \in {"closed", "ioGone", "cleared"} => pc[Acceptor] = "idle"
    /\ phase # "cleared" =>
          /\ \A s \in Sessions : life[s] = "freed" => ioCount[s] = 0
          /\ pc[Acceptor] \in {"post", "close", "handoff"} => life[at[Acceptor]] = "mapped"

\* No holder of s is left.
Unheld(s) ==
    /\ ~recv[s] /\ send[s] # "posted" /\ ~scheduled[s] /\ todo[s] = <<>> /\ ~roster[s]
    /\ \A t \in Threads : t # Acceptor /\ at[t] = s => pc[t] = "remove"
    /\ \A w \in PoolWorkers : own[w] # s

\* io_count at 0 means that nobody holds the session.
LEMMA ZeroUnheld ==
    ASSUME Typed, CtrlInv, RightInv, Counted, NEW s \in Sessions, ioCount[s] = 0
    PROVE  Unheld(s)
<1>0. /\ One(recv[s]) \in {0, 1} /\ One(send[s] = "posted") \in {0, 1} /\ One(Listed(s)) \in {0, 1}
      /\ One(scheduled[s]) \in {0, 1} /\ Len(todo[s]) \in Nat
  BY OneNat, QueueOps
<1>1. /\ IsFiniteSet(Working(s)) /\ IsFiniteSet(Touching(s))
      /\ Cardinality(Working(s)) \in Nat /\ Cardinality(Touching(s)) \in Nat
      /\ 0 = Base(s) + Cardinality(Working(s)) + Cardinality(Touching(s))
  BY HoldersFinite, FS_CardinalityType DEF Counted
<1>2. /\ Base(s) = 0 /\ Cardinality(Working(s)) = 0 /\ Cardinality(Touching(s)) = 0
  BY <1>1, BaseNat
<1>3. Working(s) = {} /\ Touching(s) = {}
  BY <1>1, <1>2, FS_EmptySet
<1>4. /\ One(recv[s]) = 0 /\ One(send[s] = "posted") = 0 /\ One(Listed(s)) = 0
      /\ One(scheduled[s]) = 0 /\ Len(todo[s]) = 0
  BY <1>0, <1>2 DEF Base
<1>5. ~recv[s] /\ send[s] # "posted" /\ ~Listed(s) /\ ~scheduled[s]
  BY <1>4 DEF One
<1>6. todo[s] = <<>>
  BY <1>4, EmptySeq DEF Typed
<1>7. ASSUME NEW w \in PoolWorkers PROVE own[w] # s
  BY <1>5, ThreadKinds DEF RightInv
<1>8. ~roster[s]
  BY <1>5, <1>7 DEF Listed
<1>9. ASSUME NEW t \in Threads, t # Acceptor, at[t] = s PROVE pc[t] = "remove"
  BY <1>3, <1>7, <1>9 DEF Touching
<1> QED BY <1>5, <1>6, <1>7, <1>8, <1>9 DEF Unheld

\* Nobody takes a hold of a session that nobody holds and that cannot be found any more.
LEMMA Untouched ==
    ASSUME Typed, CtrlInv, NEW t \in Threads, ThreadStep(t), NEW q \in Sessions,
           Unheld(q), life[q] = "freed", at[Acceptor] = q => pc[Acceptor] = "remove"
    PROVE  ioCount'[q] = ioCount[q]
<1> DEFINE Stand == ioCount'[q] = ioCount[q]
<1>0. /\ Typed
      /\ t \in PoolWorkers => PoolCtrl(t) /\ own[t] # q
      /\ NoSession \notin Sessions
      /\ ~recv[q] /\ send[q] # "posted" /\ ~roster[q]
      /\ at[t] = q => pc[t] = "remove"
      /\ pc[t] \notin {"idle", "exit", "next"} => at[t] \in Sessions
      /\ life[q] = "freed"
  BY ThreadKinds, AtSession DEF CtrlInv, Unheld
<1>1. ASSUME NEW s \in Sessions, t = Acceptor, Accept(s) PROVE Stand
  BY <1>0, <1>1 DEF Typed, Accept
<1>2. ASSUME t \in IoWorkers \cup {Acceptor}, PostRecv(t) PROVE Stand
  BY <1>0, <1>2 DEF Typed, PostRecv, Hold
<1>3. ASSUME t \in IoWorkers \cup {Acceptor}, PostRecvFails(t) PROVE Stand
  BY <1>0, <1>3 DEF Typed, PostRecvFails
<1>4. ASSUME NEW s \in Sessions, t \in IoWorkers, RecvFails(t, s) PROVE Stand
  BY <1>0, <1>4 DEF Typed, RecvFails
<1>5. ASSUME NEW s \in Sessions, t \in IoWorkers, RecvData(t, s) PROVE Stand
  BY <1>0, <1>5 DEF Typed, RecvData
<1>6. ASSUME NEW s \in Sessions, t \in IoWorkers, SendFails(t, s) PROVE Stand
  BY <1>0, <1>6 DEF Typed, SendFails
<1>7. ASSUME NEW s \in Sessions, t \in IoWorkers, SendDone(t, s) PROVE Stand
  BY <1>0, <1>7 DEF Typed, SendDone
<1>8. ASSUME t \in IoWorkers, DrainFrame(t) PROVE Stand
  BY <1>0, <1>8 DEF Typed, DrainFrame, Enqueue
<1>9. ASSUME t \in IoWorkers, DrainEnds(t) PROVE Stand
  BY <1>0, <1>9 DEF Typed, DrainEnds
<1>10. ASSUME t \in IoWorkers, AfterSend(t) PROVE Stand
  BY <1>0, <1>10 DEF Typed, AfterSend, PostSend, Hold
<1>11. ASSUME t \in IoWorkers, IoExit(t) PROVE Stand
  BY <1>0, <1>11 DEF Typed, IoExit
<1>12. ASSUME NEW s \in Sessions, t \in Closers, at[Acceptor] # s \/ roster[s] \/ entered[s],
              HeldToClose(t, s)
       PROVE  Stand
  BY <1>0, <1>12 DEF Typed, HeldToClose, Hold
<1>13. ASSUME NEW s \in Sessions, t \in PoolWorkers, Take(t, s) PROVE Stand
  BY <1>0, <1>13 DEF Typed, Take
<1>14. ASSUME NEW s \in Sessions, t \in PoolWorkers, pc[t] \in {"frame", "tell"}, Found(t, s)
       PROVE  Stand
  BY <1>0, <1>14 DEF Typed, Found, Hold
<1>15. ASSUME t \in PoolWorkers, BeginJob(t) PROVE Stand
  BY <1>0, <1>15 DEF Typed, BeginJob
<1>16. ASSUME t \in PoolWorkers, EndRight(t) PROVE Stand
  BY <1>0, <1>16 DEF Typed, EndRight
<1>17. ASSUME t \in PoolWorkers, PoolExit(t) PROVE Stand
  BY <1>0, <1>17 DEF Typed, PoolExit
<1>18. ASSUME t \in PoolWorkers, HandleFrame(t) PROVE Stand
  BY <1>0, <1>18 DEF Typed, HandleFrame
<1>19. ASSUME t \in PoolWorkers, Enter(t) PROVE Stand
  BY <1>0, <1>19 DEF Typed, Enter
<1>2a. ASSUME t \in PoolWorkers, EnterHold(t) PROVE Stand
  BY <1>0, <1>2a DEF Typed, EnterHold, Hold, PoolCtrl
<1>21. ASSUME t \in PoolWorkers, EnterCheck(t) PROVE Stand
  BY <1>0, <1>21 DEF Typed, EnterCheck, LeaveRoster, PoolCtrl
<1>22. ASSUME t \in PoolWorkers, Reply(t) PROVE Stand
  BY <1>0, <1>22 DEF Typed, Reply, PostSend, Hold, PoolCtrl
<1>23. ASSUME t \in PoolWorkers, SendPeer(t) PROVE Stand
  BY <1>0, <1>23 DEF Typed, SendPeer, PostSend, Hold
<1>24. ASSUME t \in PoolWorkers, FinishFrame(t) PROVE Stand
  BY <1>0, <1>24 DEF Typed, FinishFrame
<1>25. ASSUME t \in PoolWorkers, Cleanup(t) PROVE Stand
  BY <1>0, <1>25 DEF Typed, Cleanup, LeaveRoster, PoolCtrl
<1>26. ASSUME t \in PoolWorkers, CleanupDone(t) PROVE Stand
  BY <1>0, <1>26 DEF Typed, CleanupDone
<1>27. ASSUME MarkClosing(t) PROVE Stand
  BY <1>0, <1>27 DEF Typed, MarkClosing
<1>28. ASSUME HandOff(t) PROVE Stand
  BY <1>0, <1>28 DEF Typed, HandOff, Enqueue
<1>29. ASSUME ReleaseIo(t) PROVE Stand
  BY <1>0, <1>29 DEF Typed, ReleaseIo, Drop
<1>30. ASSUME TryRemove(t) PROVE Stand
  BY <1>0, <1>30 DEF Typed, TryRemove
<1> QED
  BY <1>1, <1>2, <1>3, <1>4, <1>5, <1>6, <1>7, <1>8, <1>9, <1>10, <1>11, <1>12, <1>13,
     <1>14, <1>15, <1>16, <1>17, <1>18, <1>19, <1>2a, <1>21, <1>22, <1>23, <1>24,
     <1>25, <1>26, <1>27, <1>28, <1>29, <1>30
     DEF ThreadStep, Completion, PoolStep, CloseStep, CloseIdle, CloseById, Chat, TellZone

LEMMA LiveStep ==
    ASSUME Typed, CtrlInv, RightInv, FreshInv, Counted, LiveInv, NEW t \in Threads, ThreadStep(t)
    PROVE  LiveInv'
<1>0. /\ Others(t) /\ phase' = phase /\ Acceptor \in Threads /\ NoSession \notin Sessions /\ AcceptCtrl
      /\ life \in [Sessions -> {"absent", "mapped", "freed"}]
      /\ ioCount \in [Sessions -> Int]
      /\ pc \in [Threads -> Labels] /\ at \in [Threads -> Sessions \cup {NoSession}]
  BY Alone, LifeStands, ThreadKinds DEF CtrlInv, Typed, Labels
<1>1. ASSUME phase \in {"closed", "ioGone", "cleared"} PROVE pc'[Acceptor] = "idle"
  <2>1. pc[Acceptor] = "idle"
    BY <1>1 DEF LiveInv
  <2>2. CASE t = Acceptor
    BY <1>1, <2>1, <2>2, AcceptorSteps DEF Accept, PostRecv, PostRecvFails, MarkClosing, HandOff,
       TryRemove
  <2>3. CASE t # Acceptor
    BY <1>0, <2>1, <2>3 DEF Others
  <2> QED BY <2>2, <2>3
<1>2. ASSUME phase # "cleared", NEW s \in Sessions, life[s] = "freed" PROVE ioCount'[s] = 0
  <2>1. ioCount[s] = 0
    BY <1>2 DEF LiveInv
  <2>2. at[Acceptor] = s => pc[Acceptor] = "remove"
    BY <1>0, <1>2 DEF LiveInv, AcceptCtrl
  <2> QED BY <1>2, <2>1, <2>2, ZeroUnheld, Untouched
<1>3. ASSUME phase # "cleared", NEW s \in Sessions, life'[s] = "freed", life[s] # "freed"
      PROVE  /\ ioCount'[s] = 0 /\ TryRemove(t) /\ at[t] = s
  <2>1. ASSUME NEW r \in Sessions, Accept(r) PROVE life'[s] # "freed"
    BY <1>0, <1>3, <2>1 DEF Accept, AddSession
  <2>2. TryRemove(t)
    BY <1>3, <2>1, LifeStands
  <2>3. /\ \/ life' = life
           \/ life' = [life EXCEPT ![at[t]] = "freed"] /\ ioCount[at[t]] = 0
        /\ ioCount' = ioCount
    BY <2>2 DEF TryRemove
  <2> QED BY <1>0, <1>3, <2>2, <2>3
<1>4. ASSUME phase # "cleared", pc'[Acceptor] \in {"post", "close", "handoff"}
      PROVE  life'[at'[Acceptor]] = "mapped"
  <2>1. CASE t = Acceptor
    <3>1. ASSUME NEW s \in Sessions, Accept(s) PROVE life'[at'[Acceptor]] = "mapped"
      BY <1>0, <3>1 DEF Accept, AddSession, GotoWith
    <3>2. CASE PostRecv(Acceptor) \/ HandOff(Acceptor) \/ TryRemove(Acceptor)
      <4>1. pc'[Acceptor] \notin {"post", "close", "handoff"}
        BY <1>0, <3>2, ThreadKinds DEF PostRecv, HandOff, TryRemove, AfterClose, AfterRelease, Goto,
           GotoWith
      <4> QED BY <1>4, <4>1
    <3>3. CASE PostRecvFails(Acceptor) \/ MarkClosing(Acceptor)
      <4>1. pc[Acceptor] \in {"post", "close"} /\ life' = life /\ at' = at
        BY <3>3 DEF PostRecvFails, MarkClosing, sessionVars
      <4> QED BY <1>4, <4>1 DEF LiveInv
    <3> QED BY <2>1, <3>1, <3>2, <3>3, AcceptorSteps
  <2>2. CASE t # Acceptor
    <3>1. pc'[Acceptor] = pc[Acceptor] /\ at'[Acceptor] = at[Acceptor]
      BY <1>0, <2>2 DEF Others
    <3>2. life[at[Acceptor]] = "mapped" /\ Fresh(at[Acceptor]) /\ at[Acceptor] \in Sessions
      BY <1>0, <1>4, <3>1 DEF LiveInv, FreshInv, AcceptCtrl
    <3>3. at[t] # at[Acceptor]
      BY <2>2, <3>2 DEF Fresh
    <3>4. life'[at[Acceptor]] # "freed"
      BY <1>3, <1>4, <3>2, <3>3
    <3>5. life'[at[Acceptor]] # "absent"
      <4>1. TryRemove(t) => life' = life \/ life' = [life EXCEPT ![at[t]] = "freed"]
        BY DEF TryRemove
      <4> QED BY <1>0, <2>2, <3>2, <4>1, LifeStands
    <3>6. life'[at[Acceptor]] \in {"absent", "mapped", "freed"}
      <4>1. TryRemove(t) => life' = life \/ life' = [life EXCEPT ![at[t]] = "freed"]
        BY DEF TryRemove
      <4> QED BY <1>0, <2>2, <3>2, <4>1, LifeStands
    <3> QED BY <3>1, <3>4, <3>5, <3>6
  <2> QED BY <2>1, <2>2
<1> QED BY <1>0, <1>1, <1>2, <1>3, <1>4 DEF LiveInv

-----------------------------------------------------------------------------
(* Frame buffers *)

\* The places of the frames in a queue per session, as QueuedFrames has them.
Places(q) ==
    {p \in UNION {{s} \X DOMAIN q[s] : s \in Sessions} : q[p[1]][p[2]] = "frame"}

LEMMA PlacesAre ==
    ASSUME NEW q \in [Sessions -> Seq(Jobs)]
    PROVE  /\ \A p \in Places(q) : p = <<p[1], p[2]>>
           /\ \A s, i : <<s, i>> \in Places(q) <=>
                          s \in Sessions /\ i \in 1..Len(q[s]) /\ q[s][i] = "frame"
<1>1. ASSUME NEW s \in Sessions PROVE DOMAIN q[s] = 1..Len(q[s])
  BY LenProperties
<1>2. ASSUME NEW p \in Places(q) PROVE p = <<p[1], p[2]>>
  BY DEF Places
<1>3. ASSUME NEW s, NEW i
      PROVE  <<s, i>> \in Places(q) <=>
               s \in Sessions /\ i \in 1..Len(q[s]) /\ q[s][i] = "frame"
  BY <1>1 DEF Places
<1> QED BY <1>2, <1>3

LEMMA PairSubset ==
    ASSUME NEW A, NEW B, \A p \in A : p = <<p[1], p[2]>>,
           \A s, i : <<s, i>> \in A => <<s, i>> \in B
    PROVE  A \subseteq B
<1>1. ASSUME NEW p \in A PROVE p \in B
  <2>1. p = <<p[1], p[2]>>
    OBVIOUS
  <2>2. <<p[1], p[2]>> \in A
    BY <2>1
  <2>3. <<p[1], p[2]>> \in B
    BY <2>2
  <2> QED BY <2>1, <2>3
<1> QED BY <1>1

LEMMA PlacesAppend ==
    ASSUME NEW q \in [Sessions -> Seq(Jobs)], NEW x \in Sessions, NEW j \in Jobs,
           IsFiniteSet(Places(q)), NEW r, r = [q EXCEPT ![x] = Append(q[x], j)]
    PROVE  /\ IsFiniteSet(Places(r))
           /\ Cardinality(Places(r)) = Cardinality(Places(q)) + One(j = "frame")
<1> DEFINE n == Len(q[x]) + 1
<1>1. /\ Len(q[x]) \in Nat /\ Append(q[x], j) \in Seq(Jobs) /\ Len(Append(q[x], j)) = n
      /\ Append(q[x], j)[n] = j /\ \A i \in 1..Len(q[x]) : Append(q[x], j)[i] = q[x][i]
  BY LenProperties, AppendProperties
<1>2. r \in [Sessions -> Seq(Jobs)] /\ r[x] = Append(q[x], j) /\ \A s \in Sessions : s # x => r[s] = q[s]
  BY <1>1
<1>3. ASSUME NEW s, NEW i
      PROVE  <<s, i>> \in Places(r) <=>
               <<s, i>> \in Places(q) \/ (j = "frame" /\ s = x /\ i = n)
  <2>1. <<s, i>> \in Places(r) <=> s \in Sessions /\ i \in 1..Len(r[s]) /\ r[s][i] = "frame"
    BY <1>2, PlacesAre
  <2>2. <<s, i>> \in Places(q) <=> s \in Sessions /\ i \in 1..Len(q[s]) /\ q[s][i] = "frame"
    BY PlacesAre
  <2>3. CASE s = x
    <3>1. r[s] = Append(q[x], j) /\ Len(r[s]) = n
      BY <1>1, <1>2, <2>3
    <3>2. i \in 1..n <=> i \in 1..Len(q[x]) \/ i = n
      BY <1>1
    <3>3. n \notin 1..Len(q[x])
      BY <1>1
    <3> HIDE DEF n
    <3> QED BY <1>1, <2>1, <2>2, <2>3, <3>1, <3>2, <3>3
  <2>4. CASE s # x
    BY <1>2, <2>1, <2>2, <2>4
  <2> QED BY <2>3, <2>4
<1>4. <<x, n>> \notin Places(q)
  BY <1>1, PlacesAre
<1>5. CASE j = "frame"
  <2>1. Places(r) = Places(q) \cup {<<x, n>>}
    <3> DEFINE Y == Places(q) \cup {<<x, n>>}
    <3>1. \A p \in Places(r) : p = <<p[1], p[2]>>
      BY <1>2, PlacesAre
    <3>2. \A p \in Y : p = <<p[1], p[2]>>
      BY PlacesAre
    <3>3. \A s, i : <<s, i>> \in Places(r) => <<s, i>> \in Y
      BY <1>3
    <3>4. \A s, i : <<s, i>> \in Y => <<s, i>> \in Places(r)
      <4> SUFFICES ASSUME NEW s, NEW i, <<s, i>> \in Y PROVE <<s, i>> \in Places(r)
        OBVIOUS
      <4>1. <<s, i>> \in Places(q) \/ (s = x /\ i = n)
        OBVIOUS
      <4> QED BY <1>3, <1>5, <4>1
    <3> HIDE DEF Y
    <3>5. Places(r) \subseteq Y /\ Y \subseteq Places(r)
      BY <3>1, <3>2, <3>3, <3>4, PairSubset
    <3> QED BY <3>5 DEF Y
  <2>2. One(j = "frame") = 1
    BY <1>5 DEF One
  <2> DEFINE z == <<x, n>>
          Q == Places(q)
  <2>3. z \notin Q /\ Places(r) = Q \cup {z} /\ IsFiniteSet(Q)
    BY <1>4, <2>1
  <2> HIDE DEF z, Q, n
  <2>4. IsFiniteSet(Q \cup {z}) /\ Cardinality(Q \cup {z}) = Cardinality(Q) + 1
    BY <2>3, FS_AddElement
  <2> QED BY <2>2, <2>3, <2>4 DEF Q
<1>6. CASE j # "frame"
  <2>1. Places(r) = Places(q)
    <3>1. \A p \in Places(r) : p = <<p[1], p[2]>>
      BY <1>2, PlacesAre
    <3>2. \A p \in Places(q) : p = <<p[1], p[2]>>
      BY PlacesAre
    <3>3. \A s, i : <<s, i>> \in Places(r) <=> <<s, i>> \in Places(q)
      BY <1>3, <1>6
    <3>4. Places(r) \subseteq Places(q) /\ Places(q) \subseteq Places(r)
      BY <3>1, <3>2, <3>3, PairSubset
    <3> QED BY <3>4
  <2>2. One(j = "frame") = 0
    BY <1>6 DEF One
  <2> QED BY <2>1, <2>2, FS_CardinalityType
<1> QED BY <1>5, <1>6

LEMMA PlacesTail ==
    ASSUME NEW q \in [Sessions -> Seq(Jobs)], NEW x \in Sessions, q[x] # <<>>,
           IsFiniteSet(Places(q)), NEW r, r = [q EXCEPT ![x] = Tail(q[x])]
    PROVE  /\ IsFiniteSet(Places(r))
           /\ Cardinality(Places(r)) = Cardinality(Places(q)) - One(Head(q[x]) = "frame")
<1>1. /\ Len(q[x]) \in Nat \ {0} /\ Tail(q[x]) \in Seq(Jobs) /\ Len(Tail(q[x])) = Len(q[x]) - 1
      /\ Head(q[x]) = q[x][1] /\ \A i \in 1..(Len(q[x]) - 1) : Tail(q[x])[i] = q[x][i + 1]
  <2>1. q[x] \in Seq(Jobs)
    OBVIOUS
  <2>2. Tail(q[x]) \in Seq(Jobs) /\ Len(Tail(q[x])) = Len(q[x]) - 1 /\ Head(q[x]) = q[x][1]
        /\ \A i \in 1..Len(Tail(q[x])) : Tail(q[x])[i] = q[x][i + 1]
    BY <2>1, HeadTailProperties
  <2>3. Len(q[x]) \in Nat \ {0}
    BY <2>1, LenProperties, EmptySeq
  <2> QED BY <2>2, <2>3
<1>2. r \in [Sessions -> Seq(Jobs)] /\ r[x] = Tail(q[x]) /\ \A s \in Sessions : s # x => r[s] = q[s]
  BY <1>1
<1> DEFINE X == Places(q) \ {<<x, 1>>}
<1>3. ASSUME NEW s, NEW i
      PROVE  <<s, i>> \in Places(r) <=>
               IF s = x THEN i \in 1..(Len(q[x]) - 1) /\ q[x][i + 1] = "frame"
                        ELSE <<s, i>> \in Places(q)
  <2>1. <<s, i>> \in Places(r) <=> s \in Sessions /\ i \in 1..Len(r[s]) /\ r[s][i] = "frame"
    BY <1>2, PlacesAre
  <2>2. <<s, i>> \in Places(q) <=> s \in Sessions /\ i \in 1..Len(q[s]) /\ q[s][i] = "frame"
    BY PlacesAre
  <2>3. CASE s = x
    BY <1>1, <1>2, <2>1, <2>3
  <2>4. CASE s # x
    BY <1>2, <2>1, <2>2, <2>4
  <2> QED BY <2>3, <2>4
<1> DEFINE f == [p \in X |-> IF p[1] = x THEN <<x, p[2] - 1>> ELSE p]
<1>4. ASSUME NEW p \in X, p[1] = x
      PROVE  /\ f[p] = <<x, p[2] - 1>> /\ p[2] \in 2..Len(q[x])
             /\ p = <<x, p[2]>> /\ q[x][p[2]] = "frame"
  <2>1. p = <<x, p[2]>> /\ p # <<x, 1>> /\ p \in Places(q)
    BY <1>4, PlacesAre
  <2>2. p[2] \in 1..Len(q[x]) /\ q[x][p[2]] = "frame"
    BY <2>1, PlacesAre
  <2> QED BY <1>1, <1>4, <2>1, <2>2
<1>5. ASSUME NEW p \in X, p[1] # x
      PROVE  f[p] = p /\ p = <<p[1], p[2]>> /\ p \in Places(q)
  BY <1>5, PlacesAre
<1>6. f \in [X -> Places(r)]
  <2>1. ASSUME NEW p \in X PROVE f[p] \in Places(r)
    <3>1. CASE p[1] = x
      <4>1. p[2] \in 2..Len(q[x]) /\ q[x][p[2]] = "frame"
        BY <1>4, <3>1
      <4>2. p[2] - 1 \in 1..(Len(q[x]) - 1) /\ (p[2] - 1) + 1 = p[2]
        BY <1>1, <4>1
      <4>3. q[x][(p[2] - 1) + 1] = "frame"
        BY <4>1, <4>2
      <4>4. <<x, p[2] - 1>> \in Places(r)
        BY <1>3, <4>2, <4>3
      <4> QED BY <1>4, <3>1, <4>4
    <3>2. CASE p[1] # x
      <4>1. f[p] = p /\ p = <<p[1], p[2]>> /\ p \in Places(q)
        BY <1>5, <3>2
      <4>2. <<p[1], p[2]>> \in Places(r)
        BY <1>3, <3>2, <4>1
      <4> QED BY <4>1, <4>2
    <3> QED BY <3>1, <3>2
  <2> QED BY <2>1
<1> HIDE DEF f
<1>7. ASSUME NEW a \in X, NEW b \in X, f[a] = f[b] PROVE a = b
  <2>1. CASE a[1] = x /\ b[1] = x
    <3>1. a[2] - 1 = b[2] - 1 /\ a[2] \in Int /\ b[2] \in Int
      BY <1>1, <1>4, <1>7, <2>1
    <3>2. a[2] = b[2]
      BY <3>1
    <3>3. a = <<x, a[2]>> /\ b = <<x, b[2]>>
      BY <1>4, <2>1
    <3> QED BY <3>2, <3>3
  <2>2. CASE a[1] # x /\ b[1] # x
    BY <1>5, <1>7, <2>2
  <2>3. CASE a[1] = x /\ b[1] # x
    BY <1>4, <1>5, <1>7, <2>3
  <2>4. CASE a[1] # x /\ b[1] = x
    BY <1>4, <1>5, <1>7, <2>4
  <2> QED BY <2>1, <2>2, <2>3, <2>4
<1>8. ASSUME NEW p \in Places(r) PROVE \E a \in X : f[a] = p
  <2>1. p = <<p[1], p[2]>>
    BY <1>2, PlacesAre
  <2>2. CASE p[1] = x
    <3>1. p[2] \in 1..(Len(q[x]) - 1) /\ q[x][p[2] + 1] = "frame"
      BY <1>3, <2>1, <2>2
    <3> DEFINE a == <<x, p[2] + 1>>
    <3>2. p[2] + 1 \in 1..Len(q[x]) /\ p[2] + 1 # 1 /\ (p[2] + 1) - 1 = p[2]
      BY <1>1, <3>1
    <3>3. a \in X /\ a[1] = x /\ a[2] = p[2] + 1
      BY <3>1, <3>2, PlacesAre
    <3>4. f[a] = <<x, p[2]>>
      BY <1>4, <3>2, <3>3
    <3> QED BY <2>1, <2>2, <3>3, <3>4
  <2>3. CASE p[1] # x
    <3>1. <<p[1], p[2]>> \in Places(q)
      BY <1>3, <2>1, <2>3
    <3>2. p # <<x, 1>>
      <4>1. p = <<x, 1>> => p[1] = x
        OBVIOUS
      <4> QED BY <2>3, <4>1
    <3>3. p \in X
      BY <2>1, <3>1, <3>2
    <3> QED BY <1>5, <2>3, <3>3
  <2> QED BY <2>2, <2>3
<1>9. IsFiniteSet(X)
  BY FS_Difference
<1>10. IsFiniteSet(Places(r)) /\ Cardinality(Places(r)) = Cardinality(X)
  <2>1. f \in Bijection(X, Places(r))
    BY <1>6, <1>7, <1>8 DEF Bijection, Injection, Surjection, IsInjective
  <2>2. ExistsBijection(X, Places(r))
    BY <2>1 DEF ExistsBijection
  <2> HIDE DEF X
  <2> QED BY <1>9, <2>2, FS_Bijection
<1>11. <<x, 1>> \in Places(q) <=> Head(q[x]) = "frame"
  <2>1. <<x, 1>> \in Places(q) <=> x \in Sessions /\ 1 \in 1..Len(q[x]) /\ q[x][1] = "frame"
    BY PlacesAre
  <2>2. 1 \in 1..Len(q[x]) /\ Head(q[x]) = q[x][1]
    BY <1>1
  <2> QED BY <2>1, <2>2
<1>12. CASE Head(q[x]) = "frame"
  BY <1>10, <1>11, <1>12, FS_RemoveElement, FS_CardinalityType DEF One
<1>13. CASE Head(q[x]) # "frame"
  <2>1. X = Places(q) /\ One(Head(q[x]) = "frame") = 0
    BY <1>11, <1>13 DEF One
  <2>2. Cardinality(Places(q)) \in Nat
    BY FS_CardinalityType
  <2>3. Cardinality(Places(r)) = Cardinality(Places(q))
    BY <1>10, <2>1
  <2> QED BY <1>10, <2>1, <2>2, <2>3
<1> QED BY <1>10, <1>12, <1>13

\* Worker w's job has a frame's buffer.
HasBuffer(w) == job[w] = "frame" /\ ~(pc[w] \in {"release", "remove"} /\ at[w] = own[w])

\* Only cutting a frame, queueing a cleanup, beginning a job and finishing a frame move
\* buffers or queue anything.
LEMMA BuffersStand ==
    ASSUME Typed, CtrlInv, NEW t \in Threads, ThreadStep(t)
    PROVE  \/ /\ freeBufs' = freeBufs /\ todo' = todo
              /\ t \in PoolWorkers => (HasBuffer(t)' <=> HasBuffer(t))
           \/ t \in IoWorkers /\ DrainFrame(t)
           \/ HandOff(t)
           \/ t \in PoolWorkers /\ (BeginJob(t) \/ FinishFrame(t))
<1> DEFINE Stand == /\ freeBufs' = freeBufs /\ todo' = todo
                    /\ t \in PoolWorkers => (HasBuffer(t)' <=> HasBuffer(t))
<1>0. /\ Typed
      /\ t \in PoolWorkers => PoolCtrl(t)
      /\ NoSession \notin Sessions
      /\ t \in IoWorkers => t \notin PoolWorkers
      /\ t \in Closers => t \notin PoolWorkers
      /\ Acceptor \notin PoolWorkers
      /\ pc[t] \notin {"idle", "exit", "next"} => at[t] \in Sessions
  BY ThreadKinds, AtSession DEF CtrlInv
<1>1. ASSUME NEW s \in Sessions, t = Acceptor, Accept(s) PROVE Stand
  BY <1>0, <1>1 DEF HasBuffer, PoolCtrl, Typed, queueVars, Accept, GotoWith
<1>2. ASSUME t \in IoWorkers \cup {Acceptor}, PostRecv(t) PROVE Stand
  BY <1>0, <1>2 DEF HasBuffer, PoolCtrl, Typed, queueVars, PostRecv, Goto, GotoWith
<1>3. ASSUME t \in IoWorkers \cup {Acceptor}, PostRecvFails(t) PROVE Stand
  BY <1>0, <1>3 DEF HasBuffer, PoolCtrl, Typed, queueVars, PostRecvFails, Goto
<1>4. ASSUME NEW s \in Sessions, t \in IoWorkers, RecvFails(t, s) PROVE Stand
  BY <1>0, <1>4 DEF HasBuffer, PoolCtrl, Typed, queueVars, RecvFails, GotoWith
<1>5. ASSUME NEW s \in Sessions, t \in IoWorkers, RecvData(t, s) PROVE Stand
  BY <1>0, <1>5 DEF HasBuffer, PoolCtrl, Typed, queueVars, RecvData, GotoWith
<1>6. ASSUME NEW s \in Sessions, t \in IoWorkers, SendFails(t, s) PROVE Stand
  BY <1>0, <1>6 DEF HasBuffer, PoolCtrl, Typed, queueVars, SendFails, GotoWith
<1>7. ASSUME NEW s \in Sessions, t \in IoWorkers, SendDone(t, s) PROVE Stand
  BY <1>0, <1>7 DEF HasBuffer, PoolCtrl, Typed, queueVars, SendDone, GotoWith
<1>8. ASSUME t \in IoWorkers, DrainEnds(t) PROVE Stand
  BY <1>0, <1>8 DEF HasBuffer, PoolCtrl, Typed, queueVars, DrainEnds, Goto
<1>9. ASSUME t \in IoWorkers, AfterSend(t) PROVE Stand
  BY <1>0, <1>9 DEF HasBuffer, PoolCtrl, Typed, queueVars, AfterSend, PostSend, Goto
<1>10. ASSUME t \in IoWorkers, IoExit(t) PROVE Stand
  BY <1>0, <1>10 DEF HasBuffer, PoolCtrl, Typed, queueVars, IoExit, Goto
<1>11. ASSUME NEW s \in Sessions, t \in Closers, at[Acceptor] # s \/ roster[s] \/ entered[s],
              HeldToClose(t, s)
       PROVE  Stand
  BY <1>0, <1>11 DEF HasBuffer, PoolCtrl, Typed, queueVars, HeldToClose, GotoWith
<1>12. ASSUME NEW s \in Sessions, t \in PoolWorkers, Take(t, s) PROVE Stand
  BY <1>0, <1>12 DEF HasBuffer, PoolCtrl, Typed, queueVars, Take, Goto
<1>13. ASSUME NEW s \in Sessions, t \in PoolWorkers, pc[t] \in {"frame", "tell"}, Found(t, s)
       PROVE  Stand
  BY <1>0, <1>13 DEF HasBuffer, PoolCtrl, Typed, queueVars, Found, GotoWith
<1>14. ASSUME t \in PoolWorkers, EndRight(t) PROVE Stand
  BY <1>0, <1>14 DEF HasBuffer, PoolCtrl, Typed, queueVars, EndRight, GotoWith
<1>15. ASSUME t \in PoolWorkers, PoolExit(t) PROVE Stand
  BY <1>0, <1>15 DEF HasBuffer, PoolCtrl, Typed, queueVars, PoolExit, Goto
<1>16. ASSUME t \in PoolWorkers, HandleFrame(t) PROVE Stand
  BY <1>0, <1>16 DEF HasBuffer, PoolCtrl, Typed, queueVars, HandleFrame, Goto
<1>17. ASSUME t \in PoolWorkers, Enter(t) PROVE Stand
  BY <1>0, <1>17 DEF HasBuffer, PoolCtrl, Typed, queueVars, Enter, Goto
<1>18. ASSUME t \in PoolWorkers, EnterHold(t) PROVE Stand
  BY <1>0, <1>18 DEF HasBuffer, PoolCtrl, Typed, queueVars, EnterHold, Goto
<1>19. ASSUME t \in PoolWorkers, EnterCheck(t) PROVE Stand
  BY <1>0, <1>19 DEF HasBuffer, PoolCtrl, Typed, queueVars, EnterCheck, Goto
<1>2a. ASSUME t \in PoolWorkers, Reply(t) PROVE Stand
  BY <1>0, <1>2a DEF HasBuffer, PoolCtrl, Typed, queueVars, Reply, PostSend, Goto
<1>21. ASSUME t \in PoolWorkers, SendPeer(t) PROVE Stand
  BY <1>0, <1>21 DEF HasBuffer, PoolCtrl, Typed, queueVars, SendPeer, PostSend, Goto
<1>22. ASSUME t \in PoolWorkers, Cleanup(t) PROVE Stand
  BY <1>0, <1>22 DEF HasBuffer, PoolCtrl, Typed, queueVars, Cleanup, Goto
<1>23. ASSUME t \in PoolWorkers, CleanupDone(t) PROVE Stand
  BY <1>0, <1>23 DEF HasBuffer, PoolCtrl, Typed, queueVars, CleanupDone, Goto
<1>24. ASSUME MarkClosing(t) PROVE Stand
  BY <1>0, <1>24 DEF HasBuffer, PoolCtrl, Typed, queueVars, MarkClosing, AfterClose, Goto
<1>25. ASSUME ReleaseIo(t) PROVE Stand
  BY <1>0, <1>25 DEF HasBuffer, PoolCtrl, Typed, queueVars, ReleaseIo, Goto, AfterRelease, GotoWith
<1>26. ASSUME TryRemove(t) PROVE Stand
  BY <1>0, <1>26 DEF HasBuffer, PoolCtrl, Typed, queueVars, TryRemove, AfterRelease, GotoWith
<1> QED
  BY <1>1, <1>2, <1>3, <1>4, <1>5, <1>6, <1>7, <1>8, <1>9, <1>10, <1>11, <1>12, <1>13,
     <1>14, <1>15, <1>16, <1>17, <1>18, <1>19, <1>2a, <1>21, <1>22, <1>23, <1>24,
     <1>25, <1>26
     DEF ThreadStep, Completion, PoolStep, CloseStep, CloseIdle, CloseById, Chat, TellZone

LEMMA UsersChange ==
    ASSUME Typed, NEW t \in Threads, Others(t)
    PROVE  /\ IsFiniteSet(BufferUsers) /\ Cardinality(BufferUsers) \in Nat
           /\ IsFiniteSet(BufferUsers)' /\ Cardinality(BufferUsers)' \in Nat
           /\ Cardinality(BufferUsers)' =
                Cardinality(BufferUsers) + One(t \in PoolWorkers /\ HasBuffer(t)')
                - One(t \in PoolWorkers /\ HasBuffer(t))
<1> DEFINE X == BufferUsers
           Y == BufferUsers'
<1>1. X \subseteq PoolWorkers /\ Y \subseteq PoolWorkers /\ IsFiniteSet(PoolWorkers)
  BY SessionLifeAssumption DEF BufferUsers
<1>2. IsFiniteSet(X) /\ IsFiniteSet(Y)
  BY <1>1, FS_Subset
<1>3. \A w \in PoolWorkers : (w \in X <=> HasBuffer(w)) /\ (w \in Y <=> HasBuffer(w)')
  BY DEF BufferUsers, HasBuffer
<1>4. \A w \in PoolWorkers \ {t} : HasBuffer(w)' <=> HasBuffer(w)
  BY ThreadKinds DEF Others, HasBuffer
<1>5. /\ t \in X <=> t \in PoolWorkers /\ HasBuffer(t)
      /\ t \in Y <=> t \in PoolWorkers /\ HasBuffer(t)'
  BY <1>1, <1>3
<1> HIDE DEF X, Y
<1>6. X \ {t} = Y \ {t}
  BY <1>1, <1>3, <1>4
<1>7. /\ Cardinality(X) \in Nat /\ Cardinality(Y) \in Nat
      /\ Cardinality(Y) = Cardinality(X) + One(t \in Y) - One(t \in X)
  BY <1>2, <1>6, CountChange
<1>8. /\ One(t \in X) = One(t \in PoolWorkers /\ HasBuffer(t))
      /\ One(t \in Y) = One(t \in PoolWorkers /\ HasBuffer(t)')
  BY <1>5 DEF One
<1>9. Cardinality(Y) = Cardinality(X) + One(t \in PoolWorkers /\ HasBuffer(t)')
                       - One(t \in PoolWorkers /\ HasBuffer(t))
  BY <1>7, <1>8
<1> QED BY <1>2, <1>7, <1>9 DEF X, Y

\* A frame buffer is in the pool, in a queue or with one job.
LEMMA BuffersStep ==
    ASSUME Typed, CtrlInv, Buffers, NEW t \in Threads, ThreadStep(t)
    PROVE  Buffers'
<1> DEFINE u == Cardinality(BufferUsers)
           v == Cardinality(BufferUsers')
           n == Cardinality(Places(todo))
           m == Cardinality(Places(todo'))
           a == One(t \in PoolWorkers /\ HasBuffer(t))
           b == One(t \in PoolWorkers /\ HasBuffer(t)')
<1>0. /\ Typed /\ todo \in [Sessions -> Seq(Jobs)] /\ freeBufs \in Nat /\ NoSession \notin Sessions
      /\ t \in PoolWorkers => PoolCtrl(t)
      /\ t \in IoWorkers => t \notin PoolWorkers
      /\ pc[t] \notin {"idle", "exit", "next"} => at[t] \in Sessions
  BY ThreadKinds, AtSession DEF Typed, CtrlInv, Buffers
<1>1. u \in Nat /\ v \in Nat /\ v = u + b - a /\ a \in {0, 1} /\ b \in {0, 1}
  BY Alone, UsersChange, OneNat
<1>2. IsFiniteSet(Places(todo)) /\ freeBufs + n + u = FramePool /\ n \in Nat
  <2>1. Places(todo) = QueuedFrames
    BY DEF Places, QueuedFrames
  <2> QED BY <2>1, FS_CardinalityType DEF Buffers, FrameBuffersConserved
<1>2a. freeBufs \in Nat /\ n \in Nat /\ freeBufs + n + u = FramePool
  BY <1>0, <1>2
<1>3. ASSUME IsFiniteSet(Places(todo')), freeBufs' \in Nat /\ freeBufs' + m + v = FramePool
      PROVE  Buffers'
  <2>1. Places(todo') = QueuedFrames'
    BY DEF Places, QueuedFrames
  <2> QED BY <1>3, <2>1 DEF Buffers, FrameBuffersConserved
<1>4. CASE /\ freeBufs' = freeBufs /\ todo' = todo
           /\ t \in PoolWorkers => (HasBuffer(t)' <=> HasBuffer(t))
  <2>1. a = b
    BY <1>4 DEF One
  <2>2. IsFiniteSet(Places(todo')) /\ m = n
    BY <1>2, <1>4
  <2> HIDE DEF a, b, n, m, u, v
  <2>3. m = n /\ freeBufs' = freeBufs
    BY <1>4, <2>2
  <2>4. freeBufs' \in Nat /\ freeBufs' + m + v = FramePool
    BY <1>1, <1>2a, <2>1, <2>3
  <2> QED BY <1>3, <2>2, <2>4
<1>5. CASE t \in IoWorkers /\ DrainFrame(t)
  <2>1. a = b
    BY <1>0, <1>5 DEF One
  <2>2. at[t] \in Sessions
    BY <1>0, <1>5 DEF DrainFrame
  <2>3. CASE freeBufs = 0
    <3>1. freeBufs' = freeBufs /\ todo' = todo
      BY <1>5, <2>3 DEF DrainFrame, queueVars
    <3>2. IsFiniteSet(Places(todo')) /\ m = n
      BY <1>2, <3>1
    <3> HIDE DEF a, b, n, m, u, v
    <3>3. m = n /\ freeBufs' = freeBufs
      BY <3>1, <3>2
    <3>4. freeBufs' \in Nat /\ freeBufs' + m + v = FramePool
      BY <1>1, <1>2a, <2>1, <3>3
    <3> QED BY <1>3, <3>2, <3>4
  <2>4. CASE freeBufs # 0
    <3>1. freeBufs' = freeBufs - 1 /\ todo' = [todo EXCEPT ![at[t]] = Append(todo[at[t]], "frame")]
      BY <1>0, <1>5, <2>2, <2>4 DEF DrainFrame, Enqueue
    <3>2. IsFiniteSet(Places(todo')) /\ m = n + One("frame" = "frame")
      BY <1>0, <1>2, <2>2, <3>1, PlacesAppend, ZenonT(60) DEF Jobs
    <3>3. One("frame" = "frame") = 1
      BY DEF One
    <3> HIDE DEF a, b, n, m, u, v
    <3>4. m = n + 1 /\ freeBufs' = freeBufs - 1
      BY <3>1, <3>2, <3>3
    <3>5. freeBufs' \in Nat /\ freeBufs' + m + v = FramePool
      BY <1>1, <1>2a, <2>1, <2>4, <3>4
    <3> QED BY <1>3, <3>2, <3>5
  <2> QED BY <2>3, <2>4
<1>6. CASE HandOff(t)
  <2>1. t \in PoolWorkers => (HasBuffer(t)' <=> HasBuffer(t))
    BY <1>0, <1>6, ThreadKinds DEF HandOff, AfterClose, Goto, HasBuffer, PoolCtrl, Typed
  <2>2. a = b
    BY <2>1 DEF One
  <2>3. at[t] \in Sessions /\ freeBufs' = freeBufs
    BY <1>0, <1>6 DEF HandOff
  <2>4. IsFiniteSet(Places(todo')) /\ m = n
    <3>1. CASE Refused(at[t])
      <4>1. todo' = todo
        BY <1>6, <3>1 DEF HandOff, queueVars
      <4> QED BY <1>2, <4>1
    <3>2. CASE ~Refused(at[t])
      <4>1. todo' = [todo EXCEPT ![at[t]] = Append(todo[at[t]], "gone")]
        BY <1>0, <1>6, <2>3, <3>2 DEF HandOff, Enqueue
      <4>2. IsFiniteSet(Places(todo')) /\ m = n + One("gone" = "frame")
        BY <1>0, <1>2, <2>3, <4>1, PlacesAppend DEF Jobs
      <4>3. One("gone" = "frame") = 0
        BY DEF One
      <4> HIDE DEF n, m
      <4> QED BY <1>2, <4>2, <4>3
    <3> QED BY <3>1, <3>2
  <2> HIDE DEF a, b, n, m, u, v
  <2>5. m = n /\ freeBufs' = freeBufs
    BY <2>3, <2>4
  <2>6. freeBufs' \in Nat /\ freeBufs' + m + v = FramePool
    BY <1>1, <1>2a, <2>2, <2>5
  <2> QED BY <1>3, <2>4, <2>6
<1>7. CASE t \in PoolWorkers /\ BeginJob(t)
  <2> DEFINE s == own[t]
             j == Head(todo[s])
  <2>1. s \in Sessions /\ job[t] = "none" /\ todo[s] # <<>>
    BY <1>0, <1>7 DEF BeginJob, PoolCtrl, Typed
  <2>2. /\ todo' = [todo EXCEPT ![s] = Tail(todo[s])] /\ freeBufs' = freeBufs
        /\ job'[t] = j /\ pc'[t] = j
    BY <1>0, <1>7, <2>1 DEF BeginJob, GotoWith, Typed
  <2>3. IsFiniteSet(Places(todo')) /\ m = n - One(j = "frame")
    BY <1>0, <1>2, <2>1, <2>2, PlacesTail
  <2>4. a = 0
    BY <2>1 DEF HasBuffer, One
  <2>5. b = One(j = "frame")
    <3>1. HasBuffer(t)' <=> j = "frame"
      BY <2>2 DEF HasBuffer
    <3> QED BY <1>7, <3>1 DEF One
  <2>6. One(j = "frame") \in {0, 1}
    BY OneNat
  <2> DEFINE o == One(j = "frame")
  <2> HIDE DEF a, b, n, m, u, v, o
  <2>7. freeBufs' \in Nat /\ freeBufs' + m + v = FramePool
    <3>1. m = n - o /\ b = o /\ o \in {0, 1} /\ freeBufs' = freeBufs
      BY <2>2, <2>3, <2>5, <2>6 DEF o
    <3> QED BY <1>1, <1>2a, <2>4, <3>1
  <2> QED BY <1>3, <2>3, <2>7
<1>8. CASE t \in PoolWorkers /\ FinishFrame(t)
  <2>1. /\ freeBufs' = freeBufs + 1 /\ todo' = todo /\ pc[t] = "finish" /\ pc'[t] = "release"
        /\ at' = at /\ own' = own /\ job' = job
    BY <1>0, <1>8 DEF FinishFrame, queueVars, Goto, Typed
  <2>2. HasBuffer(t) /\ ~HasBuffer(t)'
    BY <1>0, <1>8, <2>1 DEF HasBuffer, PoolCtrl
  <2>3. a = 1 /\ b = 0
    BY <1>8, <2>2 DEF One
  <2>4. IsFiniteSet(Places(todo')) /\ m = n
    BY <1>2, <2>1
  <2> HIDE DEF a, b, n, m, u, v
  <2>5. m = n /\ freeBufs' = freeBufs + 1
    BY <2>1, <2>4
  <2>6. freeBufs' \in Nat /\ freeBufs' + m + v = FramePool
    BY <1>1, <1>2a, <2>3, <2>5
  <2> QED BY <1>3, <2>4, <2>6
<1> QED BY <1>4, <1>5, <1>6, <1>7, <1>8, BuffersStand

-----------------------------------------------------------------------------
(* The cleanup job *)

\* The cleanup jobs in a queue after one more job, and after its first job has gone.
LEMMA GoneOps ==
    ASSUME NEW q \in Seq(Jobs)
    PROVE  /\ \A j \in Jobs : \A i :
               (i \in 1..Len(Append(q, j)) /\ Append(q, j)[i] = "gone")
                  <=> (i \in 1..Len(q) /\ q[i] = "gone") \/ (i = Len(q) + 1 /\ j = "gone")
           /\ q # <<>> =>
                 /\ 1 \in 1..Len(q) /\ Head(q) = q[1] /\ Head(q) \in Jobs
                 /\ \A i : i \in 1..Len(Tail(q)) /\ Tail(q)[i] = "gone" =>
                       i \in Nat \ {0} /\ i + 1 \in 1..Len(q) /\ q[i + 1] = "gone"
<1>1. ASSUME NEW j \in Jobs, NEW i
      PROVE  (i \in 1..Len(Append(q, j)) /\ Append(q, j)[i] = "gone")
                <=> (i \in 1..Len(q) /\ q[i] = "gone") \/ (i = Len(q) + 1 /\ j = "gone")
  <2>1. /\ Len(q) \in Nat /\ Len(Append(q, j)) = Len(q) + 1
        /\ Append(q, j)[Len(q) + 1] = j /\ \A k \in 1..Len(q) : Append(q, j)[k] = q[k]
    BY LenProperties, AppendProperties
  <2>2. i \in 1..(Len(q) + 1) <=> i \in 1..Len(q) \/ i = Len(q) + 1
    BY <2>1
  <2>3. Len(q) + 1 \notin 1..Len(q)
    BY <2>1
  <2> QED BY <2>1, <2>2, <2>3
<1>2. ASSUME q # <<>>
      PROVE  /\ 1 \in 1..Len(q) /\ Head(q) = q[1] /\ Head(q) \in Jobs
             /\ \A i : i \in 1..Len(Tail(q)) /\ Tail(q)[i] = "gone" =>
                   i \in Nat \ {0} /\ i + 1 \in 1..Len(q) /\ q[i + 1] = "gone"
  <2>1. /\ Len(Tail(q)) = Len(q) - 1 /\ Head(q) = q[1] /\ Head(q) \in Jobs
        /\ \A i \in 1..Len(Tail(q)) : Tail(q)[i] = q[i + 1]
    BY <1>2, HeadTailProperties
  <2>2. Len(q) \in Nat \ {0}
    BY <1>2, LenProperties, EmptySeq
  <2>3. 1 \in 1..Len(q)
    BY <2>2
  <2>4. ASSUME NEW i, i \in 1..Len(Tail(q)), Tail(q)[i] = "gone"
        PROVE  i \in Nat \ {0} /\ i + 1 \in 1..Len(q) /\ q[i + 1] = "gone"
    <3>1. q[i + 1] = "gone"
      BY <2>1, <2>4
    <3>2. i \in 1..(Len(q) - 1)
      BY <2>1, <2>4
    <3> QED BY <2>2, <3>1, <3>2
  <2> QED BY <2>1, <2>3, <2>4
<1> QED BY <1>1, <1>2

\* Only closing, queueing the cleanup, cutting a frame, beginning a job and cleaning up
\* have to do with the cleanup job.
LEMMA GoneStands ==
    ASSUME Typed, CtrlInv, NEW t \in Threads, ThreadStep(t)
    PROVE  \/ /\ closing' = closing /\ todo' = todo /\ cleaned' = cleaned /\ pc'[t] # "handoff"
              /\ t \in PoolWorkers /\ job'[t] = "gone" => job[t] = "gone" /\ own'[t] = own[t]
           \/ MarkClosing(t) \/ HandOff(t)
           \/ t \in IoWorkers /\ DrainFrame(t)
           \/ t \in PoolWorkers /\ (BeginJob(t) \/ Cleanup(t))
<1> DEFINE Stand ==
      /\ closing' = closing /\ todo' = todo /\ cleaned' = cleaned /\ pc'[t] # "handoff"
      /\ t \in PoolWorkers /\ job'[t] = "gone" => job[t] = "gone" /\ own'[t] = own[t]
<1>0. /\ Typed
      /\ t \in PoolWorkers => PoolCtrl(t)
      /\ NoSession \notin Sessions
      /\ t \in IoWorkers => t \notin PoolWorkers
      /\ t \in Closers => t \notin PoolWorkers
      /\ Acceptor \notin PoolWorkers
  BY ThreadKinds DEF CtrlInv
<1>1. ASSUME NEW s \in Sessions, t = Acceptor, Accept(s) PROVE Stand
  BY <1>0, <1>1 DEF PoolCtrl, Typed, sessionVars, queueVars, Accept, GotoWith
<1>2. ASSUME t \in IoWorkers \cup {Acceptor}, PostRecv(t) PROVE Stand
  BY <1>0, <1>2 DEF PoolCtrl, Typed, sessionVars, queueVars, PostRecv, Goto, GotoWith
<1>3. ASSUME t \in IoWorkers \cup {Acceptor}, PostRecvFails(t) PROVE Stand
  BY <1>0, <1>3 DEF PoolCtrl, Typed, sessionVars, queueVars, PostRecvFails, Goto
<1>4. ASSUME NEW s \in Sessions, t \in IoWorkers, RecvFails(t, s) PROVE Stand
  BY <1>0, <1>4 DEF PoolCtrl, Typed, sessionVars, queueVars, RecvFails, GotoWith
<1>5. ASSUME NEW s \in Sessions, t \in IoWorkers, RecvData(t, s) PROVE Stand
  BY <1>0, <1>5 DEF PoolCtrl, Typed, sessionVars, queueVars, RecvData, GotoWith
<1>6. ASSUME NEW s \in Sessions, t \in IoWorkers, SendFails(t, s) PROVE Stand
  BY <1>0, <1>6 DEF PoolCtrl, Typed, sessionVars, queueVars, SendFails, GotoWith
<1>7. ASSUME NEW s \in Sessions, t \in IoWorkers, SendDone(t, s) PROVE Stand
  BY <1>0, <1>7 DEF PoolCtrl, Typed, sessionVars, queueVars, SendDone, GotoWith
<1>8. ASSUME t \in IoWorkers, DrainEnds(t) PROVE Stand
  BY <1>0, <1>8 DEF PoolCtrl, Typed, sessionVars, queueVars, DrainEnds, Goto
<1>9. ASSUME t \in IoWorkers, AfterSend(t) PROVE Stand
  BY <1>0, <1>9 DEF PoolCtrl, Typed, sessionVars, queueVars, AfterSend, PostSend, Goto
<1>10. ASSUME t \in IoWorkers, IoExit(t) PROVE Stand
  BY <1>0, <1>10 DEF PoolCtrl, Typed, sessionVars, queueVars, IoExit, Goto
<1>11. ASSUME NEW s \in Sessions, t \in Closers, at[Acceptor] # s \/ roster[s] \/ entered[s],
              HeldToClose(t, s)
       PROVE  Stand
  BY <1>0, <1>11 DEF PoolCtrl, Typed, sessionVars, queueVars, HeldToClose, GotoWith
<1>12. ASSUME NEW s \in Sessions, t \in PoolWorkers, Take(t, s) PROVE Stand
  BY <1>0, <1>12 DEF PoolCtrl, Typed, sessionVars, queueVars, Take, Goto
<1>13. ASSUME NEW s \in Sessions, t \in PoolWorkers, pc[t] \in {"frame", "tell"}, Found(t, s)
       PROVE  Stand
  BY <1>0, <1>13 DEF PoolCtrl, Typed, sessionVars, queueVars, Found, GotoWith
<1>14. ASSUME t \in PoolWorkers, EndRight(t) PROVE Stand
  BY <1>0, <1>14 DEF PoolCtrl, Typed, sessionVars, queueVars, EndRight, GotoWith
<1>15. ASSUME t \in PoolWorkers, PoolExit(t) PROVE Stand
  BY <1>0, <1>15 DEF PoolCtrl, Typed, sessionVars, queueVars, PoolExit, Goto
<1>16. ASSUME t \in PoolWorkers, HandleFrame(t) PROVE Stand
  BY <1>0, <1>16 DEF PoolCtrl, Typed, sessionVars, queueVars, HandleFrame, Goto
<1>17. ASSUME t \in PoolWorkers, Enter(t) PROVE Stand
  BY <1>0, <1>17 DEF PoolCtrl, Typed, sessionVars, queueVars, Enter, Goto
<1>18. ASSUME t \in PoolWorkers, EnterHold(t) PROVE Stand
  BY <1>0, <1>18 DEF PoolCtrl, Typed, sessionVars, queueVars, EnterHold, Goto
<1>19. ASSUME t \in PoolWorkers, EnterCheck(t) PROVE Stand
  BY <1>0, <1>19 DEF PoolCtrl, Typed, sessionVars, queueVars, EnterCheck, Goto, LeaveRoster
<1>2a. ASSUME t \in PoolWorkers, Reply(t) PROVE Stand
  BY <1>0, <1>2a DEF PoolCtrl, Typed, sessionVars, queueVars, Reply, PostSend, Goto
<1>21. ASSUME t \in PoolWorkers, SendPeer(t) PROVE Stand
  BY <1>0, <1>21 DEF PoolCtrl, Typed, sessionVars, queueVars, SendPeer, PostSend, Goto
<1>22. ASSUME t \in PoolWorkers, FinishFrame(t) PROVE Stand
  BY <1>0, <1>22 DEF PoolCtrl, Typed, sessionVars, queueVars, FinishFrame, Goto
<1>23. ASSUME t \in PoolWorkers, CleanupDone(t) PROVE Stand
  BY <1>0, <1>23 DEF PoolCtrl, Typed, sessionVars, queueVars, CleanupDone, Goto
<1>24. ASSUME ReleaseIo(t) PROVE Stand
  BY <1>0, <1>24 DEF PoolCtrl, Typed, sessionVars, queueVars, ReleaseIo, Goto, AfterRelease,
     GotoWith
<1>25. ASSUME TryRemove(t) PROVE Stand
  BY <1>0, <1>25 DEF PoolCtrl, Typed, sessionVars, queueVars, TryRemove, AfterRelease, GotoWith
<1> QED
  BY <1>1, <1>2, <1>3, <1>4, <1>5, <1>6, <1>7, <1>8, <1>9, <1>10, <1>11, <1>12, <1>13,
     <1>14, <1>15, <1>16, <1>17, <1>18, <1>19, <1>2a, <1>21, <1>22, <1>23, <1>24, <1>25
     DEF ThreadStep, Completion, PoolStep, CloseStep, CloseIdle, CloseById, Chat, TellZone

\* Who executes a job does so for a session.
LEMMA JobSession ==
    ASSUME Typed, CtrlInv, NEW w \in PoolWorkers, job[w] # "none"
    PROVE  own[w] \in Sessions
<1>1. w \in Threads /\ PoolCtrl(w) /\ pc[w] \in Labels
  BY ThreadKinds DEF CtrlInv, Typed, Labels
<1>2. own[w] # NoSession
  BY <1>1 DEF PoolCtrl, Labels
<1> QED BY <1>2 DEF Typed

\* A step that queues no cleanup and begins none.
LEMMA GoneKept ==
    ASSUME Typed, CtrlInv, GoneInv, NEW t \in Threads, Others(t), closing' = closing, cleaned' = cleaned,
           \A s \in Sessions, i \in Nat : IsGone(s, i)' => IsGone(s, i),
           pc'[t] # "handoff",
           t \in PoolWorkers /\ job'[t] = "gone" => job[t] = "gone" /\ own'[t] = own[t]
    PROVE  GoneInv'
<1>0. /\ PoolWorkers \subseteq Threads
      /\ \A u \in Threads : pc'[u] = "handoff" => pc[u] = "handoff" /\ at'[u] = at[u] /\ u # t
      /\ \A w \in PoolWorkers : job'[w] = "gone" => job[w] = "gone" /\ own'[w] = own[w]
  BY ThreadKinds DEF Others
<1>1. ASSUME NEW s \in Sessions, NoCleanup(s) PROVE NoCleanup(s)'
  BY <1>0, <1>1 DEF NoCleanup
<1>2. ASSUME NEW u \in Threads, pc'[u] = "handoff", at[u] \in Sessions
      PROVE  closing'[at'[u]] /\ NoCleanup(at[u])' /\ \A i \in Nat : ~IsGone(at[u], i)'
  BY <1>0, <1>1, <1>2 DEF GoneInv
<1>3. ASSUME NEW u \in Threads, pc'[u] = "handoff" PROVE at[u] \in Sessions
  BY <1>0, <1>3, AtSession
<1>4. ASSUME NEW s \in Sessions, NEW i \in Nat, NEW k \in Nat, IsGone(s, i)'
      PROVE  closing'[s] /\ NoCleanup(s)' /\ (IsGone(s, k)' => i = k)
  BY <1>0, <1>1, <1>4 DEF GoneInv
<1>5. ASSUME NEW u \in Threads, NEW v \in Threads, pc'[u] = "handoff", pc'[v] = "handoff",
             at'[u] = at'[v]
      PROVE  u = v
  BY <1>0, <1>5 DEF GoneInv
<1>6. \A s \in Sessions : cleaned'[s] => closing'[s]
  BY DEF GoneInv
<1>7. \A w \in PoolWorkers : job'[w] = "gone" => closing'[own'[w]]
  BY <1>0 DEF GoneInv
<1>8. ASSUME NEW u \in Threads, pc'[u] = "handoff"
      PROVE  closing'[at'[u]] /\ NoCleanup(at[u])' /\ (\A i \in Nat : ~IsGone(at[u], i)')
             /\ at'[u] = at[u]
  BY <1>0, <1>2, <1>3, <1>8
<1> QED BY <1>4, <1>5, <1>6, <1>7, <1>8 DEF GoneInv, NoCleanup, IsGone

\* The cleanup of a session is queued once, by who has set closing, and begun once.
LEMMA GoneStep ==
    ASSUME Typed, CtrlInv, RightInv, GoneInv, NEW t \in Threads, ThreadStep(t)
    PROVE  /\ GoneInv'
           /\ \A w \in PoolWorkers : job[w] # "gone" /\ job'[w] = "gone" => ~cleaned[own[w]]
<1> DEFINE Once ==
      \A w \in PoolWorkers : job[w] # "gone" /\ job'[w] = "gone" => ~cleaned[own[w]]
<1>0. /\ Typed /\ Others(t) /\ PoolWorkers \subseteq Threads /\ NoSession \notin Sessions
      /\ t \in PoolWorkers => PoolCtrl(t)
      /\ t \in IoWorkers => t \notin PoolWorkers
      /\ pc[t] \notin {"idle", "exit", "next"} => at[t] \in Sessions
      /\ pc \in [Threads -> Labels] /\ todo \in [Sessions -> Seq(Jobs)]
  BY Alone, ThreadKinds, AtSession DEF Typed, CtrlInv, Labels
<1>1. CASE /\ closing' = closing /\ todo' = todo /\ cleaned' = cleaned /\ pc'[t] # "handoff"
           /\ t \in PoolWorkers /\ job'[t] = "gone" => job[t] = "gone" /\ own'[t] = own[t]
  <2>1. GoneInv'
    BY <1>0, <1>1, GoneKept DEF IsGone
  <2>2. Once
    BY <1>0, <1>1 DEF Others
  <2> QED BY <2>1, <2>2
<1>2. CASE MarkClosing(t)
  <2>1. /\ closing' = [closing EXCEPT ![at[t]] = TRUE] /\ todo' = todo /\ cleaned' = cleaned
        /\ at' = at /\ own' = own /\ job' = job /\ pc[t] = "close" /\ at[t] \in Sessions
        /\ \A u \in Threads : pc'[u] = "handoff" => pc[u] = "handoff" \/ (u = t /\ ~closing[at[t]])
    <3>1. ASSUME NEW u \in Threads, pc'[u] = "handoff"
          PROVE  pc[u] = "handoff" \/ (u = t /\ ~closing[at[t]])
      BY <1>0, <1>2, <3>1 DEF MarkClosing, AfterClose, Goto
    <3> QED BY <1>0, <1>2, <3>1 DEF MarkClosing, queueVars
  <2>2. \A s \in Sessions : closing[s] => closing'[s]
    BY <2>1 DEF Typed
  <2>3. closing'[at[t]]
    BY <2>1 DEF Typed
  <2>4. \A s \in Sessions : NoCleanup(s)' <=> NoCleanup(s)
    BY <2>1 DEF NoCleanup
  <2>5. \A s, i : IsGone(s, i)' <=> IsGone(s, i)
    BY <2>1 DEF IsGone
  <2>6. ASSUME ~closing[at[t]]
        PROVE  /\ NoCleanup(at[t]) /\ \A i \in Nat : ~IsGone(at[t], i)
               /\ \A u \in Threads : pc[u] = "handoff" => at[u] # at[t]
    <3>1. NoCleanup(at[t])
      BY <2>1, <2>6 DEF GoneInv, NoCleanup
    <3>2. \A i \in Nat : ~IsGone(at[t], i)
      BY <2>1, <2>6 DEF GoneInv
    <3>3. \A u \in Threads : pc[u] = "handoff" => at[u] # at[t]
      BY <2>6 DEF GoneInv
    <3> QED BY <3>1, <3>2, <3>3
  <2>7. ASSUME NEW u \in Threads, pc'[u] = "handoff", NEW s, s = at'[u]
        PROVE  /\ s \in Sessions /\ closing'[s] /\ NoCleanup(s)' /\ \A i \in Nat : ~IsGone(s, i)'
    <3>1. CASE u = t /\ ~closing[at[t]]
      <4>1. s = at[t] /\ s \in Sessions
        BY <2>1, <2>7, <3>1
      <4>2. NoCleanup(s) /\ \A i \in Nat : ~IsGone(s, i)
        BY <2>6, <3>1, <4>1
      <4> QED BY <2>3, <2>4, <2>5, <4>1, <4>2
    <3>2. CASE pc[u] = "handoff"
      <4>1. s = at[u] /\ s \in Sessions
        BY <2>1, <2>7, <3>2, AtSession
      <4>2. closing[s] /\ NoCleanup(s) /\ \A i \in Nat : ~IsGone(s, i)
        BY <3>2, <4>1 DEF GoneInv
      <4> QED BY <2>2, <2>4, <2>5, <4>1, <4>2
    <3> QED BY <2>1, <2>7, <3>1, <3>2
  <2>8. ASSUME NEW u \in Threads, NEW v \in Threads, pc'[u] = "handoff", pc'[v] = "handoff",
               at'[u] = at'[v]
        PROVE  u = v
    BY <2>1, <2>6, <2>8 DEF GoneInv
  <2>9. \A s \in Sessions, i, k \in Nat :
          IsGone(s, i)' => closing'[s] /\ NoCleanup(s)' /\ (IsGone(s, k)' => i = k)
    BY <2>2, <2>4, <2>5 DEF GoneInv
  <2>10. \A s \in Sessions : cleaned'[s] => closing'[s]
    BY <2>1, <2>2 DEF GoneInv
  <2>11. \A w \in PoolWorkers : job'[w] = "gone" => closing'[own'[w]]
    <3> SUFFICES ASSUME NEW w \in PoolWorkers, job'[w] = "gone" PROVE closing'[own'[w]]
      OBVIOUS
    <3>1. closing[own[w]] /\ own'[w] = own[w]
      BY <2>1 DEF GoneInv
    <3>2. own[w] \in Sessions
      <4>1. job[w] = "gone"
        BY <2>1
      <4> QED BY <1>0, <4>1, JobSession
    <3> QED BY <2>2, <3>1, <3>2
  <2>12. Once
    BY <2>1
  <2> QED BY <2>7, <2>8, <2>9, <2>10, <2>11, <2>12 DEF GoneInv, NoCleanup, IsGone
<1>3. CASE HandOff(t)
  <2>1. /\ closing' = closing /\ cleaned' = cleaned /\ at' = at /\ own' = own /\ job' = job
        /\ pc[t] = "handoff" /\ at[t] \in Sessions /\ pc'[t] # "handoff"
    BY <1>0, <1>3 DEF HandOff, AfterClose, Goto, sessionVars
  <2>2. CASE todo' = todo
    BY <1>0, <2>1, <2>2, GoneKept DEF IsGone
  <2>3. CASE todo' = [todo EXCEPT ![at[t]] = Append(todo[at[t]], "gone")]
    <3> PICK q \in Sessions : q = at[t]
      BY <2>1
    <3> DEFINE n == Len(todo[q]) + 1
    <3>1. ASSUME NEW s \in Sessions, NEW i
          PROVE  IsGone(s, i)' <=> IsGone(s, i) \/ (s = q /\ i = n)
      <4>1. CASE s = q
        <5>1. todo'[s] = Append(todo[q], "gone") /\ todo[q] \in Seq(Jobs)
          BY <1>0, <2>3, <4>1
        <5>2. /\ IsGone(s, i)' <=> i \in 1..Len(Append(todo[q], "gone")) /\ Append(todo[q], "gone")[i] = "gone"
              /\ IsGone(s, i) <=> i \in 1..Len(todo[q]) /\ todo[q][i] = "gone"
          BY <4>1, <5>1 DEF IsGone
        <5> QED BY <4>1, <5>1, <5>2, GoneOps DEF Jobs
      <4>2. CASE s # q
        BY <1>0, <2>3, <4>2 DEF IsGone
      <4> QED BY <4>1, <4>2
    <3>2. /\ closing[q] /\ NoCleanup(q) /\ \A i \in Nat : ~IsGone(q, i)
          /\ \A u \in Threads : pc[u] = "handoff" /\ u # t => at[u] # q
      BY <2>1 DEF GoneInv
    <3>3. \A s \in Sessions : NoCleanup(s)' <=> NoCleanup(s)
      BY <2>1 DEF NoCleanup
    <3> HIDE DEF n
    <3>4. ASSUME NEW u \in Threads, pc'[u] = "handoff", NEW s, s = at'[u]
          PROVE  /\ s \in Sessions /\ closing'[s] /\ NoCleanup(s)' /\ \A i \in Nat : ~IsGone(s, i)'
      <4>1. u # t /\ pc[u] = "handoff" /\ at'[u] = at[u] /\ at[u] # q
        BY <1>0, <2>1, <3>2, <3>4 DEF Others
      <4>2. s = at[u] /\ s \in Sessions /\ s # q
        BY <3>4, <4>1, AtSession
      <4>3. closing[s] /\ NoCleanup(s) /\ \A i \in Nat : ~IsGone(s, i)
        BY <4>1, <4>2 DEF GoneInv
      <4> QED BY <2>1, <3>1, <3>3, <4>2, <4>3
    <3>5. ASSUME NEW u \in Threads, NEW v \in Threads, pc'[u] = "handoff", pc'[v] = "handoff",
                 at'[u] = at'[v]
          PROVE  u = v
      BY <1>0, <2>1, <3>5 DEF GoneInv, Others
    <3>6. ASSUME NEW s \in Sessions, NEW i \in Nat, NEW k \in Nat, IsGone(s, i)'
          PROVE  closing'[s] /\ NoCleanup(s)' /\ (IsGone(s, k)' => i = k)
      <4>1. CASE s = q
        BY <2>1, <3>1, <3>2, <3>3, <3>6, <4>1
      <4>2. CASE s # q
        BY <2>1, <3>1, <3>3, <3>6, <4>2 DEF GoneInv
      <4> QED BY <4>1, <4>2
    <3>7. \A s \in Sessions : cleaned'[s] => closing'[s]
      BY <2>1 DEF GoneInv
    <3>8. \A w \in PoolWorkers : job'[w] = "gone" => closing'[own'[w]]
      BY <2>1 DEF GoneInv
    <3> QED BY <2>1, <3>4, <3>5, <3>6, <3>7, <3>8 DEF GoneInv, NoCleanup, IsGone
  <2>4. todo' = todo \/ todo' = [todo EXCEPT ![at[t]] = Append(todo[at[t]], "gone")]
    BY <1>0, <1>3, <2>1 DEF HandOff, Enqueue, queueVars
  <2> QED BY <2>1, <2>2, <2>3, <2>4
<1>4. CASE t \in IoWorkers /\ DrainFrame(t)
  <2>1. /\ closing' = closing /\ cleaned' = cleaned /\ at' = at /\ own' = own /\ job' = job
        /\ at[t] \in Sessions /\ pc'[t] # "handoff"
    BY <1>0, <1>4 DEF DrainFrame, Goto, sessionVars
  <2>2. todo' = todo \/ todo' = [todo EXCEPT ![at[t]] = Append(todo[at[t]], "frame")]
    BY <1>0, <1>4, <2>1 DEF DrainFrame, Enqueue, queueVars
  <2>3. ASSUME NEW s \in Sessions, NEW i \in Nat, IsGone(s, i)' PROVE IsGone(s, i)
    <3>1. CASE todo' = todo
      BY <2>3, <3>1 DEF IsGone
    <3>2. CASE todo' = [todo EXCEPT ![at[t]] = Append(todo[at[t]], "frame")] /\ s = at[t]
      <4>1. todo'[s] = Append(todo[s], "frame") /\ todo[s] \in Seq(Jobs)
        BY <1>0, <2>1, <3>2
      <4>2. i \in 1..Len(Append(todo[s], "frame")) /\ Append(todo[s], "frame")[i] = "gone"
        BY <2>3, <4>1 DEF IsGone
      <4> QED BY <4>1, <4>2, GoneOps DEF IsGone, Jobs
    <3>3. CASE todo' = [todo EXCEPT ![at[t]] = Append(todo[at[t]], "frame")] /\ s # at[t]
      BY <1>0, <2>3, <3>3 DEF IsGone
    <3> QED BY <2>2, <3>1, <3>2, <3>3
  <2>4. GoneInv'
    BY <1>0, <2>1, <2>3, GoneKept
  <2>5. Once
    BY <2>1
  <2> QED BY <2>4, <2>5
<1>5. CASE t \in PoolWorkers /\ BeginJob(t)
  <2>0. own[t] \in Sessions
    BY <1>0, <1>5 DEF BeginJob, PoolCtrl, Typed
  <2> PICK q \in Sessions : q = own[t]
    BY <2>0
  <2>1. q \in Sessions /\ job[t] = "none" /\ todo[q] # <<>> /\ todo[q] \in Seq(Jobs)
    BY <1>0, <1>5 DEF BeginJob, PoolCtrl, Typed
  <2>2. /\ todo' = [todo EXCEPT ![q] = Tail(todo[q])] /\ job'[t] = Head(todo[q])
        /\ pc'[t] = Head(todo[q]) /\ closing' = closing /\ cleaned' = cleaned /\ own' = own
    BY <1>0, <1>5, <2>1 DEF BeginJob, GotoWith, Typed, sessionVars
  <2>3. Head(todo[q]) \in Jobs /\ 1 \in 1..Len(todo[q]) /\ Head(todo[q]) = todo[q][1]
    BY <2>1, GoneOps
  <2>4. pc'[t] # "handoff"
    BY <2>2, <2>3 DEF Jobs
  <2>5. ASSUME NEW s \in Sessions, NEW i \in Nat, IsGone(s, i)'
        PROVE  IF s = q THEN i # 0 /\ IsGone(s, i + 1) ELSE IsGone(s, i)
    <3>1. CASE s = q
      <4>1. todo'[s] = Tail(todo[q])
        BY <1>0, <2>2, <3>1
      <4>2. i \in 1..Len(Tail(todo[q])) /\ Tail(todo[q])[i] = "gone"
        BY <2>5, <4>1 DEF IsGone
      <4> QED BY <2>1, <3>1, <4>2, GoneOps DEF IsGone
    <3>2. CASE s # q
      BY <1>0, <2>2, <2>5, <3>2 DEF IsGone
    <3> QED BY <3>1, <3>2
  <2>6. CASE Head(todo[q]) # "gone"
    <3>1. \A s \in Sessions : NoCleanup(s) => NoCleanup(s)'
      BY <1>0, <2>2, <2>6 DEF NoCleanup, Others
    <3>2. \A u \in Threads : pc'[u] = "handoff" => pc[u] = "handoff" /\ at'[u] = at[u]
      BY <1>0, <2>4 DEF Others
    <3>3. ASSUME NEW u \in Threads, pc'[u] = "handoff", NEW s, s = at'[u]
          PROVE  /\ s \in Sessions /\ closing'[s] /\ NoCleanup(s)' /\ \A i \in Nat : ~IsGone(s, i)'
      <4>1. s = at[u] /\ s \in Sessions
        BY <3>2, <3>3, AtSession
      <4>2. closing[s] /\ NoCleanup(s) /\ \A i \in Nat : ~IsGone(s, i)
        BY <3>2, <3>3, <4>1 DEF GoneInv
      <4>3. \A i \in Nat : ~IsGone(s, i)'
        <5> SUFFICES ASSUME NEW i \in Nat, IsGone(s, i)' PROVE FALSE
          OBVIOUS
        <5>1. i + 1 \in Nat
          OBVIOUS
        <5> QED BY <2>5, <4>1, <4>2, <5>1
      <4> QED BY <2>2, <3>1, <4>1, <4>2, <4>3
    <3>4. ASSUME NEW u \in Threads, NEW v \in Threads, pc'[u] = "handoff", pc'[v] = "handoff",
                 at'[u] = at'[v]
          PROVE  u = v
      BY <3>2, <3>4 DEF GoneInv
    <3>5. ASSUME NEW s \in Sessions, NEW i \in Nat, NEW k \in Nat, IsGone(s, i)'
          PROVE  closing'[s] /\ NoCleanup(s)' /\ (IsGone(s, k)' => i = k)
      <4>0. i + 1 \in Nat /\ k + 1 \in Nat
        OBVIOUS
      <4>1. closing[s] /\ NoCleanup(s)
        BY <2>5, <3>5, <4>0 DEF GoneInv
      <4>2. ASSUME IsGone(s, k)' PROVE i = k
        <5>1. CASE s = q
          <6>1. IsGone(s, i + 1) /\ IsGone(s, k + 1)
            BY <2>5, <3>5, <4>2, <5>1
          <6>2. i + 1 = k + 1
            BY <4>0, <6>1 DEF GoneInv
          <6> QED BY <6>2
        <5>2. CASE s # q
          BY <2>5, <3>5, <4>2, <5>2 DEF GoneInv
        <5> QED BY <5>1, <5>2
      <4> QED BY <2>2, <3>1, <4>1, <4>2
    <3>6. \A s \in Sessions : cleaned'[s] => closing'[s]
      BY <2>2 DEF GoneInv
    <3>7. \A w \in PoolWorkers : job'[w] = "gone" => job[w] = "gone"
      BY <1>0, <2>2, <2>6 DEF Others
    <3>8. \A w \in PoolWorkers : job'[w] = "gone" => closing'[own'[w]]
      BY <2>2, <3>7 DEF GoneInv
    <3>9. Once
      BY <3>7
    <3> QED BY <3>3, <3>4, <3>5, <3>6, <3>8, <3>9 DEF GoneInv, NoCleanup, IsGone
  <2>7. CASE Head(todo[q]) = "gone"
    <3>1. IsGone(q, 1)
      BY <2>3, <2>7 DEF IsGone
    <3>2. closing[q] /\ NoCleanup(q) /\ \A k \in Nat : IsGone(q, k) => k = 1
      <4>1. 1 \in Nat
        OBVIOUS
      <4> QED BY <2>1, <3>1, <4>1 DEF GoneInv
    <3>3. \A i \in Nat : ~IsGone(q, i)'
      <4> SUFFICES ASSUME NEW i \in Nat, IsGone(q, i)' PROVE FALSE
        OBVIOUS
      <4>1. i # 0 /\ IsGone(q, i + 1) /\ i + 1 \in Nat
        BY <2>1, <2>5
      <4>2. i + 1 = 1
        BY <3>2, <4>1
      <4> QED BY <4>1, <4>2
    <3>4. \A s \in Sessions : s # q /\ NoCleanup(s) => NoCleanup(s)'
      BY <1>0, <2>2 DEF NoCleanup, Others
    <3>5. \A u \in Threads : pc'[u] = "handoff" => pc[u] = "handoff" /\ at'[u] = at[u] /\ at[u] # q
      <4> SUFFICES ASSUME NEW u \in Threads, pc'[u] = "handoff"
                   PROVE  pc[u] = "handoff" /\ at'[u] = at[u] /\ at[u] # q
        OBVIOUS
      <4>1. pc[u] = "handoff" /\ at'[u] = at[u]
        BY <1>0, <2>4 DEF Others
      <4>2. \A i \in Nat : ~IsGone(at[u], i)
        BY <4>1 DEF GoneInv
      <4>3. 1 \in Nat
        OBVIOUS
      <4> QED BY <3>1, <4>1, <4>2, <4>3
    <3>6. ASSUME NEW u \in Threads, pc'[u] = "handoff", NEW s, s = at'[u]
          PROVE  /\ s \in Sessions /\ closing'[s] /\ NoCleanup(s)' /\ \A i \in Nat : ~IsGone(s, i)'
      <4>1. s = at[u] /\ s \in Sessions /\ s # q
        BY <3>5, <3>6, AtSession
      <4>2. closing[s] /\ NoCleanup(s) /\ \A i \in Nat : ~IsGone(s, i)
        BY <3>5, <3>6, <4>1 DEF GoneInv
      <4> QED BY <2>2, <2>5, <3>4, <4>1, <4>2
    <3>7. ASSUME NEW u \in Threads, NEW v \in Threads, pc'[u] = "handoff", pc'[v] = "handoff",
                 at'[u] = at'[v]
          PROVE  u = v
      BY <3>5, <3>7 DEF GoneInv
    <3>8. ASSUME NEW s \in Sessions, NEW i \in Nat, NEW k \in Nat, IsGone(s, i)'
          PROVE  closing'[s] /\ NoCleanup(s)' /\ (IsGone(s, k)' => i = k)
      <4>1. s # q
        BY <3>3, <3>8
      <4>2. IsGone(s, i) /\ (IsGone(s, k)' => IsGone(s, k))
        BY <2>5, <3>8, <4>1
      <4>3. closing[s] /\ NoCleanup(s) /\ (IsGone(s, k) => i = k)
        BY <4>2 DEF GoneInv
      <4> QED BY <2>2, <3>4, <4>1, <4>2, <4>3
    <3>9. \A s \in Sessions : cleaned'[s] => closing'[s]
      BY <2>2 DEF GoneInv
    <3>10. \A w \in PoolWorkers : job'[w] = "gone" => job[w] = "gone" \/ w = t
      BY <1>0 DEF Others
    <3>11. \A w \in PoolWorkers : job'[w] = "gone" => closing'[own'[w]]
      BY <2>2, <3>2, <3>10 DEF GoneInv
    <3>12. Once
      BY <3>2, <3>10 DEF NoCleanup
    <3> QED BY <3>6, <3>7, <3>8, <3>9, <3>11, <3>12 DEF GoneInv, NoCleanup, IsGone
  <2> QED BY <2>6, <2>7
<1>6. CASE t \in PoolWorkers /\ Cleanup(t)
  <2>0. own[t] \in Sessions
    BY <1>0, <1>6 DEF Cleanup, PoolCtrl, Typed
  <2> PICK q \in Sessions : q = own[t]
    BY <2>0
  <2>1. q \in Sessions /\ job[t] = "gone"
    BY <1>0, <1>6 DEF Cleanup, PoolCtrl, Typed
  <2>2. /\ todo' = todo /\ job' = job /\ own' = own /\ at' = at /\ closing' = closing
        /\ cleaned' = [cleaned EXCEPT ![q] = TRUE] /\ pc'[t] # "handoff"
    BY <1>0, <1>6 DEF Cleanup, Goto, queueVars
  <2>3. ~NoCleanup(q) /\ closing[q]
    BY <1>6, <2>1 DEF NoCleanup, GoneInv
  <2>4. \A s \in Sessions : NoCleanup(s) => NoCleanup(s)'
    <3> SUFFICES ASSUME NEW s \in Sessions, NoCleanup(s) PROVE NoCleanup(s)'
      OBVIOUS
    <3>1. s # q
      BY <2>3
    <3> QED BY <2>1, <2>2, <3>1 DEF NoCleanup, Typed
  <2>5. \A s, i : IsGone(s, i)' <=> IsGone(s, i)
    BY <2>2 DEF IsGone
  <2>6. \A u \in Threads : pc'[u] = "handoff" => pc[u] = "handoff" /\ at'[u] = at[u]
    BY <1>0, <2>2 DEF Others
  <2>7. ASSUME NEW u \in Threads, pc'[u] = "handoff", NEW s, s = at'[u]
        PROVE  /\ s \in Sessions /\ closing'[s] /\ NoCleanup(s)' /\ \A i \in Nat : ~IsGone(s, i)'
    <3>1. s = at[u] /\ s \in Sessions
      BY <2>6, <2>7, AtSession
    <3>2. closing[s] /\ NoCleanup(s) /\ \A i \in Nat : ~IsGone(s, i)
      BY <2>6, <2>7, <3>1 DEF GoneInv
    <3> QED BY <2>2, <2>4, <2>5, <3>1, <3>2
  <2>8. ASSUME NEW u \in Threads, NEW v \in Threads, pc'[u] = "handoff", pc'[v] = "handoff",
               at'[u] = at'[v]
        PROVE  u = v
    BY <2>6, <2>8 DEF GoneInv
  <2>9. \A s \in Sessions, i, k \in Nat :
          IsGone(s, i)' => closing'[s] /\ NoCleanup(s)' /\ (IsGone(s, k)' => i = k)
    BY <2>2, <2>4, <2>5 DEF GoneInv
  <2>10. \A s \in Sessions : cleaned'[s] => closing'[s]
    BY <2>1, <2>2, <2>3 DEF GoneInv, Typed
  <2>11. \A w \in PoolWorkers : job'[w] = "gone" => closing'[own'[w]]
    BY <2>2 DEF GoneInv
  <2>12. Once
    BY <2>2
  <2> QED BY <2>7, <2>8, <2>9, <2>10, <2>11, <2>12 DEF GoneInv, NoCleanup, IsGone
<1> QED BY <1>1, <1>2, <1>3, <1>4, <1>5, <1>6, GoneStands

-----------------------------------------------------------------------------
(* The inductive invariant *)

SessionInv ==
    /\ Typed /\ CtrlInv /\ RightInv /\ EnterInv /\ ReadInv /\ SendInv /\ FreshInv
    /\ Counted /\ LiveInv /\ Buffers /\ GoneInv

LEMMA SessionInit == Init => SessionInv
<1> SUFFICES ASSUME Init PROVE SessionInv
  OBVIOUS
<1>1. Typed
  BY SessionLifeAssumption DEF Init, Typed
<1>2. CtrlInv
  BY ThreadKinds DEF Init, CtrlInv, PoolCtrl, IoCtrl, CloserCtrl, AcceptCtrl
<1>3. RightInv /\ EnterInv
  BY ThreadKinds DEF Init, RightInv, EnterInv
<1>4. ReadInv /\ SendInv
  BY DEF Init, ReadInv, SendInv
<1>5. FreshInv
  BY ThreadKinds DEF Init, FreshInv, Fresh
<1>6. Counted
  <2> SUFFICES ASSUME NEW s \in Sessions PROVE ioCount[s] = Holders(s)
    BY DEF Counted
  <2>1. Working(s) = {} /\ Touching(s) = {}
    BY ThreadKinds DEF Init, Working, Touching
  <2>2. Len(<<>>) = 0 /\ Cardinality({}) = 0
    BY FS_EmptySet
  <2>3. /\ ~recv[s] /\ send[s] # "posted" /\ ~scheduled[s] /\ ~Listed(s)
        /\ todo[s] = <<>> /\ ioCount[s] = 0
    BY DEF Init, Listed
  <2>4. /\ One(recv[s]) = 0 /\ One(send[s] = "posted") = 0 /\ One(scheduled[s]) = 0
        /\ One(Listed(s)) = 0
    BY <2>3 DEF One
  <2>5. Base(s) = 0
    BY <2>2, <2>3, <2>4 DEF Base
  <2>6. Holders(s) = 0 + 0 + 0
    BY <2>1, <2>2, <2>5, HoldersFinite
  <2> QED BY <2>3, <2>6
<1>7. LiveInv
  BY ThreadKinds DEF Init, LiveInv
<1>8. Buffers
  <2>1. QueuedFrames = {}
    <3>1. \A s \in Sessions : DOMAIN todo[s] = {}
      BY DEF Init
    <3> QED BY <3>1 DEF QueuedFrames
  <2>2. BufferUsers = {}
    BY DEF Init, BufferUsers
  <2>3. freeBufs = FramePool /\ FramePool \in Nat
    BY SessionLifeAssumption DEF Init
  <2> QED BY <2>1, <2>2, <2>3, FS_EmptySet DEF Buffers, FrameBuffersConserved
<1>9. GoneInv
  BY ThreadKinds DEF Init, GoneInv, IsGone
<1> QED BY <1>1, <1>2, <1>3, <1>4, <1>5, <1>6, <1>7, <1>8, <1>9 DEF SessionInv

LEMMA ThreadKeeps ==
    ASSUME SessionInv, Next, NEW t \in Threads, ThreadStep(t)
    PROVE  /\ SessionInv'
           /\ \A w \in PoolWorkers : job[w] # "gone" /\ job'[w] = "gone" => ~cleaned[own[w]]
<1> USE DEF SessionInv
<1>1. Typed'
  BY TypedStep
<1>2. CtrlInv'
  <2>1. \A w \in PoolWorkers : pc[w] = "release" /\ at[w] = own[w] => ioCount[at[w]] # 1
    BY NotLast
  <2> QED BY <2>1, Alone, CtrlStep, CtrlLocal
<1>3. RightInv' /\ EnterInv'
  BY RightStep, EnterStep
<1>4. ReadInv' /\ SendInv'
  BY ReadStep, SendStep
<1>5. FreshInv'
  BY FreshStep
<1>6. Counted'
  BY <1>1, CountStep
<1>7. LiveInv' /\ Buffers'
  BY LiveStep, BuffersStep
<1>8. /\ GoneInv'
      /\ \A w \in PoolWorkers : job[w] # "gone" /\ job'[w] = "gone" => ~cleaned[own[w]]
  BY GoneStep
<1> QED BY <1>1, <1>2, <1>3, <1>4, <1>5, <1>6, <1>7, <1>8

LEMMA MainKeeps ==
    ASSUME SessionInv, MainStep
    PROVE  SessionInv' /\ job' = job
<1> USE DEF SessionInv
<1>1. /\ UNCHANGED <<closing, recv, send, toSend, entered, roster, cleaned, ioCount,
                     queueVars, freeBufs, threadVars>>
      /\ \/ life' = life
         \/ /\ phase = "ioGone" /\ phase' = "cleared"
            /\ life' = [s \in Sessions |-> IF life[s] = "mapped" THEN "freed" ELSE life[s]]
      /\ phase' \in {"closed", "ioGone", "cleared"} =>
            phase \in {"closed", "ioGone", "cleared"} \/ pc[Acceptor] = "idle"
      /\ phase' # "cleared" => phase # "cleared" /\ life' = life
  <2>1. CASE Stop
    BY <2>1 DEF Stop, Advance, sessionVars
  <2>2. CASE CloseSockets
    BY <2>2 DEF CloseSockets, Advance, sessionVars
  <2>3. CASE StopPool
    BY <2>3 DEF StopPool, Advance, sessionVars
  <2>4. CASE ClearSessions
    BY <2>4 DEF ClearSessions
  <2>5. CASE UNCHANGED vars
    BY <2>5 DEF vars, sessionVars
  <2> QED BY <2>1, <2>2, <2>3, <2>4, <2>5 DEF MainStep
<1>2. UNCHANGED <<todo, scheduled, pc, at, own, job>>
  BY <1>1 DEF queueVars, threadVars
<1>3. Typed'
  <2>1. phase' \in {"up", "stopping", "closed", "ioGone", "cleared"}
    BY DEF MainStep, Stop, CloseSockets, StopPool, ClearSessions, Advance, vars, Typed
  <2>2. life' \in [Sessions -> {"absent", "mapped", "freed"}]
    BY <1>1 DEF Typed
  <2> QED BY <1>1, <1>2, <2>1, <2>2 DEF Typed
<1>4. CtrlInv'
  BY <1>2 DEF CtrlInv, PoolCtrl, IoCtrl, CloserCtrl, AcceptCtrl
<1>5. RightInv' /\ EnterInv' /\ ReadInv' /\ SendInv'
  BY <1>1, <1>2 DEF RightInv, EnterInv, ReadInv, SendInv
<1>6. FreshInv'
  <2>1. \A s \in Sessions : life'[s] = "absent" => life[s] = "absent"
    BY <1>1
  <2> QED BY <1>1, <1>2, <2>1 DEF FreshInv, Fresh
<1>7. Counted'
  <2>1. \A s \in Sessions : Holders(s)' = Holders(s)
    BY <1>1, <1>2 DEF Holders
  <2> QED BY <1>1, <2>1 DEF Counted
<1>8. LiveInv'
  BY <1>1, <1>2 DEF LiveInv
<1>9. Buffers'
  <2>1. QueuedFrames' = QueuedFrames /\ BufferUsers' = BufferUsers /\ freeBufs' = freeBufs
    BY <1>1, <1>2 DEF QueuedFrames, BufferUsers
  <2> QED BY <2>1 DEF Buffers, FrameBuffersConserved
<1>10. GoneInv'
  BY <1>1, <1>2 DEF GoneInv, NoCleanup, IsGone
<1> QED BY <1>2, <1>3, <1>4, <1>5, <1>6, <1>7, <1>8, <1>9, <1>10

LEMMA SessionNext ==
    ASSUME SessionInv, [Next]_vars
    PROVE  /\ SessionInv'
           /\ \A w \in PoolWorkers : job[w] # "gone" /\ job'[w] = "gone" => ~cleaned[own[w]]
<1>1. CASE MainStep
  BY <1>1, MainKeeps
<1>2. CASE Next /\ \E t \in Threads : ThreadStep(t)
  BY <1>2, ThreadKeeps
<1> QED BY <1>1, <1>2, Steps DEF MainStep

LEMMA SessionAlways == Spec => []SessionInv
BY SessionInit, SessionNext, PTL DEF Spec

-----------------------------------------------------------------------------
(* What follows *)

\* The counts are those of the holders, so they are never negative, and there are never
\* more free buffers than the pool has.
LEMMA InvTypes == SessionInv => TypeOK
<1> SUFFICES ASSUME SessionInv PROVE TypeOK
  OBVIOUS
<1>1. Typed /\ Counted /\ Buffers
  BY DEF SessionInv
<1>2. ioCount \in [Sessions -> Nat]
  <2>1. ASSUME NEW s \in Sessions PROVE ioCount[s] \in Nat
    <3>1. Cardinality(Working(s)) \in Nat /\ Cardinality(Touching(s)) \in Nat
      BY HoldersFinite, FS_CardinalityType
    <3>2. Base(s) \in Nat
      BY <1>1, BaseNat
    <3>3. ioCount[s] = Base(s) + Cardinality(Working(s)) + Cardinality(Touching(s))
      BY <1>1, HoldersFinite DEF Counted
    <3> QED BY <3>1, <3>2, <3>3
  <2> QED BY <1>1, <2>1 DEF Typed
<1>3. freeBufs \in 0..FramePool
  <2>1. IsFiniteSet(BufferUsers)
    <3>1. BufferUsers \subseteq PoolWorkers
      BY DEF BufferUsers
    <3> QED BY <3>1, SessionLifeAssumption, FS_Subset
  <2>2. Cardinality(QueuedFrames) \in Nat /\ Cardinality(BufferUsers) \in Nat
    BY <1>1, <2>1, FS_CardinalityType DEF Buffers
  <2> QED BY <1>1, <2>2, SessionLifeAssumption DEF Buffers, FrameBuffersConserved
<1> QED BY <1>1, <1>2, <1>3 DEF Typed, TypeOK

\* What is used is mapped: an absent session is unknown, and of a freed one nobody is left.
LEMMA InvMapped == SessionInv => NoUseAfterFree
<1> SUFFICES ASSUME SessionInv, phase # "cleared" PROVE NoUseAfterFree
  BY DEF NoUseAfterFree
<1>0. /\ Typed /\ CtrlInv /\ RightInv /\ FreshInv /\ Counted /\ LiveInv /\ NoSession \notin Sessions
      /\ Acceptor \in Threads
      /\ \A s \in Sessions : life[s] \in {"absent", "mapped", "freed"}
  BY ThreadKinds DEF SessionInv, Typed
<1>1. ASSUME NEW s \in Sessions, life[s] = "absent" PROVE Fresh(s) /\ at[Acceptor] # s
  BY <1>0, <1>1 DEF FreshInv
<1>2. ASSUME NEW s \in Sessions, life[s] = "freed" PROVE Unheld(s)
  BY <1>0, <1>2, ZeroUnheld DEF LiveInv
<1>3. ASSUME NEW s \in Sessions,
             recv[s] \/ send[s] = "posted" \/ roster[s] \/ scheduled[s] \/ todo[s] # <<>>
      PROVE  life[s] = "mapped"
  <2>1. ~Fresh(s) /\ ~Unheld(s)
    BY <1>3 DEF Fresh, Unheld
  <2> QED BY <1>0, <1>1, <1>2, <2>1
<1>4. ASSUME NEW t \in Threads, at[t] # NoSession, pc[t] # "remove" PROVE life[at[t]] = "mapped"
  <2>1. at[t] \in Sessions
    BY <1>0, <1>4 DEF Typed
  <2>2. CASE t = Acceptor
    <3>1. pc[Acceptor] \in {"post", "close", "handoff"}
      BY <1>0, <1>4, <2>2 DEF CtrlInv, AcceptCtrl
    <3> QED BY <1>0, <2>2, <3>1 DEF LiveInv
  <2>3. CASE t # Acceptor
    <3>1. life[at[t]] # "absent"
      BY <1>1, <2>1, <2>3 DEF Fresh
    <3>2. life[at[t]] # "freed"
      BY <1>2, <1>4, <2>1, <2>3 DEF Unheld
    <3> QED BY <1>0, <2>1, <3>1, <3>2
  <2> QED BY <2>2, <2>3
<1>5. ASSUME NEW w \in PoolWorkers, own[w] # NoSession PROVE life[own[w]] = "mapped"
  <2>1. own[w] \in Sessions /\ ~Fresh(own[w]) /\ ~Unheld(own[w])
    BY <1>0, <1>5 DEF Typed, Fresh, Unheld
  <2> QED BY <1>0, <1>1, <1>2, <2>1
<1> QED BY <1>3, <1>4, <1>5 DEF NoUseAfterFree

\* io_count is at any time the number of those who need the session - the kernel, the
\* queue, the roster, jobs and threads - and until stop() clears the sessions none of them
\* has one that is not in sessions_, so try_remove_session deletes only what nobody uses.
THEOREM HeldWhileUsedAlways == Spec => []HeldWhileUsed
<1>1. SessionInv => HoldsAccounted
  BY DEF SessionInv, Counted, HoldsAccounted
<1>2. SessionInv => HeldWhileUsed
  BY <1>1, InvTypes, InvMapped DEF HeldWhileUsed
<1> QED BY <1>2, SessionAlways, PTL

\* Each frame buffer is in the pool, with a queued frame, or with the job that handles one:
\* no path of drain_frames, the jobs or a session's cleanup loses one or gives one back twice.
THEOREM FrameBuffersConservedAlways == Spec => []FrameBuffersConserved
<1>1. SessionInv => FrameBuffersConserved
  BY DEF SessionInv, Buffers
<1> QED BY <1>1, SessionAlways, PTL

\* The cleanup job of a session, queued by the one thread whose closing.exchange found
\* FALSE, begins once at most.
THEOREM CleanupOnceAlways == Spec => CleanupOnce
<1>1. SessionInv /\ [Next]_vars
        => [\A w \in PoolWorkers :
              job[w] # "gone" /\ job'[w] = "gone" => ~cleaned[own[w]]]_vars
  BY SessionNext
<1> QED BY <1>1, SessionAlways, PTL DEF Spec, CleanupOnce
=============================================================================
