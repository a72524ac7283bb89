-------------------------- MODULE IocpServerProofs --------------------------
(***************************************************************************)
(* TLAPS proofs about two parts of IocpServer that share no state: the     *)
(* send path (SendPipe), for any finite sets of senders and I/O workers,   *)
(* any size of the queue, any limit of overflows and any bounds; and the   *)
(* idle sweep (IdleSweep), for any set of sessions, any limit, any width   *)
(* of the clock and any last value that fits into it.                      *)
(***************************************************************************)
EXTENDS SendPipe, IdleSweep, SequenceTheorems, FiniteSetTheorems, TLAPS

-----------------------------------------------------------------------------
(* The invariants of the send path *)

\* The right to send is in one place, and `sending' is up while it is anywhere.
RightInv ==
    /\ \A t, u \in Owners : t = u
    /\ Owners # {} => posted = <<>>
    /\ Len(posted) <= 1
    /\ Owners # {} \/ posted # <<>> => sending
    /\ sending => Owners # {} \/ posted # <<>> \/ "completion" \in failed

\* What the owner of the right is about to post is all that has not gone out; a
\* thread that gives the right back after a failure has noted it.
StreamInv ==
    /\ StreamInOrder
    /\ NothingStuck
    /\ \A t \in Threads :
          /\ pc[t] = "send" => batch[t] = Len(front) - sent
          /\ pc[t] = "undo" => "call" \in failed

Piped == TypeOK /\ RightInv /\ StreamInv

-----------------------------------------------------------------------------
(* Sequences *)

\* What is left of a sequence from a place on, cut again.
LEMMA CutRest ==
    ASSUME NEW S, NEW q \in Seq(S), NEW n \in 0..Len(q), NEW k \in 0..(Len(q) - n)
    PROVE  LET rest == SubSeq(q, n + 1, Len(q)) IN
           /\ rest \in Seq(S)
           /\ Len(rest) = Len(q) - n
           /\ SubSeq(rest, 1, k) = SubSeq(q, n + 1, n + k)
           /\ SubSeq(q, n + 1, n + k) \in Seq(S)
           /\ SubSeq(q, n + 1, n + k) \o SubSeq(q, n + k + 1, Len(q)) = rest
<1> DEFINE rest == SubSeq(q, n + 1, Len(q))
           cut == SubSeq(q, n + 1, n + k)
<1>1. Len(q) \in Nat /\ \A i \in 1..Len(q) : q[i] \in S
  BY LenProperties, ElementOfSeq
<1>2. /\ rest \in Seq(S)
      /\ Len(rest) = Len(q) - n
      /\ \A i \in 1..(Len(q) - n) : rest[i] = q[n + i]
  <2>1. \A i \in (n + 1)..Len(q) : q[i] \in S
    BY <1>1
  <2> QED BY <1>1, <2>1, SubSeqProperties
<1>3. /\ cut \in Seq(S)
      /\ Len(cut) = k
      /\ \A i \in 1..k : cut[i] = q[n + i]
  <2>1. \A i \in (n + 1)..(n + k) : q[i] \in S
    BY <1>1
  <2> QED BY <1>1, <2>1, SubSeqProperties
<1>4. SubSeq(rest, 1, k) = cut
  <2> HIDE DEF rest, cut
  <2>1. \A i \in 1..k : rest[i] \in S
    BY <1>1, <1>2, ElementOfSeq
  <2>2. /\ SubSeq(rest, 1, k) \in Seq(S)
        /\ Len(SubSeq(rest, 1, k)) = k
        /\ \A i \in 1..k : SubSeq(rest, 1, k)[i] = rest[i]
    BY <1>1, <2>1, SubSeqProperties
  <2>3. \A i \in 1..Len(SubSeq(rest, 1, k)) : SubSeq(rest, 1, k)[i] = cut[i]
    <3> TAKE i \in 1..Len(SubSeq(rest, 1, k))
    <3>1. i \in 1..k /\ i \in 1..(Len(q) - n)
      BY <1>1, <2>2
    <3> QED BY <3>1, <1>2, <1>3, <2>2
  <2>4. SubSeq(rest, 1, k) \in Seq(S) /\ Len(SubSeq(rest, 1, k)) = Len(cut)
    BY <1>3, <2>2
  <2> QED BY <1>3, <2>3, <2>4, SeqEqual
<1>5. cut \o SubSeq(q, n + k + 1, Len(q)) = rest
  <2>1. /\ n + 1 \in 1..(Len(q) + 1)
        /\ n + k \in ((n + 1) - 1)..Len(q)
        /\ Len(q) \in (n + k)..Len(q)
    BY <1>1
  <2> QED BY <2>1, ConcatAdjacentSubSeq
<1> QED BY <1>2, <1>3, <1>4, <1>5

LEMMA Regroup ==
    ASSUME NEW S, NEW p \in Seq(S), NEW q \in Seq(S), NEW r \in Seq(S)
    PROVE  (p \o q) \o r = p \o (q \o r)
BY ConcatAssociative, SMTT(60)

\* What has not gone out is a sequence, and it is empty exactly when all of
\* front has gone out.
LEMMA UnsentSeq ==
    ASSUME TypeOK
    PROVE  /\ Unsent \in Seq(Unit)
           /\ Len(Unsent) = Len(front) - sent
           /\ Unsent = <<>> <=> sent = Len(front)
<1>1. front \in Seq(Unit) /\ sent \in 0..Len(front) /\ Len(front) \in Nat
  BY LenProperties DEF TypeOK
<1>2. Unsent \in Seq(Unit) /\ Len(Unsent) = Len(front) - sent
  BY <1>1, CutRest DEF Unsent
<1> QED BY <1>1, <1>2, EmptySeq

-----------------------------------------------------------------------------
(* Types *)

LEMMA PipedInit == Init => Piped
<1> SUFFICES ASSUME Init PROVE Piped
  OBVIOUS
<1>1. <<>> \in Seq(Unit) /\ <<>> \in Seq(BOOLEAN) /\ <<>> \in Seq(Seq(Unit)) /\ Len(<<>>) = 0
  BY EmptySeq
<1>2. TypeOK
  <2>1. pc \in [Threads -> {"idle", "append", "kick", "post", "send", "undo", "close"}]
    BY DEF Init
  <2>2. msg \in [Threads -> Seq(Unit)] /\ batch \in [Threads -> Nat]
    BY <1>1 DEF Init
  <2>3. sent \in 0..Len(front) /\ issued \in 0..MaxMessages
    BY <1>1, SendPipeAssumption DEF Init
  <2> QED BY <1>1, <2>1, <2>2, <2>3 DEF Init, TypeOK
<1>3. Owners = {}
  BY DEF Init, Owners
<1>4. RightInv
  BY <1>1, <1>3 DEF Init, RightInv
<1>5. Unsent = <<>>
  BY <1>1, <1>2, UnsentSeq DEF Init
<1>6. <<>> \o <<>> \o <<>> = <<>>
  BY <1>1, ConcatEmptySeq
<1>7. StreamInOrder
  BY <1>5, <1>6 DEF Init, StreamInOrder
<1>8. NothingStuck
  BY <1>5 DEF Init, NothingStuck
<1>9. StreamInv
  BY <1>7, <1>8 DEF Init, StreamInv
<1> QED BY <1>2, <1>4, <1>9 DEF Piped

\* A message is a sequence of units.
LEMMA MessageTyped ==
    ASSUME NEW n \in 1..MaxMessages, NEW size \in 1..MaxSize
    PROVE  [i \in 1..size |-> <<n, i>>] \in Seq(Unit)
<1>1. \A i \in 1..size : <<n, i>> \in Unit
  BY SendPipeAssumption DEF Unit
<1>2. size \in Nat
  BY SendPipeAssumption
<1> QED BY <1>1, <1>2

\* Every label a step goes to is one.
LEMMA GotoTyped ==
    ASSUME TypeOK, NEW t \in Threads,
           NEW l \in {"idle", "append", "kick", "post", "send", "undo", "close"}, Goto(t, l)
    PROVE  pc' \in [Threads -> {"idle", "append", "kick", "post", "send", "undo", "close"}]
BY DEF TypeOK, Goto

\* What is left of posted without its i-th element.
LEMMA PostedLess ==
    ASSUME TypeOK, Len(posted) <= 1, NEW i \in DOMAIN posted
    PROVE  /\ i = 1 /\ posted # <<>> /\ posted[1] \in Seq(Unit)
           /\ SubSeq(posted, 1, i - 1) \o SubSeq(posted, i + 1, Len(posted)) = <<>>
<1>1. posted \in Seq(Seq(Unit)) /\ DOMAIN posted = 1..Len(posted) /\ Len(posted) \in Nat
  BY LenProperties DEF TypeOK
<1>2. i = 1 /\ Len(posted) = 1 /\ posted # <<>>
  BY <1>1, EmptySeq
<1>3. posted[1] \in Seq(Unit)
  BY <1>1, <1>2, ElementOfSeq
<1>4. SubSeq(posted, 1, i - 1) = <<>> /\ SubSeq(posted, i + 1, Len(posted)) = <<>>
  BY <1>2, SubSeqEmpty
<1>5. <<>> \o <<>> = <<>>
  BY ConcatEmptySeq, EmptySeq
<1> QED BY <1>2, <1>3, <1>4, <1>5

\* A completion is of no more than what has not gone out.
LEMMA CompletionFits ==
    ASSUME Piped, NEW i \in DOMAIN posted, NEW k \in Nat, k <= Len(posted[i])
    PROVE  i = 1 /\ posted[1] = Unsent /\ k \in 0..(Len(front) - sent)
<1>1. i = 1 /\ posted[i] = Unsent
  BY PostedLess DEF Piped, RightInv, StreamInv, StreamInOrder
<1>2. Len(Unsent) = Len(front) - sent
  BY UnsentSeq DEF Piped
<1> QED BY <1>1, <1>2

LEMMA SendStepTyped ==
    ASSUME TypeOK, NEW t \in Senders,
           SendStep(t) \/ \E size \in 1..MaxSize : Send(t, size)
    PROVE  TypeOK'
<1>0. t \in Threads
  BY DEF Threads
<1>1. ASSUME NEW size \in 1..MaxSize, Send(t, size) PROVE TypeOK'
  <2>1. CASE closing
    BY <1>1, <2>1, SendPipeAssumption DEF Send, TypeOK, bufferVars, socketVars
  <2>2. CASE ~closing
    <3>1. issued + 1 \in 1..MaxMessages
      BY <1>1, SendPipeAssumption DEF Send, TypeOK
    <3>2. [i \in 1..size |-> <<issued + 1, i>>] \in Seq(Unit)
      BY <3>1, MessageTyped
    <3>3. pc' \in [Threads -> {"idle", "append", "kick", "post", "send", "undo", "close"}]
      BY <1>0, <1>1, <2>2, GotoTyped DEF Send
    <3>4. msg' \in [Threads -> Seq(Unit)]
      BY <1>1, <2>2, <3>2, ZenonT(60) DEF Send, TypeOK
    <3> QED BY <1>1, <3>1, <3>3, <3>4, SMTT(60) DEF Send, TypeOK, bufferVars, socketVars
  <2> QED BY <2>1, <2>2
<1>2. <<>> \in Seq(Unit)
  BY EmptySeq
<1>3. CASE QueueMessage(t)
  <2>1. back' \in Seq(Unit) /\ accepted' \in Seq(Unit)
    BY <1>0, <1>3, ConcatProperties DEF QueueMessage, TypeOK
  <2>2. outcomes' \in Seq(BOOLEAN)
    BY <1>3, AppendProperties DEF QueueMessage, TypeOK
  <2>3. pc' \in [Threads -> {"idle", "append", "kick", "post", "send", "undo", "close"}]
    BY <1>0, <1>3, GotoTyped DEF QueueMessage
  <2>4. msg' \in [Threads -> Seq(Unit)]
    BY <1>2, <1>3 DEF QueueMessage, TypeOK
  <2> QED BY <1>3, <2>1, <2>2, <2>3, <2>4 DEF QueueMessage, TypeOK, socketVars
<1>4. CASE Overflow(t)
  <2>1. outcomes' \in Seq(BOOLEAN)
    BY <1>4, AppendProperties DEF Overflow, TypeOK
  <2>2. pc' \in [Threads -> {"idle", "append", "kick", "post", "send", "undo", "close"}]
    BY <1>0, <1>4, GotoTyped DEF Overflow, CallerDecides
  <2>3. msg' \in [Threads -> Seq(Unit)]
    BY <1>2, <1>4 DEF Overflow, TypeOK
  <2> QED BY <1>4, <2>1, <2>2, <2>3, SMTT(60) DEF Overflow, TypeOK, socketVars
<1>5. CASE Kick(t)
  <2>1. pc' \in [Threads -> {"idle", "append", "kick", "post", "send", "undo", "close"}]
    BY <1>0, <1>5, GotoTyped DEF Kick, CallerDecides
  <2> QED BY <1>5, <2>1, SMTT(60) DEF Kick, TypeOK, bufferVars, historyVars
<1> QED BY <1>1, <1>3, <1>4, <1>5 DEF SendStep

LEMMA PostStepTyped ==
    ASSUME TypeOK, StreamInv, NEW t \in Threads, PostStep(t)
    PROVE  TypeOK'
<1>0. <<>> \in Seq(Unit) /\ front \in Seq(Unit) /\ Len(front) \in Nat /\ Len(back) \in Nat
  BY EmptySeq, LenProperties DEF TypeOK
<1>1. pc' \in [Threads -> {"idle", "append", "kick", "post", "send", "undo", "close"}]
  BY GotoTyped DEF PostStep, Swap, WsaSend, WsaSendFails, Undo, Close, CallerDecides
<1>2. CASE Swap(t)
  <2>1. front' \in Seq(Unit) /\ back' \in Seq(Unit) /\ sent' \in 0..Len(front')
    <3>1. CASE Unsent = <<>>
      BY <1>0, <1>2, <3>1 DEF Swap, TypeOK
    <3>2. CASE Unsent # <<>>
      BY <1>0, <1>2, <3>2 DEF Swap, TypeOK
    <3> QED BY <3>1, <3>2
  <2>2. batch' \in [Threads -> Nat]
    <3>1. Len(front') - sent' \in Nat
      BY <2>1, LenProperties
    <3> QED BY <1>2, <3>1 DEF Swap, TypeOK
  <2>3. sending' \in BOOLEAN
    BY <1>2 DEF Swap, TypeOK
  <2> QED BY <1>1, <1>2, <2>1, <2>2, <2>3 DEF Swap, TypeOK, socketVars, historyVars
<1>3. CASE WsaSend(t)
  <2>1. SubSeq(front, sent + 1, sent + batch[t]) \in Seq(Unit)
    <3>1. batch[t] = Len(front) - sent
      BY <1>3 DEF WsaSend, StreamInv
    <3>2. SubSeq(front, sent + 1, sent + batch[t]) = Unsent
      BY <1>0, <3>1 DEF Unsent, TypeOK
    <3> QED BY <3>2, UnsentSeq
  <2>2. posted' \in Seq(Seq(Unit))
    BY <1>3, <2>1, AppendProperties DEF WsaSend, TypeOK
  <2> QED BY <1>1, <1>3, <2>2 DEF WsaSend, TypeOK, bufferVars, historyVars
<1>4. CASE WsaSendFails(t)
  BY <1>1, <1>4 DEF WsaSendFails, TypeOK, bufferVars, socketVars
<1>5. CASE Undo(t)
  BY <1>1, <1>5 DEF Undo, TypeOK, socketVars, historyVars
<1>6. CASE Close(t)
  BY <1>1, <1>6 DEF Close, TypeOK, bufferVars, historyVars
<1> QED BY <1>2, <1>3, <1>4, <1>5, <1>6 DEF PostStep

LEMMA CompletionTyped ==
    ASSUME Piped, NEW w \in IoWorkers, Completion(w) \/ RecvFails(w)
    PROVE  TypeOK'
<1>0. TypeOK /\ Len(posted) <= 1 /\ <<>> \in Seq(Seq(Unit)) /\ w \in Threads
  BY EmptySeq DEF Piped, RightInv, Threads
<1>1. ASSUME NEW i \in DOMAIN posted, NEW k \in 1..(MaxMessages * MaxSize), SendDone(w, i, k)
      PROVE  TypeOK'
  <2>1. k \in Nat /\ k <= Len(posted[i])
    BY <1>1, SendPipeAssumption DEF SendDone
  <2>2. i = 1 /\ posted[i] = Unsent /\ k \in 0..(Len(front) - sent)
    BY <2>1, CompletionFits
  <2>3. sent' \in 0..Len(front)
    BY <1>0, <1>1, <2>2, LenProperties DEF SendDone, TypeOK
  <2>4. SubSeq(posted[i], 1, k) \in Seq(Unit)
    <3>1. front \in Seq(Unit) /\ sent \in 0..Len(front)
      BY <1>0 DEF TypeOK
    <3>2. SubSeq(Unsent, 1, k) \in Seq(Unit)
      BY <2>2, <3>1, CutRest DEF Unsent
    <3> QED BY <2>2, <3>2
  <2>5. wire' \in Seq(Unit)
    BY <1>0, <1>1, <2>4, ConcatProperties DEF SendDone, TypeOK
  <2>6. posted' = <<>>
    BY <1>0, <1>1, PostedLess DEF SendDone
  <2>7. pc' \in [Threads -> {"idle", "append", "kick", "post", "send", "undo", "close"}]
    BY <1>0, <1>1, GotoTyped DEF SendDone
  <2> QED BY <1>0, <1>1, <2>3, <2>5, <2>6, <2>7 DEF SendDone, TypeOK
<1>2. ASSUME NEW i \in DOMAIN posted, SendError(w, i) PROVE TypeOK'
  <2>1. posted' = <<>>
    BY <1>0, <1>2, PostedLess DEF SendError
  <2>2. pc' \in [Threads -> {"idle", "append", "kick", "post", "send", "undo", "close"}]
    BY <1>0, <1>2, GotoTyped DEF SendError
  <2> QED BY <1>0, <1>2, <2>1, <2>2 DEF SendError, TypeOK, bufferVars
<1>3. CASE RecvFails(w)
  <2>1. pc' \in [Threads -> {"idle", "append", "kick", "post", "send", "undo", "close"}]
    BY <1>0, <1>3, GotoTyped DEF RecvFails
  <2> QED BY <1>0, <1>3, <2>1 DEF RecvFails, TypeOK, bufferVars, socketVars, historyVars
<1> QED BY <1>1, <1>2, <1>3 DEF Completion

LEMMA TypedStep == Piped /\ [Next]_vars => TypeOK'
<1> SUFFICES ASSUME Piped, [Next]_vars PROVE TypeOK'
  OBVIOUS
<1>1. CASE PeerResets
  BY <1>1 DEF PeerResets, Piped, TypeOK, bufferVars, historyVars, threadVars
<1>2. CASE UNCHANGED vars
  BY <1>2 DEF Piped, TypeOK, vars, bufferVars, socketVars, historyVars, threadVars
<1> QED BY <1>1, <1>2, SendStepTyped, PostStepTyped, CompletionTyped DEF Next, Piped

-----------------------------------------------------------------------------
(* The right to send *)

\* A thread has the right by where it is.
LEMMA OwnersMove ==
    ASSUME TypeOK, NEW t \in Threads, NEW l, Goto(t, l)
    PROVE  Owners' = IF l \in {"post", "send", "undo"} THEN Owners \cup {t} ELSE Owners \ {t}
BY DEF TypeOK, Goto, Owners

LEMMA SendStepRight ==
    ASSUME Piped, NEW t \in Senders,
           SendStep(t) \/ \E size \in 1..MaxSize : Send(t, size)
    PROVE  RightInv'
<1>0. t \in Threads /\ TypeOK /\ RightInv
  BY DEF Piped, Threads
<1>1. ASSUME NEW size \in 1..MaxSize, Send(t, size) PROVE RightInv'
  <2>1. Owners' = Owners
    <3>1. CASE closing
      BY <1>1, <3>1 DEF Send, Owners
    <3>2. CASE ~closing
      BY <1>0, <1>1, <3>2, OwnersMove DEF Send, Owners
    <3> QED BY <3>1, <3>2
  <2> QED BY <1>0, <1>1, <2>1 DEF Send, RightInv, bufferVars, socketVars
<1>2. CASE QueueMessage(t)
  <2>1. CASE sending
    <3>1. Owners' = Owners
      BY <1>0, <1>2, <2>1, OwnersMove DEF QueueMessage, Owners
    <3> QED BY <1>0, <1>2, <2>1, <3>1 DEF QueueMessage, RightInv, socketVars
  <2>2. CASE ~sending
    <3>1. Owners' = Owners \cup {t}
      BY <1>0, <1>2, <2>2, OwnersMove DEF QueueMessage
    <3>2. Owners = {} /\ posted = <<>>
      BY <1>0, <2>2 DEF RightInv
    <3> QED BY <1>0, <1>2, <3>1, <3>2 DEF QueueMessage, RightInv, socketVars
  <2> QED BY <2>1, <2>2
<1>3. CASE Overflow(t)
  <2>1. Owners' = Owners
    BY <1>0, <1>3, OwnersMove DEF Overflow, CallerDecides, Owners
  <2> QED BY <1>0, <1>3, <2>1 DEF Overflow, RightInv, socketVars
<1>4. CASE Kick(t)
  <2>1. Owners' = Owners
    BY <1>0, <1>4, OwnersMove DEF Kick, CallerDecides, Owners
  <2> QED BY <1>0, <1>4, <2>1 DEF Kick, RightInv, bufferVars, historyVars
<1> QED BY <1>1, <1>2, <1>3, <1>4 DEF SendStep

LEMMA PostStepRight ==
    ASSUME Piped, NEW t \in Threads, PostStep(t)
    PROVE  RightInv'
<1>0. TypeOK /\ RightInv
  BY DEF Piped
<1>1. CASE Swap(t)
  <2>1. t \in Owners /\ Owners \ {t} = {} /\ posted = <<>> /\ sending
    BY <1>0, <1>1 DEF Swap, Owners, RightInv
  <2>2. CASE Unsent = <<>> /\ back = <<>>
    <3>1. Owners' = {}
      BY <1>0, <1>1, <2>1, <2>2, OwnersMove DEF Swap
    <3> QED BY <1>0, <1>1, <2>1, <2>2, <3>1 DEF Swap, RightInv, socketVars, historyVars
  <2>3. CASE ~(Unsent = <<>> /\ back = <<>>)
    <3>1. Goto(t, "send") /\ sending' = sending /\ posted' = posted /\ failed' = failed
      BY <1>1, <2>3 DEF Swap, socketVars, historyVars
    <3>2. Owners' = Owners
      <4>1. Owners' = Owners \cup {t}
        BY <1>0, <3>1, OwnersMove
      <4> QED BY <2>1, <4>1
    <3> QED BY <1>0, <2>1, <3>1, <3>2 DEF RightInv
  <2> QED BY <2>2, <2>3
<1>2. CASE WsaSend(t)
  <2>1. t \in Owners /\ Owners \ {t} = {} /\ posted = <<>> /\ sending
    BY <1>0, <1>2 DEF WsaSend, Owners, RightInv
  <2>2. Owners' = {}
    BY <1>0, <1>2, <2>1, OwnersMove DEF WsaSend
  <2>3. Len(posted') = 1 /\ posted' # <<>>
    BY <1>2, <2>1 DEF WsaSend
  <2> QED BY <1>0, <1>2, <2>1, <2>2, <2>3 DEF WsaSend, RightInv, bufferVars, historyVars
<1>3. CASE WsaSendFails(t)
  <2>1. Owners' = Owners
    BY <1>0, <1>3, OwnersMove DEF WsaSendFails, Owners
  <2> QED BY <1>0, <1>3, <2>1 DEF WsaSendFails, RightInv, bufferVars, socketVars
<1>4. CASE Undo(t)
  <2>1. t \in Owners /\ Owners \ {t} = {} /\ posted = <<>>
    BY <1>0, <1>4 DEF Undo, Owners, RightInv
  <2>2. Owners' = {}
    BY <1>0, <1>4, <2>1, OwnersMove DEF Undo, CallerDecides
  <2> QED BY <1>0, <1>4, <2>1, <2>2 DEF Undo, RightInv, socketVars, historyVars
<1>5. CASE Close(t)
  <2>1. Owners' = Owners
    BY <1>0, <1>5, OwnersMove DEF Close, Owners
  <2> QED BY <1>0, <1>5, <2>1 DEF Close, RightInv, bufferVars, historyVars
<1> QED BY <1>1, <1>2, <1>3, <1>4, <1>5 DEF PostStep

\* A completion hands the right from the kernel to the worker that gets it.
LEMMA CompletionRight ==
    ASSUME Piped, NEW w \in IoWorkers, Completion(w) \/ RecvFails(w)
    PROVE  RightInv'
<1>0. TypeOK /\ RightInv /\ Len(posted) <= 1 /\ w \in Threads
  BY DEF Piped, RightInv, Threads
<1>1. ASSUME NEW i \in DOMAIN posted, NEW k \in 1..(MaxMessages * MaxSize), SendDone(w, i, k)
      PROVE  RightInv'
  <2>1. posted # <<>> /\ posted' = <<>> /\ Len(posted') = 0
    BY <1>0, <1>1, PostedLess, EmptySeq DEF SendDone
  <2>2. Owners = {} /\ sending
    BY <1>0, <2>1 DEF RightInv
  <2>3. Owners' = {w}
    BY <1>0, <1>1, <2>2, OwnersMove DEF SendDone
  <2> QED BY <1>0, <1>1, <2>1, <2>2, <2>3 DEF SendDone, RightInv
<1>2. ASSUME NEW i \in DOMAIN posted, SendError(w, i) PROVE RightInv'
  <2>1. posted # <<>> /\ posted' = <<>> /\ Len(posted') = 0
    BY <1>0, <1>2, PostedLess, EmptySeq DEF SendError
  <2>2. Owners = {}
    BY <1>0, <2>1 DEF RightInv
  <2>3. Owners' = {}
    BY <1>0, <1>2, <2>2, OwnersMove DEF SendError
  <2> QED BY <1>0, <1>2, <2>1, <2>3 DEF SendError, RightInv, bufferVars
<1>3. CASE RecvFails(w)
  <2>1. Owners' = Owners
    BY <1>0, <1>3, OwnersMove DEF RecvFails, Owners
  <2> QED BY <1>0, <1>3, <2>1 DEF RecvFails, RightInv, bufferVars, socketVars, historyVars
<1> QED BY <1>1, <1>2, <1>3 DEF Completion

LEMMA RightStep == Piped /\ [Next]_vars => RightInv'
<1> SUFFICES ASSUME Piped, [Next]_vars PROVE RightInv'
  OBVIOUS
<1>1. CASE PeerResets
  BY <1>1 DEF PeerResets, Piped, RightInv, Owners, bufferVars, historyVars, threadVars
<1>2. CASE UNCHANGED vars
  BY <1>2 DEF Piped, RightInv, Owners, vars, bufferVars, socketVars, historyVars, threadVars
<1> QED BY <1>1, <1>2, SendStepRight, PostStepRight, CompletionRight DEF Next

-----------------------------------------------------------------------------
(* The stream *)

\* Steps that touch neither the buffers nor what they are compared with.
LEMMA StreamKept ==
    ASSUME Piped, UNCHANGED <<front, back, sent, accepted, wire, batch>>,
           posted' \in {posted, <<>>}, failed \subseteq failed',
           sending' # sending => "call" \in failed',
           \A t \in Threads :
              /\ pc'[t] = "send" => pc[t] = "send"
              /\ pc'[t] = "undo" => pc[t] = "undo" \/ "call" \in failed'
    PROVE  StreamInv'
<1>1. Unsent' = Unsent
  BY DEF Unsent
<1>2. StreamInOrder'
  <2>1. CASE posted' = posted
    BY <1>1, <2>1 DEF Piped, StreamInv, StreamInOrder
  <2>2. CASE posted' = <<>>
    BY <1>1, <2>2 DEF Piped, StreamInv, StreamInOrder
  <2> QED BY <2>1, <2>2
<1>3. NothingStuck'
  BY <1>1 DEF Piped, StreamInv, NothingStuck
<1> QED BY <1>2, <1>3 DEF Piped, StreamInv

LEMMA SendStepStream ==
    ASSUME Piped, NEW t \in Senders,
           SendStep(t) \/ \E size \in 1..MaxSize : Send(t, size)
    PROVE  StreamInv'
<1>0. t \in Threads /\ TypeOK /\ StreamInv
  BY DEF Piped, Threads
<1>1. ASSUME NEW size \in 1..MaxSize, Send(t, size) PROVE StreamInv'
  BY <1>0, <1>1, StreamKept DEF Send, Goto, TypeOK, bufferVars, socketVars
<1>2. CASE QueueMessage(t)
  <2>1. Unsent' = Unsent /\ Unsent \in Seq(Unit) /\ back \in Seq(Unit) /\ wire \in Seq(Unit)
        /\ msg[t] \in Seq(Unit)
    BY <1>0, <1>2, UnsentSeq DEF QueueMessage, Unsent, TypeOK
  <2>2. ((wire \o Unsent) \o back) \o msg[t] = (wire \o Unsent) \o (back \o msg[t])
    <3> DEFINE out == wire \o Unsent
               more == msg[t]
    <3>1. out \in Seq(Unit) /\ back \in Seq(Unit) /\ more \in Seq(Unit)
      BY <2>1, ConcatProperties
    <3> HIDE DEF out, more
    <3>2. (out \o back) \o more = out \o (back \o more)
      BY <3>1, Regroup, SMTT(60)
    <3> QED BY <3>2 DEF out, more
  <2>3. accepted' = wire' \o Unsent' \o back'
    BY <1>0, <1>2, <2>1, <2>2 DEF QueueMessage, StreamInv, StreamInOrder
  <2>4. StreamInOrder'
    BY <1>0, <1>2, <2>1, <2>3 DEF QueueMessage, StreamInv, StreamInOrder, socketVars
  <2>5. NothingStuck'
    BY <1>2 DEF QueueMessage, NothingStuck
  <2> QED BY <1>0, <1>2, <2>4, <2>5 DEF QueueMessage, Goto, TypeOK, StreamInv
<1>3. CASE Overflow(t)
  BY <1>0, <1>3, StreamKept DEF Overflow, CallerDecides, Goto, TypeOK, socketVars
<1>4. CASE Kick(t)
  BY <1>0, <1>4, StreamKept DEF Kick, CallerDecides, Goto, TypeOK, bufferVars, historyVars
<1> QED BY <1>1, <1>2, <1>3, <1>4 DEF SendStep

LEMMA SwapStream ==
    ASSUME Piped, NEW t \in Threads, Swap(t)
    PROVE  StreamInv'
<1>0. TypeOK /\ StreamInv /\ RightInv
  BY DEF Piped
<1>1. /\ posted = <<>> /\ posted' = <<>> /\ DOMAIN posted' = {}
      /\ \A u \in Threads \ {t} : pc[u] # "send"
  BY <1>0 DEF Swap, RightInv, Owners, socketVars
<1>2. wire \in Seq(Unit) /\ Unsent \in Seq(Unit) /\ back \in Seq(Unit) /\ <<>> \in Seq(Unit)
  BY <1>0, UnsentSeq, EmptySeq DEF TypeOK
<1>3. CASE Unsent = <<>>
  <2>1. front' = back /\ back' = <<>> /\ sent' = 0
    BY <1>3 DEF Swap
  <2>2. Unsent' = back
    BY <1>2, <2>1, SubSeqFull DEF Unsent
  <2>3. (wire \o <<>>) \o back = (wire \o back) \o <<>>
    BY <1>2, ConcatEmptySeq, ConcatProperties
  <2>4. StreamInOrder'
    BY <1>0, <1>1, <1>3, <2>1, <2>2, <2>3 DEF Swap, StreamInv, StreamInOrder, historyVars
  <2>5. NothingStuck'
    BY <1>0, <1>3, <2>1, <2>2 DEF Swap, StreamInv, NothingStuck, RightInv, Owners
  <2> QED BY <1>0, <1>1, <1>3, <2>1, <2>4, <2>5, SMTT(60)
        DEF Swap, Goto, TypeOK, StreamInv, historyVars
<1>4. CASE Unsent # <<>>
  <2>1. UNCHANGED <<front, back, sent, sending, accepted, wire, failed>> /\ Unsent' = Unsent
    BY <1>4 DEF Swap, Unsent, historyVars
  <2>2. StreamInOrder' /\ NothingStuck'
    BY <1>0, <1>1, <2>1 DEF StreamInv, StreamInOrder, NothingStuck
  <2> QED BY <1>0, <1>1, <1>4, <2>1, <2>2, SMTT(60) DEF Swap, Goto, TypeOK, StreamInv
<1> QED BY <1>3, <1>4

LEMMA PostStepStream ==
    ASSUME Piped, NEW t \in Threads, PostStep(t)
    PROVE  StreamInv'
<1>0. TypeOK /\ StreamInv /\ RightInv
  BY DEF Piped
<1>1. CASE WsaSend(t)
  <2>1. posted = <<>> /\ batch[t] = Len(front) - sent
    BY <1>0, <1>1 DEF WsaSend, RightInv, StreamInv, Owners
  <2>2. SubSeq(front, sent + 1, sent + batch[t]) = Unsent
    <3>1. sent + batch[t] = Len(front)
      BY <1>0, <2>1, LenProperties DEF TypeOK
    <3> QED BY <3>1 DEF Unsent
  <2>3. DOMAIN posted' = {1} /\ posted'[1] = Unsent /\ Unsent' = Unsent
    <3>1. posted' = Append(<<>>, Unsent)
      BY <1>1, <2>1, <2>2 DEF WsaSend
    <3>2. posted' = <<Unsent>>
      BY <3>1
    <3>3. Unsent' = Unsent
      BY <1>1 DEF WsaSend, Unsent, bufferVars
    <3> QED BY <3>2, <3>3
  <2>4. StreamInOrder' /\ NothingStuck'
    BY <1>0, <1>1, <2>3
       DEF WsaSend, StreamInv, StreamInOrder, NothingStuck, bufferVars, historyVars
  <2> QED BY <1>0, <1>1, <2>4 DEF WsaSend, Goto, TypeOK, StreamInv, bufferVars, historyVars
<1>2. CASE WsaSendFails(t)
  BY <1>0, <1>2, StreamKept DEF WsaSendFails, Goto, TypeOK, bufferVars, socketVars
<1>3. CASE Undo(t)
  BY <1>0, <1>3, StreamKept
     DEF Undo, CallerDecides, Goto, TypeOK, StreamInv, socketVars, historyVars
<1>4. CASE Close(t)
  BY <1>0, <1>4, StreamKept DEF Close, Goto, TypeOK, bufferVars, historyVars
<1> QED BY <1>1, <1>2, <1>3, <1>4, SwapStream DEF PostStep

LEMMA CompletionStream ==
    ASSUME Piped, NEW w \in IoWorkers, Completion(w) \/ RecvFails(w)
    PROVE  StreamInv'
<1>0. TypeOK /\ StreamInv /\ RightInv /\ Len(posted) <= 1 /\ w \in Threads
  BY DEF Piped, RightInv, Threads
<1>1. ASSUME NEW i \in DOMAIN posted, NEW k \in 1..(MaxMessages * MaxSize), SendDone(w, i, k)
      PROVE  StreamInv'
  <2> DEFINE gone == SubSeq(front, sent + 1, sent + k)
  <2>1. k \in Nat /\ k <= Len(posted[i])
    BY <1>1, SendPipeAssumption DEF SendDone
  <2>2. i = 1 /\ posted[i] = Unsent /\ k \in 0..(Len(front) - sent)
    BY <2>1, CompletionFits
  <2>3. /\ posted # <<>> /\ posted' = <<>> /\ DOMAIN posted' = {}
        /\ \A u \in Threads : pc[u] # "send" /\ pc[u] # "undo"
    <3>1. posted # <<>> /\ posted' = <<>>
      BY <1>0, <1>1, PostedLess DEF SendDone
    <3> QED BY <1>0, <3>1 DEF RightInv, Owners
  <2>4. sending
    BY <1>0, <2>3 DEF RightInv
  <2>5. Unsent' = SubSeq(front, sent + k + 1, Len(front))
    BY <1>1 DEF SendDone, Unsent
  <2>6. /\ SubSeq(Unsent, 1, k) = gone /\ gone \in Seq(Unit)
        /\ gone \o Unsent' = Unsent
    <3>1. front \in Seq(Unit) /\ sent \in 0..Len(front)
      BY <1>0 DEF TypeOK
    <3>2. /\ SubSeq(Unsent, 1, k) = gone /\ gone \in Seq(Unit)
          /\ gone \o SubSeq(front, sent + k + 1, Len(front)) = Unsent
      BY <2>2, <3>1, CutRest DEF Unsent
    <3> QED BY <2>5, <3>2
  <2>7. Unsent' \in Seq(Unit) /\ wire \in Seq(Unit)
    <3>1. sent + k \in 0..Len(front) /\ 0 \in 0..(Len(front) - (sent + k)) /\ front \in Seq(Unit)
      BY <1>0, <2>2, LenProperties DEF TypeOK
    <3>2. SubSeq(front, sent + k + 1, Len(front)) \in Seq(Unit)
      BY <3>1, CutRest
    <3> QED BY <1>0, <2>5, <3>2 DEF TypeOK
  <2>8. (wire \o gone) \o Unsent' = wire \o (gone \o Unsent')
    <3> DEFINE left == Unsent'
    <3>1. gone \in Seq(Unit) /\ left \in Seq(Unit) /\ wire \in Seq(Unit)
      BY <2>6, <2>7
    <3> HIDE DEF gone, left
    <3>2. (wire \o gone) \o left = wire \o (gone \o left)
      BY <3>1, Regroup, SMTT(60)
    <3> QED BY <3>2 DEF left
  <2>9. accepted' = wire' \o Unsent' \o back'
    BY <1>0, <1>1, <2>2, <2>6, <2>8 DEF SendDone, StreamInv, StreamInOrder
  <2>10. StreamInOrder' /\ NothingStuck'
    BY <1>1, <2>3, <2>4, <2>9 DEF SendDone, StreamInOrder, NothingStuck
  <2> QED BY <1>0, <1>1, <2>3, <2>10 DEF SendDone, Goto, TypeOK, StreamInv
<1>2. ASSUME NEW i \in DOMAIN posted, SendError(w, i) PROVE StreamInv'
  <2>1. posted' = <<>>
    BY <1>0, <1>2, PostedLess DEF SendError
  <2> QED BY <1>0, <1>2, <2>1, StreamKept DEF SendError, Goto, TypeOK, bufferVars
<1>3. CASE RecvFails(w)
  BY <1>0, <1>3, StreamKept
     DEF RecvFails, Goto, TypeOK, bufferVars, socketVars, historyVars
<1> QED BY <1>1, <1>2, <1>3 DEF Completion

LEMMA StreamStep == Piped /\ [Next]_vars => StreamInv'
<1> SUFFICES ASSUME Piped, [Next]_vars PROVE StreamInv'
  OBVIOUS
<1>1. CASE PeerResets
  BY <1>1, StreamKept DEF PeerResets, bufferVars, historyVars, threadVars
<1>2. CASE UNCHANGED vars
  BY <1>2, StreamKept DEF vars, bufferVars, socketVars, historyVars, threadVars
<1> QED BY <1>1, <1>2, SendStepStream, PostStepStream, CompletionStream DEF Next

LEMMA PipedStep == Piped /\ [Next]_vars => Piped'
BY TypedStep, RightStep, StreamStep DEF Piped

LEMMA PipedAlways == Spec => []Piped
BY PipedInit, PipedStep, PTL DEF Spec

-----------------------------------------------------------------------------
(* Theorems of the right and of the stream *)

\* For any senders and workers there is never more than one WSASend of a session,
\* and `sending' is up while and, but for an error completion, only while somebody
\* owns the right to send (session.h:132-138, iocp_server.cpp:918-926).
THEOREM OneSendAtATimeAlways == Spec => []OneSendAtATime
<1>1. Piped => OneSendAtATime
  <2> SUFFICES ASSUME Piped PROVE OneSendAtATime
    OBVIOUS
  <2>1. Len(posted) \in Nat /\ (posted = <<>> <=> Len(posted) = 0)
    BY LenProperties, EmptySeq DEF Piped, TypeOK
  <2>2. CASE Owners = {}
    <3>1. Cardinality(Owners) = 0
      BY <2>2, FS_EmptySet
    <3> QED BY <2>1, <2>2, <3>1 DEF Piped, RightInv, OneSendAtATime
  <2>3. CASE Owners # {}
    <3>1. PICK t : t \in Owners
      BY <2>3
    <3>2. Owners = {t}
      BY <3>1 DEF Piped, RightInv
    <3>3. Cardinality(Owners) = 1
      BY <3>2, FS_Singleton
    <3> QED BY <2>1, <2>3, <3>3 DEF Piped, RightInv, OneSendAtATime
  <2> QED BY <2>2, <2>3
<1> QED BY <1>1, PipedAlways, PTL

\* However calls, completions of a part and swaps of the two buffers interleave,
\* what the peer was sent and the two buffers together are what was accepted, in
\* order; and nothing accepted stays behind in a buffer that nobody sends
\* (iocp_server.cpp:916-960).
THEOREM StreamWholeAlways == Spec => []StreamWhole
<1>1. Piped => StreamWhole
  BY DEF Piped, StreamInv, StreamWhole
<1> QED BY <1>1, PipedAlways, PTL

-----------------------------------------------------------------------------
(* Runs of dropped messages *)

Kickers == {t \in Threads : pc[t] = "kick"}

\* The streak is the length of the run of drops the outcomes end with.
StreakInv ==
    LET n == Len(outcomes) IN
    /\ streak <= n
    /\ \A j \in (n - streak + 1)..n : ~outcomes[j]
    /\ streak < n => outcomes[n - streak]

KickInv == TypeOK /\ StreakInv /\ KickPerRun

LEMMA KickersFinite == IsFiniteSet(Kickers)
<1>1. IsFiniteSet(Threads)
  BY SendPipeAssumption, FS_Union DEF Threads
<1>2. Kickers \subseteq Threads
  BY DEF Kickers
<1> QED BY <1>1, <1>2, FS_Subset

LEMMA RunsFinite == ASSUME TypeOK PROVE IsFiniteSet(Runs)
<1>1. Len(outcomes) \in Nat /\ Limit \in Nat
  BY SendPipeAssumption, LenProperties DEF TypeOK
<1>2. IsFiniteSet(Limit..Len(outcomes))
  BY <1>1, FS_Interval
<1>3. Runs \subseteq Limit..Len(outcomes)
  BY DEF Runs
<1> QED BY <1>2, <1>3, FS_Subset

LEMMA KickInit == Init => KickInv
<1> SUFFICES ASSUME Init PROVE KickInv
  OBVIOUS
<1>1. Len(outcomes) = 0 /\ streak = 0 /\ kicked = 0
  BY EmptySeq DEF Init
<1>2. StreakInv
  BY <1>1 DEF StreakInv
<1>3. ASSUME Limit > 0 PROVE Runs = {}
  BY <1>1, <1>3, SendPipeAssumption DEF Runs
<1>4. Kickers = {}
  BY DEF Init, Kickers
<1>5. KickPerRun
  BY <1>1, <1>3, <1>4, FS_EmptySet DEF KickPerRun, Kickers
<1> QED BY <1>2, <1>5, PipedInit DEF KickInv, Piped

\* The outcomes after one more.
LEMMA OneMoreOutcome ==
    ASSUME TypeOK, NEW b \in BOOLEAN, outcomes' = Append(outcomes, b)
    PROVE  /\ Len(outcomes) \in Nat /\ Len(outcomes') = Len(outcomes) + 1
           /\ \A j \in 1..Len(outcomes) : outcomes'[j] = outcomes[j]
           /\ outcomes'[Len(outcomes) + 1] = b
BY LenProperties, AppendProperties DEF TypeOK

\* An accepted message ends no run of drops.
LEMMA AcceptedRuns ==
    ASSUME TypeOK, Limit > 0, outcomes' = Append(outcomes, TRUE)
    PROVE  Runs' = Runs
<1> DEFINE n == Len(outcomes)
<1>1. /\ n \in Nat /\ Limit \in Nat /\ Len(outcomes') = n + 1
      /\ \A j \in 1..n : outcomes'[j] = outcomes[j]
      /\ outcomes'[n + 1]
  BY OneMoreOutcome, SendPipeAssumption
<1>2. ASSUME NEW i \in Runs' PROVE i \in Runs
  <2>1. i \in Limit..(n + 1) /\ ~outcomes'[i]
    BY <1>1 DEF Runs
  <2>2. i \in Limit..n
    BY <1>1, <2>1
  <2> QED BY <1>1, <2>2 DEF Runs
<1>3. ASSUME NEW i \in Runs PROVE i \in Runs'
  <2>1. i \in Limit..n
    BY DEF Runs
  <2> QED BY <1>1, <2>1 DEF Runs
<1> QED BY <1>2, <1>3

\* A dropped message ends a run exactly when the streak reaches the limit with it.
LEMMA DroppedRuns ==
    ASSUME TypeOK, StreakInv, Limit > 0, outcomes' = Append(outcomes, FALSE)
    PROVE  Runs' = IF streak + 1 = Limit THEN Runs \cup {Len(outcomes) + 1} ELSE Runs
<1> DEFINE n == Len(outcomes)
<1>1. /\ n \in Nat /\ Limit \in Nat /\ streak \in Nat /\ Len(outcomes') = n + 1
      /\ \A j \in 1..n : outcomes'[j] = outcomes[j]
      /\ ~outcomes'[n + 1]
  BY OneMoreOutcome, SendPipeAssumption DEF TypeOK
<1>2. /\ streak <= n
      /\ \A j \in (n - streak + 1)..n : ~outcomes[j]
      /\ streak < n => outcomes[n - streak]
  BY DEF StreakInv
<1> HIDE DEF n
<1>3. ASSUME NEW i, i # n + 1 PROVE i \in Runs' <=> i \in Runs
  <2>1. i \in Limit..(n + 1) <=> i \in Limit..n
    BY <1>1, <1>3
  <2>2. ASSUME i \in Limit..n
        PROVE  /\ \A j \in (i - Limit + 1)..i : outcomes'[j] = outcomes[j]
               /\ i > Limit => outcomes'[i - Limit] = outcomes[i - Limit]
    <3>1. i \in Int /\ Limit <= i /\ i <= n
      BY <1>1, <2>2
    <3>2. (i - Limit + 1)..i \subseteq 1..n
      BY <1>1, <3>1
    <3>3. i > Limit => i - Limit \in 1..n
      BY <1>1, <3>1
    <3> QED BY <1>1, <3>2, <3>3
  <2> QED BY <1>1, <2>1, <2>2 DEF Runs, n
<1>4. ASSUME NEW k, k = n + 1
      PROVE  k \in Runs' <=>
               /\ Limit <= k
               /\ \A j \in (k - Limit + 1)..k : ~outcomes'[j]
               /\ k > Limit => outcomes'[k - Limit]
  <2>1. k \in Limit..Len(outcomes') <=> Limit <= k
    BY <1>1, <1>4
  <2>2. k \in Runs' <=>
          /\ k \in Limit..Len(outcomes')
          /\ \A j \in (k - Limit + 1)..k : ~outcomes'[j]
          /\ k > Limit => outcomes'[k - Limit]
    BY DEF Runs
  <2> QED BY <2>1, <2>2
<1>5. CASE streak + 1 = Limit
  <2>1. \A j \in (n + 1 - Limit + 1)..(n + 1) : ~outcomes'[j]
    <3> TAKE j \in (n + 1 - Limit + 1)..(n + 1)
    <3>1. j = n + 1 \/ (j \in (n - streak + 1)..n /\ j \in 1..n)
      BY <1>1, <1>2, <1>5
    <3> QED BY <1>1, <1>2, <3>1
  <2>2. n + 1 > Limit => outcomes'[n + 1 - Limit]
    <3> SUFFICES ASSUME n + 1 > Limit PROVE outcomes'[n + 1 - Limit]
      OBVIOUS
    <3>1. streak < n /\ n + 1 - Limit = n - streak /\ n - streak \in 1..n
      BY <1>1, <1>5
    <3> QED BY <1>1, <1>2, <3>1
  <2>3. n + 1 \in Runs'
    BY <1>1, <1>2, <1>4, <1>5, <2>1, <2>2
  <2> QED BY <1>3, <1>5, <2>3 DEF n
<1>6. CASE streak + 1 # Limit
  <2>1. n + 1 \notin Runs'
    <3> SUFFICES ASSUME NEW k, k = n + 1, k \in Runs' PROVE FALSE
      OBVIOUS
    <3>0. /\ Limit <= k
          /\ \A j \in (k - Limit + 1)..k : ~outcomes'[j]
          /\ k > Limit => outcomes'[k - Limit]
      BY <1>4
    <3>1. CASE streak + 1 < Limit
      <4>1. streak < n /\ n - streak \in 1..n /\ n - streak \in (k - Limit + 1)..k
        BY <1>1, <3>0, <3>1
      <4>2. ~outcomes'[n - streak]
        BY <3>0, <4>1
      <4>3. outcomes'[n - streak] = outcomes[n - streak]
        BY <1>1, <4>1
      <4> QED BY <1>2, <4>1, <4>2, <4>3
    <3>2. CASE streak + 1 > Limit
      <4>1. k > Limit /\ k - Limit \in 1..n /\ k - Limit \in (n - streak + 1)..n
        BY <1>1, <1>2, <3>2
      <4>2. outcomes'[k - Limit] = outcomes[k - Limit]
        BY <1>1, <4>1
      <4> QED BY <1>2, <3>0, <4>1, <4>2
    <3> QED BY <1>1, <1>6, <3>1, <3>2
  <2>2. n + 1 \notin Runs
    BY <1>1 DEF Runs, n
  <2> QED BY <1>3, <1>6, <2>1, <2>2
<1> QED BY <1>5, <1>6

\* Steps that neither end a call nor begin or end a kick.
LEMMA KickKept ==
    ASSUME KickInv, UNCHANGED <<streak, outcomes, kicked>>, Kickers' = Kickers
    PROVE  StreakInv' /\ KickPerRun'
<1>1. Runs' = Runs
  BY DEF Runs
<1> QED BY <1>1 DEF KickInv, StreakInv, KickPerRun, Kickers

\* A thread is about to kick by where it is.
LEMMA KickersMove ==
    ASSUME TypeOK, NEW t \in Threads, NEW l, Goto(t, l)
    PROVE  Kickers' = IF l = "kick" THEN Kickers \cup {t} ELSE Kickers \ {t}
BY DEF TypeOK, Goto, Kickers

LEMMA QueueMessageKick ==
    ASSUME KickInv, NEW t \in Senders, QueueMessage(t)
    PROVE  StreakInv' /\ KickPerRun'
<1>1. /\ TypeOK /\ t \in Threads /\ outcomes' = Append(outcomes, TRUE)
      /\ streak' = 0 /\ kicked' = kicked
  BY DEF KickInv, QueueMessage, Threads, socketVars
<1>2. Kickers' = Kickers
  BY <1>1, KickersMove DEF QueueMessage, Kickers
<1>3. StreakInv'
  BY <1>1, OneMoreOutcome DEF StreakInv
<1>4. KickPerRun'
  BY <1>1, <1>2, AcceptedRuns DEF KickInv, KickPerRun, Kickers
<1> QED BY <1>3, <1>4

\* The thread whose drop makes the streak as long as the limit is to kick, and the
\* drop ends a run.
LEMMA OverflowKick ==
    ASSUME KickInv, NEW t \in Senders, Overflow(t)
    PROVE  StreakInv' /\ KickPerRun'
<1> DEFINE n == Len(outcomes)
<1>1. /\ TypeOK /\ t \in Threads /\ t \notin Kickers
      /\ outcomes' = Append(outcomes, FALSE) /\ streak' = streak + 1 /\ kicked' = kicked
  BY DEF KickInv, Overflow, Threads, Kickers, socketVars
<1>2. /\ n \in Nat /\ streak \in Nat /\ Limit \in Nat /\ kicked \in Nat
      /\ Len(outcomes') = n + 1
      /\ \A j \in 1..n : outcomes'[j] = outcomes[j]
      /\ ~outcomes'[n + 1]
  BY <1>1, OneMoreOutcome, SendPipeAssumption DEF TypeOK
<1>3. StreakInv'
  <2>1. /\ streak <= n
        /\ \A j \in (n - streak + 1)..n : ~outcomes[j]
        /\ streak < n => outcomes[n - streak]
    BY DEF KickInv, StreakInv
  <2> HIDE DEF n
  <2>2. \A j \in (n + 1 - (streak + 1) + 1)..(n + 1) : ~outcomes'[j]
    <3> TAKE j \in (n + 1 - (streak + 1) + 1)..(n + 1)
    <3>1. j = n + 1 \/ (j \in (n - streak + 1)..n /\ j \in 1..n)
      BY <1>2, <2>1
    <3> QED BY <1>2, <2>1, <3>1
  <2>3. streak + 1 < n + 1 => outcomes'[n + 1 - (streak + 1)]
    BY <1>2, <2>1
  <2>4. streak' = streak + 1 /\ Len(outcomes') = n + 1
    BY <1>1, <1>2
  <2>5. /\ streak' <= Len(outcomes')
        /\ streak' < Len(outcomes') => outcomes'[Len(outcomes') - streak']
    BY <1>2, <2>1, <2>3, <2>4
  <2>6. \A j \in (Len(outcomes') - streak' + 1)..Len(outcomes') : ~outcomes'[j]
    <3> SUFFICES ASSUME NEW j \in (Len(outcomes') - streak' + 1)..Len(outcomes')
                 PROVE  ~outcomes'[j]
      OBVIOUS
    <3>1. j \in (n + 1 - (streak + 1) + 1)..(n + 1)
      BY <1>2, <2>4
    <3> QED BY <2>2, <3>1
  <2> QED BY <2>5, <2>6 DEF StreakInv
<1>4. ASSUME Limit > 0
      PROVE  kicked' + Cardinality(Kickers') = Cardinality(Runs')
  <2>0. /\ IsFiniteSet(Kickers) /\ IsFiniteSet(Runs)
        /\ Cardinality(Kickers) \in Nat /\ Cardinality(Runs) \in Nat
        /\ kicked + Cardinality(Kickers) = Cardinality(Runs)
    BY <1>1, <1>4, KickersFinite, RunsFinite, FS_CardinalityType DEF KickInv, KickPerRun, Kickers
  <2>1. CASE streak + 1 = Limit
    <3>1. Kickers' = Kickers \cup {t}
      BY <1>1, <1>4, <2>1, KickersMove DEF Overflow
    <3>2. Runs' = Runs \cup {n + 1}
      BY <1>1, <1>4, <2>1, DroppedRuns DEF KickInv
    <3>3. n + 1 \notin Runs
      BY <1>2 DEF Runs
    <3>4. /\ Cardinality(Kickers') = Cardinality(Kickers) + 1
          /\ Cardinality(Runs') = Cardinality(Runs) + 1
      BY <1>1, <2>0, <3>1, <3>2, <3>3, FS_AddElement
    <3> QED BY <1>1, <1>2, <2>0, <3>4
  <2>2. CASE streak + 1 # Limit
    <3>1. Kickers' = Kickers
      <4>1. CallerDecides(t)
        BY <2>2 DEF Overflow
      <4> QED BY <1>1, <4>1, KickersMove DEF CallerDecides
    <3>2. Runs' = Runs
      BY <1>1, <1>4, <2>2, DroppedRuns DEF KickInv
    <3> QED BY <1>1, <2>0, <3>1, <3>2
  <2> QED BY <2>1, <2>2
<1>5. KickPerRun'
  BY <1>4 DEF KickPerRun, Kickers
<1> QED BY <1>3, <1>5

LEMMA KickKick ==
    ASSUME KickInv, NEW t \in Senders, Kick(t)
    PROVE  StreakInv' /\ KickPerRun'
<1>1. TypeOK /\ t \in Threads /\ t \in Kickers /\ kicked' = kicked + 1 /\ kicked \in Nat
  BY DEF KickInv, Kick, Threads, Kickers, TypeOK
<1>2. Runs' = Runs /\ UNCHANGED <<streak, outcomes>>
  BY DEF Kick, Runs, bufferVars, historyVars
<1>3. Kickers' = Kickers \ {t}
  BY <1>1, KickersMove DEF Kick, CallerDecides
<1>4. Cardinality(Kickers') = Cardinality(Kickers) - 1 /\ Cardinality(Kickers) \in Nat
  BY <1>1, <1>3, KickersFinite, FS_RemoveElement, FS_CardinalityType
<1>5. KickPerRun'
  BY <1>1, <1>2, <1>4 DEF KickInv, KickPerRun, Kickers
<1> QED BY <1>2, <1>5 DEF KickInv, StreakInv

LEMMA KickStep == Piped /\ KickInv /\ [Next]_vars => KickInv'
<1> SUFFICES ASSUME Piped, KickInv, [Next]_vars PROVE StreakInv' /\ KickPerRun'
  BY TypedStep DEF KickInv
<1>0. TypeOK
  BY DEF Piped
<1>1. ASSUME NEW t \in Senders, SendStep(t) \/ \E size \in 1..MaxSize : Send(t, size)
      PROVE  StreakInv' /\ KickPerRun'
  <2>1. ASSUME NEW size \in 1..MaxSize, Send(t, size) PROVE StreakInv' /\ KickPerRun'
    <3>1. Kickers' = Kickers
      <4>1. CASE closing
        BY <2>1, <4>1 DEF Send, Kickers
      <4>2. CASE ~closing
        BY <1>0, <2>1, <4>2, KickersMove DEF Send, Kickers, Threads
      <4> QED BY <4>1, <4>2
    <3> QED BY <2>1, <3>1, KickKept DEF Send, bufferVars, socketVars
  <2> QED BY <1>1, <2>1, QueueMessageKick, OverflowKick, KickKick DEF SendStep
<1>2. ASSUME NEW t \in Threads, PostStep(t) PROVE StreakInv' /\ KickPerRun'
  <2>1. \E l : Goto(t, l) /\ l # "kick"
    BY <1>2 DEF PostStep, Swap, WsaSend, WsaSendFails, Undo, Close, CallerDecides
  <2>2. pc[t] # "kick"
    BY <1>2 DEF PostStep, Swap, WsaSend, WsaSendFails, Undo, Close
  <2>3. Kickers' = Kickers
    BY <1>0, <2>1, <2>2, KickersMove DEF Kickers
  <2>4. UNCHANGED <<streak, outcomes, kicked>>
    BY <1>2 DEF PostStep, Swap, WsaSend, WsaSendFails, Undo, Close,
                bufferVars, socketVars, historyVars
  <2> QED BY <2>3, <2>4, KickKept
<1>3. ASSUME NEW w \in IoWorkers, Completion(w) \/ RecvFails(w) PROVE StreakInv' /\ KickPerRun'
  <2>1. w \in Threads /\ pc[w] = "idle" /\ \E l : Goto(w, l) /\ l # "kick"
    BY <1>3 DEF Completion, SendDone, SendError, RecvFails, Threads
  <2>2. Kickers' = Kickers
    BY <1>0, <2>1, KickersMove DEF Kickers
  <2>3. UNCHANGED <<streak, outcomes, kicked>>
    BY <1>3 DEF Completion, SendDone, SendError, RecvFails, bufferVars, socketVars, historyVars
  <2> QED BY <2>2, <2>3, KickKept
<1>4. CASE PeerResets
  BY <1>4, KickKept DEF PeerResets, Kickers, bufferVars, historyVars, threadVars
<1>5. CASE UNCHANGED vars
  BY <1>5, KickKept DEF Kickers, vars, bufferVars, socketVars, historyVars, threadVars
<1> QED BY <1>1, <1>2, <1>3, <1>4, <1>5 DEF Next

\* For any limit and any threads: one thread kicks for each run of Limit messages
\* dropped in a row, whichever threads dropped them, and none for drops that a
\* success interrupted (session.h:139-143).
THEOREM KickPerRunAlways == Spec => []KickPerRun
<1>1. KickInv => KickPerRun
  BY DEF KickInv
<1> QED BY <1>1, KickInit, KickStep, PipedAlways, PTL DEF Spec

-----------------------------------------------------------------------------
(* The idle sweep *)

\* What an age means: the stored time is the time of the last receive, and
\* neither it nor the time of the sweep lies in the future.
Stamped ==
    /\ now <= clock
    /\ \A s \in Sessions : lastRecv[s] = heard[s] /\ heard[s] <= clock

Timed == SweepTypeOK /\ Stamped

LEMMA TimedInit == SweepInit => Timed
BY IdleSweepAssumption DEF SweepInit, Timed, SweepTypeOK, Stamped

LEMMA TimedStep == Timed /\ [SweepNext]_sweepVars => Timed'
<1> SUFFICES ASSUME Timed, [SweepNext]_sweepVars PROVE Timed'
  OBVIOUS
<1> USE IdleSweepAssumption DEF Timed, SweepTypeOK, Stamped
<1>1. CASE Tick
  BY <1>1 DEF Tick
<1>2. ASSUME NEW s \in Sessions, Accept(s) PROVE Timed'
  BY <1>2 DEF Accept
<1>3. ASSUME NEW s \in Sessions, Receive(s) PROVE Timed'
  BY <1>3 DEF Receive
<1>4. ASSUME NEW s \in Sessions, CloseOther(s) PROVE Timed'
  BY <1>4 DEF CloseOther
<1>5. ASSUME NEW s \in Sessions, Remove(s) PROVE Timed'
  BY <1>5 DEF Remove
<1>6. CASE Wake \/ Lock \/ Unlock \/ Sleep
  BY <1>6 DEF Wake, Lock, Unlock, Sleep, Mapped
<1>7. ASSUME NEW s \in Sessions, Look(s) PROVE Timed'
  BY <1>7 DEF Look
<1>8. ASSUME NEW s \in Sessions, CloseDoomed(s) PROVE Timed'
  BY <1>8 DEF CloseDoomed
<1>9. CASE UNCHANGED sweepVars
  BY <1>9 DEF sweepVars
<1> QED BY <1>1, <1>2, <1>3, <1>4, <1>5, <1>6, <1>7, <1>8, <1>9 DEF SweepNext, SweepStep

\* The unsigned difference is the age, unless the session was heard from after
\* the sweep read the clock.
LEMMA AgeIsExact ==
    ASSUME Timed, NEW s \in Sessions, heard[s] <= now
    PROVE  Age(s) = now - heard[s]
<1>1. 2^Width \in Int /\ MaxTime < 2^Width
  BY IdleSweepAssumption, SMT
<1>2. now - lastRecv[s] \in 0..MaxTime
  BY IdleSweepAssumption DEF Timed, SweepTypeOK, Stamped
<1> QED BY <1>1, <1>2, IdleSweepAssumption DEF Age, Timed, Stamped

\* Only a look picks a session.
LEMMA PickedIdle ==
    ASSUME Timed, [SweepNext]_sweepVars, NEW s \in Sessions, Picked(s)
    PROVE  clock - heard[s] >= IdleLimit \/ heard[s] > now
<1>1. PICK r \in Sessions : Look(r)
  BY DEF SweepNext, SweepStep, sweepVars, Picked, Wake, Lock, Unlock, Sleep, CloseDoomed,
         Tick, Accept, Receive, CloseOther, Remove
<1>2. r = s /\ ~(Age(s) < IdleLimit)
  BY <1>1 DEF Look, Picked
<1>3. CASE heard[s] <= now
  BY <1>2, <1>3, AgeIsExact, IdleSweepAssumption DEF Timed, SweepTypeOK, Stamped
<1> QED BY <1>3 DEF Timed, SweepTypeOK

\* The sweep closes only who was idle for the limit, or was heard from after the
\* sweep read the clock, and what it is going to close is still there
\* (sweep_loop): for any sessions, limit and width of the clock.
THEOREM OnlyIdleOrRacedAlways == SweepSpec => OnlyIdleOrRaced
<1>1. Timed => SweepTypeOK
  BY DEF Timed
<1>2. Timed /\ [SweepNext]_sweepVars
        => [\A s \in Sessions :
              Picked(s) => clock - heard[s] >= IdleLimit \/ heard[s] > now]_sweepVars
  BY PickedIdle
<1> QED BY <1>1, <1>2, TimedInit, TimedStep, PTL DEF SweepSpec, OnlyIdleOrRaced
=============================================================================
