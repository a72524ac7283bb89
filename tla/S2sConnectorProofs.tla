------------------------- MODULE S2sConnectorProofs -------------------------
(***************************************************************************)
(* TLAPS proofs about S2sConnector, for any number of requests, cuts,      *)
(* connections and requests of the peer, and whatever the peer, the        *)
(* network and the clock do.                                               *)
(***************************************************************************)
EXTENDS S2sConnector, FiniteSetTheorems, SequenceTheorems, TLAPS

-----------------------------------------------------------------------------
(* The inductive invariant *)

Ios == [op : Ops, conn : 1..MaxConns, n : Nat]
Entries == [seq : Nat, req : Requests, late : BOOLEAN]
Asked == [kind : {"request"}, seq : Nat, req : Requests]
Replies == [kind : {"reply"}, seq : Nat, req : Requests]
HalfFrames == [conn : 0..MaxConns, frame : Replies \cup [kind : {"request"}], half : {1, 2}]
Commands ==
    [kind : {"request"}, req : Requests] \cup [kind : {"cut"}]
    \cup [kind : {"respond"}, conn : 1..MaxConns]
Hows == {"ok", "crossed", "timeout", "disconnected", "stopped"}

Recs ==
    [link : {"down", "connecting", "connected"}, conn : 0..MaxConns, due : BOOLEAN,
     generation : Nat, ctx : [Ops -> Nat], ios : SUBSET Ios,
     buf : Seq(HalfFrames), pending : SUBSET Entries, nextSeq : Nat,
     front : Seq(Frames), back : Seq(Frames), sending : BOOLEAN,
     stream : Seq(HalfFrames), asked : SUBSET Asked]

Typed ==
    /\ TypeOK /\ s \in Recs
    /\ commands \in Seq(Commands) /\ batch \in Seq(Commands)
    /\ done \in [Requests -> Seq(Hows)]

\* What the kernel still has belongs to the present connection, and its context
\* carries the present generation exactly while the connection is up.
IosOwn(r) ==
    /\ r.link # "down" => r.conn # 0
    /\ \A io \in r.ios : io.conn = r.conn
    /\ \A io, jo \in r.ios : io.op = jo.op => io = jo
    /\ \A io \in r.ios : IF r.link = "down" THEN r.ctx[io.op] < r.generation
                                            ELSE r.ctx[io.op] = r.generation
    /\ \A io \in r.ios : /\ r.link = "connecting" => io.op = "connect"
                         /\ r.link = "connected" => io.op # "connect"

\* Nothing is left of a connection that is down.
Emptied(r) ==
    r.link # "connected" =>
        /\ r.buf = <<>> /\ r.stream = <<>> /\ r.front = <<>> /\ r.back = <<>>
        /\ r.pending = {} /\ r.asked = {} /\ ~r.sending

\* What comes in are whole frames of this connection.
Aligned(q, c) ==
    /\ q # <<>> => q[1].half = 1 /\ q[Len(q)].half = 2
    /\ \A i \in 1..Len(q) : q[i].conn = c
    /\ \A i \in 1..Len(q) - 1 : q[i].half # q[i + 1].half
InOrder(r) == Aligned(r.buf \o r.stream, r.conn)

\* An answer to the peer goes home.
Home(q, c) == \A f \in ToSet(q) : f.kind = "respond" => f.conn = c
OutHome(r) == Home(r.front, r.conn) /\ Home(r.back, r.conn)

\* A sequence number names one request, wherever it is met.
Names(r, f) == f.seq < r.nextSeq /\ \A e \in r.pending : e.seq = f.seq => e.req = f.req
Matched(r) ==
    /\ \A e \in r.pending : Names(r, e)
    /\ \A e, f \in r.pending : e.seq = f.seq => e = f
    /\ \A f \in ToSet(r.front) \cup ToSet(r.back) : f.kind = "request" => Names(r, f)
    /\ \A f \in r.asked : Names(r, f)
    /\ \A h \in ToSet(r.buf) \cup ToSet(r.stream) :
         h.frame.kind = "reply" => Names(r, h.frame)

Good(r) == r \in Recs /\ IosOwn(r) /\ Emptied(r) /\ InOrder(r) /\ OutHome(r) /\ Matched(r)

\* An open connection listens, and has a send issued while it has something to send.
Listens(r) == r.link = "connected" => \E io \in r.ios : io.op = "recv"
Posted(r) == r.link = "connected" => (r.sending <=> \E io \in r.ios : io.op = "send")
Flushed(r) == ~r.sending => r.front = <<>> /\ r.back = <<>>

SpeakInv ==
    /\ IF pc = "frames" THEN s.link = "connected" /\ \A io \in s.ios : io.op # "recv"
                        ELSE Listens(s)
    /\ Posted(s)
    /\ pc # "drain" => Flushed(s)

\* The thread begins with nothing and ends with nothing; answers to the peer are
\* queued only until the commands are drained next.
ThreadInv ==
    /\ pc = "begin" => s = Closed
    /\ pc \in {"reap", "last", "final", "done"} => s.link = "down"
    /\ batch # <<>> => pc \in {"drain", "final"}
    /\ Home(batch, s.conn)
    /\ \A c \in ToSet(commands) :
         c.kind = "respond" => c.conn = s.conn /\ pc \in {"frames", "turn"}

\* A request is in one place.
Queue == batch \o commands
Requested(c, x) == c.kind = "request" /\ c.req = x
Queued(q, x) == \E i \in 1..Len(q) : Requested(q[i], x)
Waits(p, x) == \E e \in p : e.req = x
OneAt(q, x) == \A i, j \in 1..Len(q) : Requested(q[i], x) /\ Requested(q[j], x) => i = j
OneEntry(p, x) == \A e, f \in p : e.req = x /\ f.req = x => e = f
OnePlace(x, q, p, completions, accepted) ==
    /\ OneAt(q, x) /\ OneEntry(p, x)
    /\ completions = <<>> \/ \E h \in Hows \ {"crossed"} : completions = <<h>>
    /\ ~(Queued(q, x) /\ Waits(p, x))
    /\ Queued(q, x) \/ Waits(p, x) => completions = <<>>
    /\ x <= accepted <=> Queued(q, x) \/ Waits(p, x) \/ completions # <<>>
Once(x) == OnePlace(x, Queue, s.pending, done[x], requests)
OnceInv == \A x \in Requests : Once(x)

Connected == Typed /\ Good(s) /\ SpeakInv /\ ThreadInv /\ OnceInv
Others ==
    /\ running \in BOOLEAN /\ closed \in BOOLEAN
    /\ stopper \in {"idle", "flagged", "closed"}
    /\ wake \in BOOLEAN /\ owing \in Nat
    /\ requests \in 0..MaxRequests
    /\ cuts \in 0..MaxCuts /\ asks \in 0..MaxAsks

-----------------------------------------------------------------------------
(* Sequences *)

\* The set of a sequence's elements, and of those built from it.
LEMMA ToSetIs ==
    ASSUME NEW S, NEW q \in Seq(S)
    PROVE  /\ ToSet(q) \subseteq S
           /\ \A x : x \in ToSet(q) <=> \E i \in 1..Len(q) : q[i] = x
BY LenProperties, ElementOfSeq DEF ToSet

LEMMA ToSetAppend ==
    ASSUME NEW S, NEW q \in Seq(S), NEW e \in S
    PROVE  ToSet(Append(q, e)) = ToSet(q) \cup {e}
<1> DEFINE p == Append(q, e)
<1>1. /\ p \in Seq(S) /\ Len(p) = Len(q) + 1 /\ Len(q) \in Nat
      /\ \A i \in 1..Len(q) : p[i] = q[i]
      /\ p[Len(q) + 1] = e
  BY AppendProperties, LenProperties
<1> HIDE DEF p
<1>2. ASSUME NEW x \in ToSet(p) PROVE x \in ToSet(q) \cup {e}
  <2>1. PICK i \in 1..Len(p) : p[i] = x
    BY <1>1, <1>2, ToSetIs
  <2>2. i \in 1..Len(q) \/ i = Len(q) + 1
    BY <1>1, <2>1
  <2> QED BY <1>1, <2>1, <2>2, ToSetIs
<1>3. ASSUME NEW x \in ToSet(q) PROVE x \in ToSet(p)
  <2>1. PICK i \in 1..Len(q) : q[i] = x
    BY <1>3, ToSetIs
  <2>2. i \in 1..Len(p) /\ p[i] = x
    BY <1>1, <2>1
  <2> QED BY <1>1, <2>2, ToSetIs
<1>4. e \in ToSet(p)
  <2>1. Len(q) + 1 \in 1..Len(p)
    BY <1>1
  <2> QED BY <1>1, <2>1, ToSetIs
<1> QED BY <1>2, <1>3, <1>4 DEF p

LEMMA ToSetSubSeq ==
    ASSUME NEW S, NEW q \in Seq(S), NEW m \in Nat \ {0}, NEW n \in Nat, n <= Len(q)
    PROVE  SubSeq(q, m, n) \in Seq(S) /\ ToSet(SubSeq(q, m, n)) \subseteq ToSet(q)
<1> DEFINE p == SubSeq(q, m, n)
<1>1. Len(q) \in Nat /\ \A i \in m..n : i \in 1..Len(q)
  BY LenProperties
<1>2. \A i \in m..n : q[i] \in S
  BY <1>1, ElementOfSeq
<1>3. /\ p \in Seq(S) /\ Len(p) = IF m <= n THEN n - m + 1 ELSE 0
      /\ \A i \in 1..n - m + 1 : p[i] = q[m + i - 1]
  BY <1>2, SubSeqProperties
<1> HIDE DEF p
<1>4. ASSUME NEW x \in ToSet(p) PROVE x \in ToSet(q)
  <2>1. PICK i \in 1..Len(p) : p[i] = x
    BY <1>3, <1>4, ToSetIs
  <2>2. i \in 1..n - m + 1 /\ m + i - 1 \in m..n
    BY <1>3, <2>1
  <2>3. m + i - 1 \in 1..Len(q) /\ q[m + i - 1] = x
    BY <1>1, <1>3, <2>1, <2>2
  <2> QED BY <2>3, ToSetIs
<1> QED BY <1>3, <1>4 DEF p

LEMMA ToSetConcat ==
    ASSUME NEW S, NEW p \in Seq(S), NEW q \in Seq(S)
    PROVE  ToSet(p \o q) = ToSet(p) \cup ToSet(q)
<1> DEFINE c == p \o q
<1>1. /\ c \in Seq(S) /\ Len(c) = Len(p) + Len(q) /\ Len(p) \in Nat /\ Len(q) \in Nat
      /\ \A i \in 1..Len(p) + Len(q) : c[i] = IF i <= Len(p) THEN p[i] ELSE q[i - Len(p)]
  BY ConcatProperties, LenProperties
<1> HIDE DEF c
<1>2. ASSUME NEW x \in ToSet(c) PROVE x \in ToSet(p) \cup ToSet(q)
  <2>1. PICK i \in 1..Len(c) : c[i] = x
    BY <1>1, <1>2, ToSetIs
  <2>2. CASE i <= Len(p)
    <3>1. i \in 1..Len(p) /\ p[i] = x
      BY <1>1, <2>1, <2>2
    <3> QED BY <3>1, ToSetIs
  <2>3. CASE ~(i <= Len(p))
    <3>1. i - Len(p) \in 1..Len(q) /\ q[i - Len(p)] = x
      BY <1>1, <2>1, <2>3
    <3> QED BY <3>1, ToSetIs
  <2> QED BY <2>2, <2>3
<1>3. ASSUME NEW x \in ToSet(p) PROVE x \in ToSet(c)
  <2>1. PICK i \in 1..Len(p) : p[i] = x
    BY <1>3, ToSetIs
  <2>2. i \in 1..Len(c) /\ c[i] = x
    BY <1>1, <2>1
  <2> QED BY <1>1, <2>2, ToSetIs
<1>4. ASSUME NEW x \in ToSet(q) PROVE x \in ToSet(c)
  <2>1. PICK i \in 1..Len(q) : q[i] = x
    BY <1>4, ToSetIs
  <2>2. Len(p) + i \in 1..Len(c) /\ c[Len(p) + i] = x
    BY <1>1, <2>1, SMTT(60)
  <2> QED BY <1>1, <2>2, ToSetIs
<1> QED BY <1>2, <1>3, <1>4 DEF c

LEMMA ToSetTail ==
    ASSUME NEW S, NEW q \in Seq(S), q # <<>>
    PROVE  ToSet(q) = {Head(q)} \cup ToSet(Tail(q))
<1> DEFINE t == Tail(q)
           h == Head(q)
<1>1. /\ h = q[1] /\ t \in Seq(S) /\ Len(t) = Len(q) - 1
      /\ \A i \in 1..Len(t) : t[i] = q[i + 1]
      /\ Len(q) \in Nat \ {0}
  BY HeadTailProperties, EmptySeq
<1> HIDE DEF t, h
<1>2. ASSUME NEW x \in ToSet(q) PROVE x \in {h} \cup ToSet(t)
  <2>1. PICK i \in 1..Len(q) : q[i] = x
    BY <1>2, ToSetIs
  <2>2. CASE i = 1
    BY <1>1, <2>1, <2>2
  <2>3. CASE i # 1
    <3>1. i - 1 \in 1..Len(t) /\ t[i - 1] = x
      BY <1>1, <2>1, <2>3
    <3> QED BY <1>1, <3>1, ToSetIs
  <2> QED BY <2>2, <2>3
<1>3. ASSUME NEW x \in ToSet(t) PROVE x \in ToSet(q)
  <2>1. PICK i \in 1..Len(t) : t[i] = x
    BY <1>1, <1>3, ToSetIs
  <2>2. i + 1 \in 1..Len(q) /\ q[i + 1] = x
    BY <1>1, <2>1
  <2> QED BY <2>2, ToSetIs
<1>4. h \in ToSet(q)
  <2>1. 1 \in 1..Len(q)
    BY <1>1
  <2> QED BY <1>1, <2>1, ToSetIs
<1> QED BY <1>2, <1>3, <1>4 DEF t, h

LEMMA ToSetEmpty == ToSet(<<>>) = {}
BY DEF ToSet

LEMMA Regroup ==
    ASSUME NEW S, NEW p \in Seq(S), NEW q \in Seq(S), NEW r \in Seq(S)
    PROVE  (p \o q) \o r = p \o (q \o r)
BY ConcatAssociative, SMTT(60)

\* Moving the beginning of one sequence to the end of another.
FirstOf(q, n) == SubSeq(q, 1, n)
RestOf(q, n) == SubSeq(q, n + 1, Len(q))

LEMMA Moved ==
    ASSUME NEW S, NEW p \in Seq(S), NEW q \in Seq(S), NEW n \in 0..Len(q)
    PROVE  /\ p \o FirstOf(q, n) \in Seq(S) /\ RestOf(q, n) \in Seq(S)
           /\ (p \o FirstOf(q, n)) \o RestOf(q, n) = p \o q
           /\ ToSet(p \o FirstOf(q, n)) \cup ToSet(RestOf(q, n)) \subseteq ToSet(p) \cup ToSet(q)
<1> DEFINE first == FirstOf(q, n)
           rest == RestOf(q, n)
<1>1. Len(q) \in Nat /\ n \in Nat /\ n <= Len(q)
  BY LenProperties
<1>2. first \in Seq(S) /\ ToSet(first) \subseteq ToSet(q)
  BY <1>1, ToSetSubSeq DEF FirstOf
<1>3. rest \in Seq(S) /\ ToSet(rest) \subseteq ToSet(q)
  BY <1>1, ToSetSubSeq DEF RestOf
<1>4. first \o rest = q
  <2>1. 1 \in 1..Len(q) + 1 /\ n \in 1 - 1..Len(q) /\ Len(q) \in n..Len(q)
    BY <1>1
  <2>2. first \o rest = SubSeq(q, 1, Len(q))
    BY <2>1, ConcatAdjacentSubSeq DEF FirstOf, RestOf
  <2> QED BY <2>2, SubSeqFull
<1> HIDE DEF first, rest
<1>5. p \o first \in Seq(S) /\ ToSet(p \o first) = ToSet(p) \cup ToSet(first)
  BY <1>2, ConcatProperties, ToSetConcat
<1>6. (p \o first) \o rest = p \o q
  <2>1. (p \o first) \o rest = p \o (first \o rest)
    BY <1>2, <1>3, Regroup, SMTT(60)
  <2> QED BY <1>4, <2>1
<1> QED BY <1>2, <1>3, <1>5, <1>6 DEF first, rest

\* Two halves of a frame are added to what is aligned, or taken from it.
LEMMA AlignedMore ==
    ASSUME NEW q \in Seq(HalfFrames), NEW c, Aligned(q, c),
           NEW a \in HalfFrames, NEW b \in HalfFrames,
           a.half = 1, b.half = 2, a.conn = c, b.conn = c
    PROVE  Aligned(q \o <<a, b>>, c)
<1> DEFINE p == q \o <<a, b>>
           n == Len(q)
<1>1. <<a, b>> \in Seq(HalfFrames) /\ Len(<<a, b>>) = 2
  OBVIOUS
<1>2. /\ n \in Nat /\ Len(p) = n + 2
      /\ \A i \in 1..n + 2 : p[i] = IF i <= n THEN q[i] ELSE <<a, b>>[i - n]
  BY <1>1, ConcatProperties, LenProperties
<1>3. /\ \A i \in 1..n : p[i] = q[i]
      /\ p[n + 1] = a /\ p[n + 2] = b
  BY <1>2
<1>4. n = 0 <=> q = <<>>
  BY EmptySeq
<1> HIDE DEF p, n
<1>5. p[1].half = 1 /\ p[n + 2].half = 2
  <2>1. CASE n = 0
    BY <1>3, <2>1
  <2>2. CASE n # 0
    BY <1>2, <1>3, <1>4, <2>2 DEF Aligned
  <2> QED BY <2>1, <2>2
<1>6. \A i \in 1..n + 2 : p[i].conn = c
  <2> SUFFICES ASSUME NEW i \in 1..n + 2 PROVE p[i].conn = c
    OBVIOUS
  <2>1. i \in 1..n \/ i = n + 1 \/ i = n + 2
    BY <1>2
  <2> QED BY <1>3, <2>1 DEF Aligned, n
<1>7. \A i \in 1..(n + 2) - 1 : p[i].half # p[i + 1].half
  <2> SUFFICES ASSUME NEW i \in 1..n + 1 PROVE p[i].half # p[i + 1].half
    BY <1>2
  <2>1. CASE i \in 1..n - 1
    <3>1. i \in 1..n /\ i + 1 \in 1..n
      BY <1>2, <2>1
    <3> QED BY <1>3, <2>1, <3>1 DEF Aligned, n
  <2>2. CASE i = n
    <3>1. i \in 1..n /\ q[n].half = 2
      BY <1>2, <1>4, <2>2 DEF Aligned, n
    <3> QED BY <1>3, <2>2, <3>1
  <2>3. CASE i = n + 1
    BY <1>2, <1>3, <2>3
  <2> QED BY <1>2, <2>1, <2>2, <2>3
<1> QED BY <1>2, <1>5, <1>6, <1>7 DEF Aligned, p

LEMMA AlignedLess ==
    ASSUME NEW p \in Seq(HalfFrames), NEW q \in Seq(HalfFrames), NEW c,
           Aligned(p \o q, c), Len(p) >= 2
    PROVE  /\ SubSeq(p, 3, Len(p)) \in Seq(HalfFrames)
           /\ ToSet(SubSeq(p, 3, Len(p))) \subseteq ToSet(p)
           /\ Aligned(SubSeq(p, 3, Len(p)) \o q, c)
<1> DEFINE t == SubSeq(p, 3, Len(p))
           old == p \o q
           new == t \o q
           n == Len(old)
<1>1. Len(p) \in Nat /\ Len(q) \in Nat
  BY LenProperties
<1>2. /\ t \in Seq(HalfFrames) /\ ToSet(t) \subseteq ToSet(p)
      /\ Len(t) = Len(p) - 2
      /\ \A i \in 1..Len(p) - 2 : t[i] = p[i + 2]
  <2>1. t \in Seq(HalfFrames) /\ ToSet(t) \subseteq ToSet(p)
    BY <1>1, ToSetSubSeq
  <2>2. \A i \in 3..Len(p) : p[i] \in HalfFrames
    BY <1>1, ElementOfSeq
  <2>3. /\ Len(t) = IF 3 <= Len(p) THEN Len(p) - 3 + 1 ELSE 0
        /\ \A i \in 1..Len(p) - 3 + 1 : t[i] = p[3 + i - 1]
    BY <1>1, <2>2, SubSeqProperties
  <2> HIDE DEF t
  <2>4. Len(t) = Len(p) - 2
    <3>1. Len(t) = IF 3 <= Len(p) THEN Len(p) - 3 + 1 ELSE 0
      BY <2>3
    <3>2. \A m \in Nat : m >= 2 => (IF 3 <= m THEN m - 3 + 1 ELSE 0) = m - 2
      OBVIOUS
    <3> QED BY <1>1, <3>1, <3>2
  <2>5. ASSUME NEW i \in 1..Len(p) - 2 PROVE t[i] = p[i + 2]
    <3>1. i \in 1..Len(p) - 3 + 1 /\ 3 + i - 1 = i + 2
      BY <1>1
    <3> QED BY <2>3, <3>1
  <2> QED BY <2>1, <2>4, <2>5
<1> HIDE DEF t
<1>3. /\ old \in Seq(HalfFrames) /\ n = Len(p) + Len(q)
      /\ \A i \in 1..Len(p) + Len(q) : old[i] = IF i <= Len(p) THEN p[i] ELSE q[i - Len(p)]
  BY ConcatProperties
<1>4. /\ new \in Seq(HalfFrames) /\ Len(new) = Len(t) + Len(q)
      /\ \A i \in 1..Len(t) + Len(q) : new[i] = IF i <= Len(t) THEN t[i] ELSE q[i - Len(t)]
  BY <1>2, ConcatProperties, ZenonT(60)
<1> HIDE DEF old, new, n
<1>5. n \in Nat /\ n >= 2 /\ Len(new) = n - 2
  BY <1>1, <1>2, <1>3, <1>4
<1>6. \A i \in 1..n - 2 : new[i] = old[i + 2]
  <2> SUFFICES ASSUME NEW i \in 1..n - 2 PROVE new[i] = old[i + 2]
    OBVIOUS
  <2>1. i \in 1..Len(t) + Len(q) /\ i + 2 \in 1..Len(p) + Len(q)
    BY <1>1, <1>2, <1>3
  <2>2. CASE i <= Len(t)
    <3>1. i \in 1..Len(p) - 2 /\ i + 2 <= Len(p)
      BY <1>1, <1>2, <2>2
    <3> QED BY <1>2, <1>3, <1>4, <2>1, <2>2, <3>1
  <2>3. CASE ~(i <= Len(t))
    <3>1. ~(i + 2 <= Len(p)) /\ i - Len(t) = i + 2 - Len(p)
      BY <1>1, <1>2, <2>3
    <3>2. new[i] = q[i - Len(t)]
      BY <1>4, <2>1, <2>3
    <3>3. old[i + 2] = q[i + 2 - Len(p)]
      BY <1>3, <2>1, <3>1
    <3> QED BY <3>1, <3>2, <3>3
  <2> QED BY <2>2, <2>3
<1>7. /\ old[1].half = 1 /\ old[n].half = 2
      /\ \A i \in 1..n : old[i].conn = c /\ old[i].half \in {1, 2}
      /\ \A i \in 1..n - 1 : old[i].half # old[i + 1].half
  <2>1. old # <<>>
    BY <1>3, <1>5, EmptySeq DEF n
  <2>2. \A i \in 1..n : old[i] \in HalfFrames
    BY <1>3, ElementOfSeq DEF n
  <2>3. \A h \in HalfFrames : h.half \in {1, 2}
    BY DEF HalfFrames
  <2> QED BY <2>1, <2>2, <2>3 DEF Aligned, old, n
<1>8. n > 2 => old[3].half = 1
  <2> SUFFICES ASSUME n > 2 PROVE old[3].half = 1
    OBVIOUS
  <2>1. 1 \in 1..n - 1 /\ 2 \in 1..n - 1 /\ 2 \in 1..n /\ 3 \in 1..n
    BY <1>5
  <2>2. old[1].half # old[2].half /\ old[2].half # old[3].half
    BY <1>7, <2>1
  <2> QED BY <1>7, <2>1, <2>2
<1>9. new # <<>> => n > 2
  BY <1>4, <1>5, EmptySeq
<1>10. new # <<>> => new[1].half = 1 /\ new[n - 2].half = 2
  <2> SUFFICES ASSUME n > 2 PROVE new[1].half = 1 /\ new[n - 2].half = 2
    BY <1>9
  <2>1. 1 \in 1..n - 2 /\ n - 2 \in 1..n - 2 /\ 1 + 2 = 3 /\ (n - 2) + 2 = n
    BY <1>5
  <2> QED BY <1>6, <1>7, <1>8, <2>1
<1>11. \A i \in 1..n - 2 : new[i].conn = c
  <2>1. \A i \in 1..n - 2 : i + 2 \in 1..n
    BY <1>5
  <2> QED BY <1>6, <1>7, <2>1
<1>12. \A i \in 1..(n - 2) - 1 : new[i].half # new[i + 1].half
  <2> SUFFICES ASSUME NEW i \in 1..n - 3 PROVE new[i].half # new[i + 1].half
    BY <1>5
  <2>1. /\ i \in 1..n - 2 /\ i + 1 \in 1..n - 2 /\ i + 2 \in 1..n - 1
        /\ (i + 1) + 2 = (i + 2) + 1
    BY <1>5
  <2> QED BY <1>6, <1>7, <2>1
<1> QED BY <1>2, <1>5, <1>10, <1>11, <1>12 DEF Aligned, t, old, new

\* What is queued after a command is appended, or the first one is taken.
LEMMA QueuedAppend ==
    ASSUME NEW q \in Seq(Commands), NEW c \in Commands, NEW x
    PROVE  /\ Queued(Append(q, c), x) <=> Queued(q, x) \/ Requested(c, x)
           /\ OneAt(q, x) /\ ~(Queued(q, x) /\ Requested(c, x)) => OneAt(Append(q, c), x)
<1> DEFINE p == Append(q, c)
           n == Len(q)
<1>1. /\ Len(p) = n + 1 /\ n \in Nat
      /\ \A i \in 1..n : p[i] = q[i]
      /\ p[n + 1] = c
  BY AppendProperties, LenProperties
<1> HIDE DEF p, n
<1>2. \A i \in 1..n + 1 : i \in 1..n \/ i = n + 1
  BY <1>1
<1>3. 1..n \subseteq 1..n + 1 /\ n + 1 \in 1..n + 1
  BY <1>1
<1>4. Queued(p, x) <=> Queued(q, x) \/ Requested(c, x)
  BY <1>1, <1>2, <1>3 DEF Queued, n
<1>5. ASSUME OneAt(q, x), ~(Queued(q, x) /\ Requested(c, x)) PROVE OneAt(p, x)
  BY <1>1, <1>2, <1>5 DEF Queued, OneAt, n
<1> QED BY <1>4, <1>5 DEF p

LEMMA QueuedTail ==
    ASSUME NEW q \in Seq(Commands), q # <<>>, NEW x
    PROVE  /\ Queued(q, x) <=> Queued(Tail(q), x) \/ Requested(Head(q), x)
           /\ OneAt(q, x) => /\ OneAt(Tail(q), x)
                             /\ ~(Queued(Tail(q), x) /\ Requested(Head(q), x))
<1> DEFINE t == Tail(q)
           h == Head(q)
           n == Len(q)
<1>1. /\ h = q[1] /\ Len(t) = n - 1 /\ n \in Nat \ {0}
      /\ \A i \in 1..n - 1 : t[i] = q[i + 1]
  BY HeadTailProperties, EmptySeq
<1> HIDE DEF t, h, n
<1>2. \A i \in 1..n : i = 1 \/ (i - 1 \in 1..n - 1 /\ i = (i - 1) + 1)
  BY <1>1
<1>3. \A i \in 1..n - 1 : i + 1 \in 1..n /\ i + 1 # 1
  BY <1>1
<1>4. 1 \in 1..n
  BY <1>1
<1>5. ASSUME NEW i \in 1..n, Requested(q[i], x) PROVE Queued(t, x) \/ Requested(h, x)
  <2>1. CASE i = 1
    BY <1>1, <1>5, <2>1
  <2>2. CASE i - 1 \in 1..n - 1 /\ i = (i - 1) + 1
    <3>1. t[i - 1] = q[i]
      BY <1>1, <2>2
    <3> QED BY <1>1, <1>5, <2>2, <3>1 DEF Queued
  <2> QED BY <1>2, <2>1, <2>2
<1>6. ASSUME NEW i \in 1..n - 1, Requested(t[i], x) PROVE Requested(q[i + 1], x) /\ i + 1 \in 1..n
  BY <1>1, <1>3, <1>6
<1>7. Queued(q, x) <=> Queued(t, x) \/ Requested(h, x)
  BY <1>1, <1>4, <1>5, <1>6 DEF Queued, n
<1>8. ASSUME OneAt(q, x) PROVE OneAt(t, x) /\ ~(Queued(t, x) /\ Requested(h, x))
  <2>1. \A i, j \in 1..n : Requested(q[i], x) /\ Requested(q[j], x) => i = j
    BY <1>8 DEF OneAt, n
  <2>2. \A i, j \in 1..n - 1 : Requested(t[i], x) /\ Requested(t[j], x) => i = j
    <3> SUFFICES ASSUME NEW i \in 1..n - 1, NEW j \in 1..n - 1,
                        Requested(t[i], x), Requested(t[j], x)
                 PROVE  i = j
      OBVIOUS
    <3>1. i + 1 = j + 1
      BY <1>6, <2>1
    <3> QED BY <1>1, <3>1
  <2>3. \A i \in 1..n - 1 : ~(Requested(t[i], x) /\ Requested(h, x))
    BY <1>1, <1>3, <1>4, <1>6, <2>1
  <2> QED BY <1>1, <2>2, <2>3 DEF OneAt, Queued
<1> QED BY <1>7, <1>8 DEF t, h

-----------------------------------------------------------------------------
(* The handlers, as functions of a record *)

\* A set of completions that ends the entries gone, each once and not wrongly.
Ended(completed, x) == \E c \in completed : c.req = x
Answers(completed, gone) ==
    /\ \A c \in completed : c.how \in Hows \ {"crossed"} /\ Waits(gone, c.req)
    /\ \A e \in gone : Ended(completed, e.req)
    /\ \A c, d \in completed : c.req = d.req => c = d

Sound(r, d) ==
    /\ Good(d.s)
    /\ \E gone \in SUBSET r.pending : d.s.pending = r.pending \ gone /\ Answers(d.completed, gone)

Speaks(r) == Listens(r) /\ Posted(r) /\ Flushed(r)

LEMMA CompletedAnswers ==
    ASSUME NEW gone, NEW how \in Hows \ {"crossed"}
    PROVE  Answers(Completed(gone, how), gone)
<1> DEFINE done1 == Completed(gone, how)
<1>1. \A c \in done1 : \E e \in gone : c = [req |-> e.req, how |-> how]
  BY DEF Completed
<1>2. \A e \in gone : [req |-> e.req, how |-> how] \in done1
  BY DEF Completed
<1> HIDE DEF done1
<1>3. \A c \in done1 : c.how = how /\ Waits(gone, c.req)
  BY <1>1 DEF Waits
<1>4. \A e \in gone : Ended(done1, e.req)
  BY <1>2 DEF Ended
<1>5. \A c, d \in done1 : c.req = d.req => c = d
  BY <1>1
<1> QED BY <1>3, <1>4, <1>5 DEF Answers, done1

LEMMA NothingAnswers == Answers({}, {})
BY DEF Answers, Ended

\* Nothing is completed, everything is kept.
LEMMA KeptSound ==
    ASSUME NEW r, NEW t, Good(t), t.pending = r.pending
    PROVE  Sound(r, Result(t, {}))
<1>1. r.pending = r.pending \ {}
  OBVIOUS
<1> QED BY <1>1, NothingAnswers DEF Sound, Result

LEMMA SoundSame ==
    ASSUME NEW r, NEW t, NEW d, Sound(t, d), t.pending = r.pending
    PROVE  Sound(r, d)
BY DEF Sound

\* A record that has no more frames, entries and replies than one that matches.
LEMMA MatchedLess ==
    ASSUME NEW r, Matched(r), NEW t, t.nextSeq = r.nextSeq, t.pending \subseteq r.pending,
           ToSet(t.front) \cup ToSet(t.back) \subseteq ToSet(r.front) \cup ToSet(r.back),
           \A f \in t.asked : f \in r.asked \/ Names(r, f),
           ToSet(t.buf) \cup ToSet(t.stream) \subseteq ToSet(r.buf) \cup ToSet(r.stream)
    PROVE  Matched(t)
<1>1. \A f : Names(r, f) => Names(t, f)
  BY DEF Names
<1>2. \A e \in t.pending : Names(t, e)
  BY <1>1 DEF Matched
<1>3. \A e, f \in t.pending : e.seq = f.seq => e = f
  BY DEF Matched
<1>4. \A f \in ToSet(t.front) \cup ToSet(t.back) : f.kind = "request" => Names(t, f)
  BY <1>1 DEF Matched
<1>5. \A f \in t.asked : Names(t, f)
  BY <1>1 DEF Matched
<1>6. \A h \in ToSet(t.buf) \cup ToSet(t.stream) :
        h.frame.kind = "reply" => Names(t, h.frame)
  BY <1>1 DEF Matched
<1> QED BY <1>2, <1>3, <1>4, <1>5, <1>6 DEF Matched

LEMMA ClosedGood == Good(Closed) /\ Speaks(Closed)
<1>1. Closed \in Recs
  <2>1. 0 \in 0..MaxConns
    BY S2sConnectorAssumption
  <2>2. <<>> \in Seq(HalfFrames) /\ <<>> \in Seq(Frames)
    OBVIOUS
  <2> QED BY <2>1, <2>2 DEF Closed, Recs
<1>2. <<>> \o <<>> = <<>>
  BY ConcatEmptySeq
<1>3. IosOwn(Closed) /\ Emptied(Closed)
  BY DEF Closed, IosOwn, Emptied
<1>4. InOrder(Closed)
  BY <1>2 DEF Closed, InOrder, Aligned
<1>5. OutHome(Closed)
  BY ToSetEmpty DEF Closed, OutHome, Home
<1>6. Matched(Closed)
  BY ToSetEmpty DEF Closed, Matched
<1>7. Speaks(Closed)
  BY DEF Closed, Speaks, Listens, Posted, Flushed
<1> QED BY <1>1, <1>3, <1>4, <1>5, <1>6, <1>7 DEF Good

LEMMA ResetIs ==
    ASSUME NEW r, Good(r), r.link # "down"
    PROVE  /\ Good(Reset(r)) /\ Speaks(Reset(r))
           /\ Reset(r).link = "down" /\ Reset(r).conn = r.conn /\ Reset(r).pending = {}
<1> DEFINE t == Reset(r)
<1>1. /\ t.link = "down" /\ t.conn = r.conn /\ t.generation = r.generation + 1
      /\ t.ctx = r.ctx /\ t.ios = r.ios /\ t.pending = {} /\ t.asked = {} /\ t.sending = FALSE
      /\ t.buf = <<>> /\ t.stream = <<>> /\ t.front = <<>> /\ t.back = <<>>
  BY DEF Reset, Closed
<1>2. r \in Recs
  BY DEF Good
<1>3. t \in Recs
  <2>1. Closed \in Recs
    BY ClosedGood DEF Good
  <2>2. r.conn \in 0..MaxConns /\ r.generation + 1 \in Nat /\ r.ctx \in [Ops -> Nat]
        /\ r.ios \in SUBSET Ios
    BY <1>2 DEF Recs
  <2> QED BY <2>1, <2>2 DEF Recs, Reset
<1> HIDE DEF t
<1>4. IosOwn(t)
  <2>1. \A io \in r.ios : r.ctx[io.op] = r.generation
    BY DEF Good, IosOwn
  <2>2. \A io \in r.ios : r.ctx[io.op] < r.generation + 1
    BY <1>2, <2>1 DEF Recs
  <2> QED BY <1>1, <2>2 DEF Good, IosOwn
<1>5. Emptied(t)
  BY <1>1 DEF Emptied
<1>6. InOrder(t)
  <2>1. <<>> \o <<>> = <<>>
    BY ConcatEmptySeq
  <2> QED BY <1>1, <2>1 DEF InOrder, Aligned
<1>7. OutHome(t) /\ Matched(t)
  BY <1>1, ToSetEmpty DEF OutHome, Home, Matched
<1>8. Speaks(t)
  BY <1>1 DEF Speaks, Listens, Posted, Flushed
<1> QED BY <1>1, <1>3, <1>4, <1>5, <1>6, <1>7, <1>8 DEF Good, t

\* A record that keeps all but what it issued, its numbers or its deadline.
LEMMA DownSpeaks ==
    ASSUME NEW r, Good(r), r.link # "connected"
    PROVE  Speaks(r)
BY DEF Good, Emptied, Speaks, Listens, Posted, Flushed

LEMMA TeardownIs ==
    ASSUME NEW r, Good(r), NEW how \in Hows \ {"crossed"}
    PROVE  LET d == Teardown(r, how) IN
           /\ Sound(r, d) /\ Speaks(d.s)
           /\ d.s.link = "down" /\ d.s.conn = r.conn /\ d.s.pending = {}
           /\ d.completed = Completed(r.pending, how)
<1> DEFINE d == Teardown(r, how)
<1>1. CASE r.link = "down"
  <2> DEFINE t == [r EXCEPT !.generation = @ + 1]
  <2>1. d.s = t /\ d.completed = {}
    BY <1>1 DEF Teardown, Result
  <2>2. r \in Recs /\ r.pending = {}
    BY <1>1 DEF Good, Emptied
  <2>0. t \in Recs
    <3>1. r.generation + 1 \in Nat
      BY <2>2 DEF Recs
    <3> QED BY <2>2, <3>1 DEF Recs
  <2>3. /\ t \in Recs /\ t.generation = r.generation + 1
        /\ t.link = "down" /\ t.conn = r.conn /\ t.ctx = r.ctx /\ t.ios = r.ios
        /\ t.buf = r.buf /\ t.pending = r.pending /\ t.nextSeq = r.nextSeq
        /\ t.front = r.front /\ t.back = r.back /\ t.sending = r.sending
        /\ t.stream = r.stream /\ t.asked = r.asked
    BY <1>1, <2>2, <2>0 DEF Recs
  <2> HIDE DEF t
  <2>4. IosOwn(t)
    <3>1. r.generation \in Nat /\ r.ctx \in [Ops -> Nat] /\ r.ios \subseteq Ios
      BY <2>2 DEF Recs
    <3>2. \A io \in r.ios : r.ctx[io.op] < r.generation + 1
      <4> SUFFICES ASSUME NEW io \in r.ios PROVE r.ctx[io.op] < r.generation + 1
        OBVIOUS
      <4>1. io.op \in Ops
        BY <3>1 DEF Ios
      <4>2. r.ctx[io.op] < r.generation
        BY <1>1 DEF Good, IosOwn
      <4>3. r.ctx[io.op] \in Nat
        BY <3>1, <4>1
      <4> QED BY <3>1, <4>2, <4>3
    <3> QED BY <1>1, <2>3, <3>2 DEF Good, IosOwn
  <2>5. Emptied(t) /\ InOrder(t) /\ OutHome(t)
    BY <1>1, <2>3 DEF Good, Emptied, InOrder, OutHome
  <2>6. Matched(t)
    BY <2>3, MatchedLess DEF Good
  <2>7. Good(t)
    BY <2>3, <2>4, <2>5, <2>6 DEF Good
  <2>8. Completed(r.pending, how) = {}
    BY <2>2 DEF Completed
  <2>9. Sound(r, Result(t, {})) /\ Speaks(t)
    BY <2>3, <2>7, KeptSound, DownSpeaks
  <2> QED BY <2>1, <2>2, <2>3, <2>8, <2>9 DEF Result, Sound
<1>2. CASE r.link # "down"
  <2>1. d.s = Reset(r) /\ d.completed = Completed(r.pending, how)
    BY <1>2 DEF Teardown, Result, TornDown
  <2>2. /\ Good(Reset(r)) /\ Speaks(Reset(r))
        /\ Reset(r).link = "down" /\ Reset(r).conn = r.conn /\ Reset(r).pending = {}
    BY <1>2, ResetIs
  <2>3. {} = r.pending \ r.pending
    OBVIOUS
  <2> QED BY <2>1, <2>2, <2>3, CompletedAnswers DEF Sound
<1> QED BY <1>1, <1>2

\* Issuing a call whose context is free.
LEMMA IssueIs ==
    ASSUME NEW r, Good(r), NEW op \in Ops, NEW n \in Nat,
           r.link # "down", \A io \in r.ios : io.op # op,
           r.link = "connecting" <=> op = "connect"
    PROVE  LET t == Issue(r, op, n) IN
           /\ Good(t)
           /\ \E io \in t.ios : io.op = op
           /\ t.ios \subseteq r.ios \cup {[op |-> op, conn |-> r.conn, n |-> n]}
           /\ r.ios \subseteq t.ios
           /\ t.link = r.link /\ t.conn = r.conn /\ t.buf = r.buf /\ t.pending = r.pending
           /\ t.nextSeq = r.nextSeq /\ t.front = r.front /\ t.back = r.back
           /\ t.sending = r.sending /\ t.stream = r.stream /\ t.asked = r.asked
<1> DEFINE t == Issue(r, op, n)
           new == [op |-> op, conn |-> r.conn, n |-> n]
<1>1. r \in Recs /\ r.ctx \in [Ops -> Nat] /\ r.generation \in Nat /\ r.ios \subseteq Ios
      /\ r.link \in {"down", "connecting", "connected"}
  BY DEF Good, Recs
<1>2. new \in Ios
  <2>1. r.conn \in 1..MaxConns
    <3>1. r.conn \in 0..MaxConns
      BY <1>1 DEF Recs
    <3>2. r.conn # 0
      BY DEF Good, IosOwn
    <3> QED BY <3>1, <3>2, S2sConnectorAssumption
  <2> QED BY <2>1 DEF Ios
<1>3. t \in Recs
  <2>1. [r.ctx EXCEPT ![op] = r.generation] \in [Ops -> Nat] /\ r.ios \cup {new} \in SUBSET Ios
    BY <1>1, <1>2
  <2> QED BY <1>1, <2>1 DEF Issue, Recs
<1>4. /\ t.link = r.link /\ t.conn = r.conn /\ t.buf = r.buf /\ t.pending = r.pending
      /\ t.nextSeq = r.nextSeq /\ t.front = r.front /\ t.back = r.back
      /\ t.sending = r.sending /\ t.stream = r.stream /\ t.asked = r.asked
      /\ t.generation = r.generation
      /\ t.ctx = [r.ctx EXCEPT ![op] = r.generation]
      /\ t.ios = r.ios \cup {new}
  BY <1>1 DEF Issue, Recs
<1> HIDE DEF t
<1>5. t.ctx[op] = r.generation /\ \A p \in Ops : p # op => t.ctx[p] = r.ctx[p]
  BY <1>1, <1>4
<1>6. new.op = op /\ new.conn = r.conn
  OBVIOUS
<1> HIDE DEF new
<1>7. IosOwn(t)
  <2>1. \A io \in t.ios : io.conn = t.conn
    BY <1>4, <1>6 DEF Good, IosOwn
  <2>2. \A io, jo \in t.ios : io.op = jo.op => io = jo
    BY <1>4, <1>6 DEF Good, IosOwn
  <2>3. \A io \in t.ios : t.ctx[io.op] = t.generation
    <3> SUFFICES ASSUME NEW io \in t.ios PROVE t.ctx[io.op] = r.generation
      BY <1>4
    <3>1. CASE io = new
      BY <1>5, <1>6, <3>1
    <3>2. CASE io \in r.ios
      <4>1. io.op \in Ops /\ io.op # op /\ r.ctx[io.op] = r.generation
        BY <1>1, <3>2 DEF Good, IosOwn, Ios
      <4> QED BY <1>5, <4>1
    <3> QED BY <1>4, <3>1, <3>2
  <2>4. \A io \in t.ios : /\ t.link = "connecting" => io.op = "connect"
                          /\ t.link = "connected" => io.op # "connect"
    BY <1>4, <1>6 DEF Good, IosOwn
  <2>5. t.link # "down" => t.conn # 0
    BY <1>4 DEF Good, IosOwn
  <2> QED BY <1>4, <2>1, <2>2, <2>3, <2>4, <2>5 DEF IosOwn
<1>8. Emptied(t) /\ InOrder(t) /\ OutHome(t)
  BY <1>4 DEF Good, Emptied, InOrder, OutHome
<1>9. Matched(t)
  BY <1>4, MatchedLess DEF Good
<1>10. Good(t)
  BY <1>3, <1>7, <1>8, <1>9 DEF Good
<1> QED BY <1>4, <1>6, <1>10 DEF t, new

LEMMA PostRecvIs ==
    ASSUME NEW r, Good(r), r.link = "connected", \A io \in r.ios : io.op # "recv",
           Posted(r), Flushed(r), NEW ok \in BOOLEAN
    PROVE  LET d == PostRecv(r, ok) IN Sound(r, d) /\ Speaks(d.s) /\ d.s.conn = r.conn
<1> DEFINE d == PostRecv(r, ok)
<1>1. CASE ok
  <2> DEFINE t == Issue(r, "recv", 0)
  <2>1. d = Result(t, {}) /\ d.s = t
    BY <1>1 DEF PostRecv, Result
  <2>2. /\ Good(t) /\ \E io \in t.ios : io.op = "recv"
        /\ t.ios \subseteq r.ios \cup {[op |-> "recv", conn |-> r.conn, n |-> 0]}
        /\ r.ios \subseteq t.ios
        /\ t.link = r.link /\ t.conn = r.conn /\ t.pending = r.pending
        /\ t.front = r.front /\ t.back = r.back /\ t.sending = r.sending
    BY IssueIs DEF Ops
  <2> HIDE DEF t
  <2>3. (\E io \in t.ios : io.op = "send") <=> \E io \in r.ios : io.op = "send"
    BY <2>2
  <2>4. Speaks(t)
    BY <2>2, <2>3 DEF Speaks, Listens, Posted, Flushed
  <2> QED BY <2>1, <2>2, <2>4, KeptSound
<1>2. CASE ~ok
  <2>1. d = Teardown(r, "disconnected")
    BY <1>2 DEF PostRecv
  <2> QED BY <2>1, TeardownIs DEF Hows
<1> QED BY <1>1, <1>2

\* post_send(): the right to send is taken, and no send is issued.
LEMMA PostSendIs ==
    ASSUME NEW r, Good(r), r.link = "connected", r.sending, \A io \in r.ios : io.op # "send",
           Listens(r), NEW ok \in BOOLEAN, NEW part \in BOOLEAN
    PROVE  LET d == PostSend(r, ok, part) IN Sound(r, d) /\ Speaks(d.s) /\ d.s.conn = r.conn
<1> DEFINE t == IF r.front = <<>> THEN [r EXCEPT !.front = r.back, !.back = <<>>] ELSE r
           n == IF part THEN 1 ELSE Len(t.front)
           out == {f \in ToSet(SubSeq(t.front, 1, n)) : f.kind = "request"}
           d == PostSend(r, ok, part)
<1> SUFFICES Sound(r, d) /\ Speaks(d.s) /\ d.s.conn = r.conn
  OBVIOUS
<1>1. r \in Recs /\ r.front \in Seq(Frames) /\ r.back \in Seq(Frames)
  BY DEF Good, Recs
<1>2. <<>> \in Seq(Frames)
  OBVIOUS
<1>3. t \in Recs
  <2>1. CASE r.front = <<>>
    BY <1>1, <1>2, <2>1 DEF Recs
  <2>2. CASE r.front # <<>>
    BY <1>1, <2>2
  <2> QED BY <2>1, <2>2
<1>4. /\ t.link = r.link /\ t.conn = r.conn /\ t.generation = r.generation
      /\ t.ctx = r.ctx /\ t.ios = r.ios /\ t.buf = r.buf /\ t.pending = r.pending
      /\ t.nextSeq = r.nextSeq /\ t.sending = r.sending /\ t.stream = r.stream
      /\ t.asked = r.asked
  BY <1>1 DEF Recs
<1>5. /\ r.front = <<>> => t.front = r.back /\ t.back = <<>>
      /\ r.front # <<>> => t.front = r.front /\ t.back = r.back
  BY <1>1 DEF Recs
<1>6. d = IF t.front = <<>> THEN Result([t EXCEPT !.sending = FALSE], {})
          ELSE IF ok THEN Result([Issue(t, "send", n) EXCEPT !.asked = @ \cup out], {})
          ELSE Teardown(t, "disconnected")
  BY DEF PostSend
<1> HIDE DEF t, d
<1>7. ToSet(t.front) \subseteq ToSet(r.front) \cup ToSet(r.back)
      /\ ToSet(t.back) \subseteq ToSet(r.front) \cup ToSet(r.back)
  BY <1>5, ToSetEmpty
<1>8. Good(t) /\ Listens(t)
  <2>1. IosOwn(t) /\ Emptied(t) /\ InOrder(t)
    BY <1>4 DEF Good, IosOwn, Emptied, InOrder
  <2>2. OutHome(t)
    BY <1>4, <1>7 DEF Good, OutHome, Home
  <2>3. Matched(t)
    BY <1>4, <1>7, MatchedLess DEF Good
  <2> QED BY <1>3, <1>4, <2>1, <2>2, <2>3 DEF Good, Listens
<1>9. CASE t.front = <<>>
  <2> DEFINE u == [t EXCEPT !.sending = FALSE]
  <2>1. u \in Recs
    BY <1>3 DEF Recs
  <2>2. /\ u.link = t.link /\ u.conn = t.conn /\ u.generation = t.generation
        /\ u.ctx = t.ctx /\ u.ios = t.ios /\ u.buf = t.buf /\ u.pending = t.pending
        /\ u.nextSeq = t.nextSeq /\ u.stream = t.stream /\ u.asked = t.asked
        /\ u.front = t.front /\ u.back = t.back /\ u.sending = FALSE
    BY <1>3 DEF Recs
  <2> HIDE DEF u
  <2>3. Good(u)
    <3>1. IosOwn(u) /\ Emptied(u) /\ InOrder(u) /\ OutHome(u)
      BY <1>4, <1>8, <2>2 DEF Good, IosOwn, Emptied, InOrder, OutHome
    <3>2. Matched(u)
      BY <1>8, <2>2, MatchedLess DEF Good
    <3> QED BY <2>1, <3>1, <3>2 DEF Good
  <2>4. Speaks(u)
    <3>1. u.back = <<>> /\ u.front = <<>>
      BY <1>5, <1>9, <2>2
    <3> QED BY <1>4, <1>8, <2>2, <3>1 DEF Speaks, Listens, Posted, Flushed
  <2>5. d = Result(u, {}) /\ d.s = u
    BY <1>6, <1>9 DEF Result, u
  <2>6. Sound(r, Result(u, {}))
    BY <1>4, <2>2, <2>3, KeptSound
  <2> QED BY <1>4, <2>2, <2>4, <2>5, <2>6
<1>10. CASE t.front # <<>> /\ ok
  <2> DEFINE v == Issue(t, "send", n)
             u == [v EXCEPT !.asked = @ \cup out]
  <2>1. /\ n \in Nat /\ n >= 1 /\ n <= Len(t.front)
        /\ t.front \in Seq(Frames)
    BY <1>1, <1>5, <1>10, EmptySeq, LenProperties
  <2>2. out \subseteq {f \in ToSet(t.front) : f.kind = "request"}
    BY <2>1, ToSetSubSeq
  <2> HIDE DEF n, out
  <2>3. /\ Good(v)
        /\ \E io \in v.ios : io.op = "send"
        /\ r.ios \subseteq v.ios
        /\ v.link = r.link /\ v.conn = r.conn /\ v.buf = r.buf /\ v.pending = r.pending
        /\ v.nextSeq = r.nextSeq /\ v.front = t.front /\ v.back = t.back
        /\ v.sending = r.sending /\ v.stream = r.stream /\ v.asked = r.asked
    <3>1. /\ t.link # "down" /\ \A io \in t.ios : io.op # "send"
          /\ t.link = "connecting" <=> "send" = "connect"
      BY <1>4
    <3>2. "send" \in Ops
      BY DEF Ops
    <3>3. /\ Good(v)
          /\ \E io \in v.ios : io.op = "send"
          /\ t.ios \subseteq v.ios
          /\ v.link = t.link /\ v.conn = t.conn /\ v.buf = t.buf /\ v.pending = t.pending
          /\ v.nextSeq = t.nextSeq /\ v.front = t.front /\ v.back = t.back
          /\ v.sending = t.sending /\ v.stream = t.stream /\ v.asked = t.asked
      BY <1>8, <2>1, <3>1, <3>2, IssueIs
    <3> QED BY <1>4, <3>3
  <2> HIDE DEF v
  <2>4. out \subseteq Asked
    <3> SUFFICES ASSUME NEW f \in out PROVE f \in Asked
      OBVIOUS
    <3>1. f \in Frames /\ f.kind = "request"
      BY <2>1, <2>2, ToSetIs
    <3> QED BY <3>1 DEF Frames, Asked
  <2>5. v \in Recs
    BY <2>3 DEF Good
  <2>6. u \in Recs
    <3>1. v.asked \cup out \in SUBSET Asked
      BY <2>4, <2>5 DEF Recs
    <3> QED BY <2>5, <3>1 DEF Recs
  <2>7. /\ u.link = v.link /\ u.conn = v.conn /\ u.generation = v.generation
        /\ u.ctx = v.ctx /\ u.ios = v.ios /\ u.buf = v.buf /\ u.pending = v.pending
        /\ u.nextSeq = v.nextSeq /\ u.stream = v.stream /\ u.asked = v.asked \cup out
        /\ u.front = v.front /\ u.back = v.back /\ u.sending = v.sending
    BY <2>5 DEF Recs
  <2>8. d = Result(u, {}) /\ d.s = u
    BY <1>6, <1>10 DEF Result, u, v
  <2> HIDE DEF u
  <2>9. Good(u)
    <3>1. IosOwn(u) /\ Emptied(u) /\ InOrder(u) /\ OutHome(u)
      BY <2>3, <2>7 DEF Good, IosOwn, Emptied, InOrder, OutHome
    <3>2. Matched(u)
      <4>1. Matched(v)
        BY <2>3 DEF Good
      <4>2. \A f \in out : Names(v, f)
        BY <2>2, <2>3, <4>1 DEF Matched
      <4> QED BY <2>7, <4>1, <4>2, MatchedLess
    <3> QED BY <2>6, <3>1, <3>2 DEF Good
  <2>10. Speaks(u)
    BY <2>3, <2>7 DEF Speaks, Listens, Posted, Flushed
  <2>11. Sound(r, Result(u, {}))
    BY <2>3, <2>7, <2>9, KeptSound
  <2> QED BY <2>3, <2>7, <2>8, <2>10, <2>11
<1>11. CASE t.front # <<>> /\ ~ok
  <2>1. d = Teardown(t, "disconnected")
    BY <1>6, <1>11
  <2>2. Sound(t, d) /\ Speaks(d.s) /\ d.s.conn = t.conn
    BY <1>8, <2>1, TeardownIs DEF Hows
  <2>3. Sound(r, d)
    BY <1>4, <2>2, SoundSame
  <2> QED BY <1>4, <2>2, <2>3
<1> QED BY <1>9, <1>10, <1>11

\* maybe_kick_send(): the right is taken when there is something to send.
LEMMA MaybeKickSendIs ==
    ASSUME NEW r, Good(r), Listens(r), Posted(r), NEW ok \in BOOLEAN, NEW part \in BOOLEAN
    PROVE  LET d == MaybeKickSend(r, ok, part) IN
           Sound(r, d) /\ Speaks(d.s) /\ d.s.conn = r.conn
<1> DEFINE d == MaybeKickSend(r, ok, part)
           t == [r EXCEPT !.sending = TRUE]
<1>1. r \in Recs /\ r.front \in Seq(Frames) /\ r.back \in Seq(Frames)
  BY DEF Good, Recs
<1>2. CASE r.link # "connected" \/ r.sending \/ r.front \o r.back = <<>>
  <2>1. d = Result(r, {}) /\ d.s = r
    BY <1>2 DEF MaybeKickSend, Result
  <2>2. Flushed(r)
    <3>1. CASE r.link # "connected" \/ r.sending
      BY <3>1 DEF Good, Emptied, Flushed
    <3>2. CASE r.front \o r.back = <<>>
      BY <1>1, <3>2, ConcatEqualIffEmpty DEF Flushed
    <3> QED BY <1>2, <3>1, <3>2
  <2> QED BY <2>1, <2>2, KeptSound DEF Speaks
<1>3. CASE ~(r.link # "connected" \/ r.sending \/ r.front \o r.back = <<>>)
  <2>1. d = PostSend(t, ok, part)
    BY <1>3 DEF MaybeKickSend
  <2>2. t \in Recs
    BY <1>1 DEF Recs
  <2>3. /\ t.link = r.link /\ t.conn = r.conn /\ t.generation = r.generation
        /\ t.ctx = r.ctx /\ t.ios = r.ios /\ t.buf = r.buf /\ t.pending = r.pending
        /\ t.nextSeq = r.nextSeq /\ t.stream = r.stream /\ t.asked = r.asked
        /\ t.front = r.front /\ t.back = r.back /\ t.sending = TRUE
    BY <1>1 DEF Recs
  <2> HIDE DEF t
  <2>4. Good(t)
    <3>1. IosOwn(t) /\ Emptied(t) /\ InOrder(t) /\ OutHome(t)
      BY <1>3, <2>3 DEF Good, IosOwn, Emptied, InOrder, OutHome
    <3>2. Matched(t)
      BY <2>3, MatchedLess DEF Good
    <3> QED BY <2>2, <3>1, <3>2 DEF Good
  <2>5. Listens(t) /\ \A io \in t.ios : io.op # "send"
    BY <1>3, <2>3 DEF Listens, Posted
  <2>6. Sound(t, d) /\ Speaks(d.s) /\ d.s.conn = t.conn
    BY <1>3, <2>1, <2>3, <2>4, <2>5, PostSendIs
  <2>7. Sound(r, d)
    BY <2>3, <2>6, SoundSame
  <2> QED BY <2>3, <2>6, <2>7
<1> QED BY <1>2, <1>3

\* queue_send(): a frame that goes home, or names its request.
LEMMA QueueSendIs ==
    ASSUME NEW r, Good(r), NEW frame \in Frames,
           frame.kind = "respond" => frame.conn = r.conn,
           frame.kind = "request" => Names(r, frame)
    PROVE  LET t == QueueSend(r, frame) IN
           /\ Good(t) /\ t.link = r.link /\ t.conn = r.conn /\ t.ios = r.ios
           /\ t.sending = r.sending /\ t.pending = r.pending
<1> DEFINE t == QueueSend(r, frame)
<1>1. CASE r.link # "connected"
  BY <1>1 DEF QueueSend
<1>2. CASE r.link = "connected"
  <2>1. r \in Recs /\ r.back \in Seq(Frames)
    BY DEF Good, Recs
  <2>2. /\ Append(r.back, frame) \in Seq(Frames)
        /\ ToSet(Append(r.back, frame)) = ToSet(r.back) \cup {frame}
    BY <2>1, ToSetAppend, AppendProperties
  <2>3. t = [r EXCEPT !.back = Append(r.back, frame)]
    BY <1>2 DEF QueueSend
  <2>4. t \in Recs
    BY <2>1, <2>2, <2>3 DEF Recs
  <2>5. /\ t.link = r.link /\ t.conn = r.conn /\ t.generation = r.generation
        /\ t.ctx = r.ctx /\ t.ios = r.ios /\ t.buf = r.buf /\ t.pending = r.pending
        /\ t.nextSeq = r.nextSeq /\ t.front = r.front /\ t.stream = r.stream
        /\ t.asked = r.asked /\ t.sending = r.sending
        /\ t.back = Append(r.back, frame)
    BY <2>1, <2>3 DEF Recs
  <2> HIDE DEF t
  <2>6. IosOwn(t) /\ Emptied(t) /\ InOrder(t)
    BY <1>2, <2>5 DEF Good, IosOwn, Emptied, InOrder
  <2>7. OutHome(t)
    BY <2>2, <2>5 DEF Good, OutHome, Home
  <2>8. Matched(t)
    <3>1. \A f : Names(r, f) => Names(t, f)
      BY <2>5 DEF Names
    <3>2. Matched(r)
      BY DEF Good
    <3>3. \A f \in ToSet(t.front) \cup ToSet(t.back) : f.kind = "request" => Names(t, f)
      <4>1. \A f \in ToSet(r.front) \cup ToSet(r.back) : f.kind = "request" => Names(r, f)
        BY <3>2 DEF Matched
      <4> QED BY <2>2, <2>5, <3>1, <4>1
    <3> QED BY <2>5, <3>1, <3>2, <3>3 DEF Matched
  <2> QED BY <2>4, <2>5, <2>6, <2>7, <2>8 DEF Good, t
<1> QED BY <1>1, <1>2

\* A record with one more entry, under a number that was never used on this connection.
LEMMA EnteredIs ==
    ASSUME NEW r, Good(r), r.link = "connected", NEW x \in Requests
    PROVE  LET e == [seq |-> r.nextSeq, req |-> x, late |-> FALSE]
               t == [r EXCEPT !.nextSeq = @ + 1, !.pending = @ \cup {e}]
           IN  /\ Good(t) /\ t.link = r.link /\ t.conn = r.conn /\ t.ios = r.ios
               /\ t.sending = r.sending /\ t.pending = r.pending \cup {e}
               /\ \A f : f.seq = r.nextSeq /\ f.req = x => Names(t, f)
<1> DEFINE e == [seq |-> r.nextSeq, req |-> x, late |-> FALSE]
           t == [r EXCEPT !.nextSeq = @ + 1, !.pending = @ \cup {e}]
<1>1. /\ r \in Recs /\ r.nextSeq \in Nat /\ r.pending \subseteq Entries
      /\ r.front \in Seq(Frames) /\ r.back \in Seq(Frames) /\ r.asked \subseteq Asked
      /\ r.buf \in Seq(HalfFrames) /\ r.stream \in Seq(HalfFrames)
  BY DEF Good, Recs
<1>2. e \in Entries /\ e.seq = r.nextSeq /\ e.req = x
  BY <1>1 DEF Entries
<1> HIDE DEF e
<1>3. t \in Recs
  <2>1. r.nextSeq + 1 \in Nat /\ r.pending \cup {e} \in SUBSET Entries
    BY <1>1, <1>2
  <2> QED BY <1>1, <2>1 DEF Recs
<1>4. /\ t.link = r.link /\ t.conn = r.conn /\ t.generation = r.generation
      /\ t.ctx = r.ctx /\ t.ios = r.ios /\ t.buf = r.buf /\ t.pending = r.pending \cup {e}
      /\ t.nextSeq = r.nextSeq + 1 /\ t.front = r.front /\ t.back = r.back /\ t.stream = r.stream
      /\ t.asked = r.asked /\ t.sending = r.sending
  BY <1>1 DEF Recs
<1> HIDE DEF t
<1>5. IosOwn(t) /\ Emptied(t) /\ InOrder(t) /\ OutHome(t)
  BY <1>4 DEF Good, IosOwn, Emptied, InOrder, OutHome
<1>6. Matched(r) /\ \A f \in r.pending : f.seq < r.nextSeq
  BY DEF Good, Matched, Names
<1>7. \A f : f.seq \in Nat /\ Names(r, f) => Names(t, f)
  <2> SUFFICES ASSUME NEW f, f.seq \in Nat, Names(r, f) PROVE Names(t, f)
    OBVIOUS
  <2>1. f.seq < r.nextSeq + 1 /\ f.seq # r.nextSeq
    BY <1>1 DEF Names
  <2> QED BY <1>2, <1>4, <2>1 DEF Names
<1>8. \A f : f.seq = r.nextSeq /\ f.req = x => Names(t, f)
  <2> SUFFICES ASSUME NEW f, f.seq = r.nextSeq, f.req = x PROVE Names(t, f)
    OBVIOUS
  <2>1. r.nextSeq < r.nextSeq + 1 /\ ~(r.nextSeq < r.nextSeq)
    BY <1>1
  <2> QED BY <1>2, <1>4, <1>6, <2>1 DEF Names
<1>9. Matched(t)
  <2>1. \A f \in t.pending : Names(t, f)
    <3>1. \A f \in r.pending : f.seq \in Nat /\ Names(r, f)
      BY <1>1, <1>6 DEF Matched, Entries
    <3> QED BY <1>2, <1>4, <1>7, <1>8, <3>1
  <2>2. \A f, g \in t.pending : f.seq = g.seq => f = g
    <3>1. ~(r.nextSeq < r.nextSeq)
      BY <1>1
    <3> QED BY <1>2, <1>4, <1>6, <3>1 DEF Matched
  <2>3. \A f \in ToSet(t.front) \cup ToSet(t.back) : f.kind = "request" => Names(t, f)
    <3> SUFFICES ASSUME NEW f \in ToSet(r.front) \cup ToSet(r.back), f.kind = "request"
                 PROVE  Names(t, f)
      BY <1>4
    <3>1. f \in Frames
      BY <1>1, ToSetIs
    <3>2. f.seq \in Nat
      BY <3>1 DEF Frames
    <3> QED BY <1>6, <1>7, <3>2 DEF Matched
  <2>4. \A f \in t.asked : Names(t, f)
    <3>1. \A f \in r.asked : f.seq \in Nat
      BY <1>1 DEF Asked
    <3> QED BY <1>4, <1>6, <1>7, <3>1 DEF Matched
  <2>5. \A h \in ToSet(t.buf) \cup ToSet(t.stream) :
          h.frame.kind = "reply" => Names(t, h.frame)
    <3> SUFFICES ASSUME NEW h \in ToSet(r.buf) \cup ToSet(r.stream), h.frame.kind = "reply"
                 PROVE  Names(t, h.frame)
      BY <1>4
    <3>1. h \in HalfFrames
      BY <1>1, ToSetIs
    <3>2. h.frame.seq \in Nat
      BY <3>1 DEF HalfFrames, Replies
    <3> QED BY <1>6, <1>7, <3>2 DEF Matched
  <2> QED BY <2>1, <2>2, <2>3, <2>4, <2>5 DEF Matched
<1>10. Good(t)
  BY <1>3, <1>5, <1>9 DEF Good
<1> QED BY <1>4, <1>8, <1>10 DEF t, e

LEMMA HandleRequestIs ==
    ASSUME NEW r, Good(r), NEW cmd \in [kind : {"request"}, req : Requests]
    PROVE  LET d == HandleRequest(r, cmd) IN
           /\ Good(d.s) /\ d.s.link = r.link /\ d.s.conn = r.conn /\ d.s.ios = r.ios
           /\ d.s.sending = r.sending
           /\ \/ d.completed = Completed({cmd}, "disconnected") /\ d.s.pending = r.pending
              \/ d.completed = {} /\ \E e : e.req = cmd.req /\ d.s.pending = r.pending \cup {e}
<1> DEFINE d == HandleRequest(r, cmd)
<1>1. CASE r.link # "connected"
  BY <1>1 DEF HandleRequest, Result
<1>2. CASE r.link = "connected"
  <2> DEFINE e == [seq |-> r.nextSeq, req |-> cmd.req, late |-> FALSE]
             t == [r EXCEPT !.nextSeq = @ + 1, !.pending = @ \cup {e}]
             f == [kind |-> "request", seq |-> r.nextSeq, req |-> cmd.req]
             u == QueueSend(t, f)
  <2>1. d = Result(u, {}) /\ d.s = u /\ d.completed = {}
    BY <1>2 DEF HandleRequest, Result
  <2>2. /\ Good(t) /\ t.link = r.link /\ t.conn = r.conn /\ t.ios = r.ios
        /\ t.sending = r.sending /\ t.pending = r.pending \cup {e}
        /\ \A g : g.seq = r.nextSeq /\ g.req = cmd.req => Names(t, g)
    BY <1>2, EnteredIs
  <2>3. r.nextSeq \in Nat
    BY DEF Good, Recs
  <2>4. /\ f \in Frames /\ f.kind = "request" /\ f.kind # "respond"
        /\ f.seq = r.nextSeq /\ f.req = cmd.req
    BY <2>3 DEF Frames
  <2>5. e.req = cmd.req
    OBVIOUS
  <2> HIDE DEF t, f, e
  <2>6. Names(t, f)
    BY <2>2, <2>4
  <2>7. /\ Good(u) /\ u.link = t.link /\ u.conn = t.conn /\ u.ios = t.ios
        /\ u.sending = t.sending /\ u.pending = t.pending
    BY <2>2, <2>4, <2>6, QueueSendIs
  <2> HIDE DEF u
  <2> QED BY <2>1, <2>2, <2>5, <2>7
<1> QED BY <1>1, <1>2

\* Entries leave the table.
LEMMA PendingLess ==
    ASSUME NEW r, Good(r), NEW gone
    PROVE  LET t == [r EXCEPT !.pending = @ \ gone] IN
           /\ Good(t) /\ t.link = r.link /\ t.conn = r.conn /\ t.ios = r.ios
           /\ t.buf = r.buf /\ t.front = r.front /\ t.back = r.back /\ t.sending = r.sending
           /\ t.pending = r.pending \ gone
<1> DEFINE t == [r EXCEPT !.pending = @ \ gone]
<1>1. r \in Recs /\ r.pending \subseteq Entries
  BY DEF Good, Recs
<1>2. t \in Recs
  <2>1. r.pending \ gone \in SUBSET Entries
    BY <1>1
  <2> QED BY <1>1, <2>1 DEF Recs
<1>3. /\ t.link = r.link /\ t.conn = r.conn /\ t.generation = r.generation
      /\ t.ctx = r.ctx /\ t.ios = r.ios /\ t.buf = r.buf /\ t.pending = r.pending \ gone
      /\ t.nextSeq = r.nextSeq /\ t.front = r.front /\ t.back = r.back /\ t.stream = r.stream
      /\ t.asked = r.asked /\ t.sending = r.sending
  BY <1>1 DEF Recs
<1> HIDE DEF t
<1>4. IosOwn(t) /\ Emptied(t) /\ InOrder(t) /\ OutHome(t)
  BY <1>3 DEF Good, IosOwn, Emptied, InOrder, OutHome
<1>5. Matched(t)
  <2>1. Matched(r) /\ t.pending \subseteq r.pending
    BY <1>3 DEF Good
  <2> QED BY <1>3, <2>1, MatchedLess
<1> QED BY <1>2, <1>3, <1>4, <1>5 DEF Good, t

LEMMA SweepIs ==
    ASSUME NEW r, Good(r), Speaks(r)
    PROVE  LET d == Sweep(r) IN
           /\ Sound(r, d) /\ Speaks(d.s) /\ d.s.conn = r.conn /\ d.s.link = r.link
           /\ d.s.ios = r.ios
           /\ \E gone \in SUBSET r.pending : /\ d.completed = Completed(gone, "timeout")
                                             /\ d.s.pending = r.pending \ gone
<1> DEFINE gone == {e \in r.pending : e.late}
           t == [r EXCEPT !.pending = @ \ gone]
           d == Sweep(r)
<1>1. d.s = t /\ d.completed = Completed(gone, "timeout")
  BY DEF Sweep, Result
<1>2. gone \in SUBSET r.pending
  OBVIOUS
<1> HIDE DEF gone
<1>3. /\ Good(t) /\ t.link = r.link /\ t.conn = r.conn /\ t.ios = r.ios
      /\ t.front = r.front /\ t.back = r.back /\ t.sending = r.sending
      /\ t.pending = r.pending \ gone
  BY PendingLess
<1> HIDE DEF t
<1>4. Speaks(t)
  BY <1>3 DEF Speaks, Listens, Posted, Flushed
<1>5. "timeout" \in Hows \ {"crossed"}
  BY DEF Hows
<1>6. Answers(Completed(gone, "timeout"), gone)
  BY <1>5, CompletedAnswers
<1>7. Sound(r, d)
  BY <1>1, <1>2, <1>3, <1>6 DEF Sound
<1> QED BY <1>1, <1>2, <1>3, <1>4, <1>7

\* A frame leaves the receive buffer.
LEMMA ConsumeIs ==
    ASSUME NEW r, Good(r), Len(r.buf) >= 2
    PROVE  LET t == Consume(r) IN
           /\ Good(t) /\ t.link = r.link /\ t.conn = r.conn /\ t.ios = r.ios
           /\ t.front = r.front /\ t.back = r.back /\ t.sending = r.sending
           /\ t.pending = r.pending
<1> DEFINE t == Consume(r)
           rest == SubSeq(r.buf, 3, Len(r.buf))
<1>1. r \in Recs /\ r.buf \in Seq(HalfFrames) /\ r.stream \in Seq(HalfFrames)
  BY DEF Good, Recs
<1>2. rest \in Seq(HalfFrames) /\ ToSet(rest) \subseteq ToSet(r.buf)
      /\ Aligned(rest \o r.stream, r.conn)
  BY <1>1, AlignedLess DEF Good, InOrder
<1>3. t = [r EXCEPT !.buf = rest]
  BY DEF Consume
<1> HIDE DEF rest
<1>4. t \in Recs
  BY <1>1, <1>2, <1>3, ZenonT(60) DEF Recs
<1>5. /\ t.link = r.link /\ t.conn = r.conn /\ t.generation = r.generation
      /\ t.ctx = r.ctx /\ t.ios = r.ios /\ t.buf = rest /\ t.pending = r.pending
      /\ t.nextSeq = r.nextSeq /\ t.front = r.front /\ t.back = r.back /\ t.stream = r.stream
      /\ t.asked = r.asked /\ t.sending = r.sending
  BY <1>1, <1>3 DEF Recs
<1> HIDE DEF t
<1>6. IosOwn(t) /\ OutHome(t) /\ InOrder(t)
  BY <1>2, <1>5 DEF Good, IosOwn, InOrder, OutHome
<1>7. Emptied(t)
  <2>1. r.buf # <<>>
    BY EmptySeq
  <2> QED BY <1>5, <2>1 DEF Good, Emptied
<1>8. Matched(t)
  <2>1. Matched(r) /\ ToSet(t.buf) \cup ToSet(t.stream) \subseteq ToSet(r.buf) \cup ToSet(r.stream)
    BY <1>2, <1>5 DEF Good
  <2> QED BY <1>5, <2>1, MatchedLess
<1> QED BY <1>4, <1>5, <1>6, <1>7, <1>8 DEF Good, t

\* An answer ends the entry it names, and it is that entry's answer.
LEMMA ReplyAnswers ==
    ASSUME Good(s), FrameReady, Frame.kind = "reply"
    PROVE  Waiting \subseteq s.pending /\ Answers(Replied(Waiting, Frame), Waiting)
<1>1. Waiting \subseteq s.pending /\ \A e \in Waiting : e.seq = Frame.seq
  BY DEF Waiting
<1>2. \A e \in Waiting : e.req = Frame.req
  <2>1. s.buf \in Seq(HalfFrames) /\ Len(s.buf) \in Nat /\ Len(s.buf) >= 2
    BY LenProperties DEF Good, Recs, FrameReady
  <2>2. s.buf[1] \in ToSet(s.buf)
    BY <2>1, ToSetIs
  <2>3. Names(s, Frame)
    BY <2>2 DEF Good, Matched, Frame
  <2> QED BY <1>1, <2>3 DEF Names
<1> DEFINE answered == Replied(Waiting, Frame)
<1>3. \A c \in answered : \E e \in Waiting : c = [req |-> e.req, how |-> "ok"]
  BY <1>2 DEF Replied
<1>4. \A e \in Waiting : [req |-> e.req, how |-> "ok"] \in answered
  BY <1>2 DEF Replied
<1> HIDE DEF answered
<1>5. \A c \in answered : c.how \in Hows \ {"crossed"} /\ Waits(Waiting, c.req)
  BY <1>3 DEF Waits, Hows
<1>6. \A e \in Waiting : Ended(answered, e.req)
  BY <1>4 DEF Ended
<1>7. \A c, d \in answered : c.req = d.req => c = d
  BY <1>3
<1> QED BY <1>1, <1>5, <1>6, <1>7 DEF Answers, answered

\* Two sets of entries that share no request are ended together.
LEMMA AnswersBoth ==
    ASSUME NEW p, NEW q, NEW a, NEW b, Answers(a, p), Answers(b, q),
           \A e \in p, f \in q : e.req # f.req
    PROVE  Answers(a \cup b, p \cup q)
<1>1. \A c \in a \cup b : c.how \in Hows \ {"crossed"} /\ Waits(p \cup q, c.req)
  BY DEF Answers, Waits
<1>2. \A e \in p \cup q : Ended(a \cup b, e.req)
  BY DEF Answers, Ended
<1>3. \A c, d \in a \cup b : c.req = d.req => c = d
  <2>1. \A c \in a : Waits(p, c.req)
    BY DEF Answers
  <2>2. \A c \in b : Waits(q, c.req)
    BY DEF Answers
  <2>3. \A c \in a, d \in b : c.req # d.req
    BY <2>1, <2>2 DEF Waits
  <2> QED BY <2>3 DEF Answers
<1> QED BY <1>1, <1>2, <1>3 DEF Answers

\* What does not change when a completion is taken, or the link is brought up.
Same(r, t) ==
    /\ t.conn = r.conn /\ t.generation = r.generation
    /\ t.buf = r.buf /\ t.pending = r.pending /\ t.nextSeq = r.nextSeq
    /\ t.front = r.front /\ t.back = r.back /\ t.stream = r.stream
    /\ t.asked = r.asked /\ t.sending = r.sending

LEMMA SameGood ==
    ASSUME NEW r, Good(r), NEW t \in Recs, Same(r, t), IosOwn(t), Emptied(t)
    PROVE  Good(t)
<1>1. InOrder(t) /\ OutHome(t)
  BY DEF Good, Same, InOrder, OutHome
<1>2. Matched(t)
  BY MatchedLess DEF Good, Same
<1> QED BY <1>1, <1>2 DEF Good

LEMMA TakenIs ==
    ASSUME Good(s), NEW io \in s.ios
    PROVE  LET t == Taken(io) IN
           /\ Good(t) /\ Same(s, t) /\ t.link = s.link /\ t.ios = s.ios \ {io}
           /\ \A jo \in t.ios : jo.op # io.op
           /\ Fresh(io) <=> s.link # "down"
<1> DEFINE t == Taken(io)
<1>1. /\ s \in Recs /\ s.ios \subseteq Ios /\ s.ctx \in [Ops -> Nat] /\ s.generation \in Nat
      /\ s.link \in {"down", "connecting", "connected"}
  BY DEF Good, Recs
<1>2. io.op \in Ops
  BY <1>1 DEF Ios
<1>3. [s.ctx EXCEPT ![io.op] = 0] \in [Ops -> Nat] /\ s.ios \ {io} \in SUBSET Ios
  BY <1>1, <1>2
<1>4. t \in Recs
  BY <1>1, <1>3 DEF Taken, Recs
<1>5. /\ Same(s, t) /\ t.link = s.link /\ t.ios = s.ios \ {io}
      /\ t.ctx = [s.ctx EXCEPT ![io.op] = 0]
  BY <1>1 DEF Taken, Recs, Same
<1> HIDE DEF t
<1>6. IosOwn(s)
  BY DEF Good
<1>7. \A jo \in t.ios : jo \in s.ios /\ jo.op # io.op
  BY <1>5, <1>6 DEF IosOwn
<1>8. \A jo \in t.ios : t.ctx[jo.op] = s.ctx[jo.op]
  <2> SUFFICES ASSUME NEW jo \in t.ios PROVE t.ctx[jo.op] = s.ctx[jo.op]
    OBVIOUS
  <2>1. jo.op \in Ops
    BY <1>1, <1>7 DEF Ios
  <2> QED BY <1>1, <1>5, <1>7, <2>1
<1>9. IosOwn(t)
  BY <1>5, <1>6, <1>7, <1>8 DEF IosOwn, Same
<1>10. Emptied(t)
  BY <1>5 DEF Good, Emptied, Same
<1>11. Fresh(io) <=> s.link # "down"
  <2>1. s.ctx[io.op] \in Nat
    BY <1>1, <1>2
  <2>2. s.link = "down" => s.ctx[io.op] < s.generation
    BY <1>6 DEF IosOwn
  <2>3. s.link # "down" => s.ctx[io.op] = s.generation
    BY <1>6 DEF IosOwn
  <2> QED BY <1>1, <2>1, <2>2, <2>3 DEF Fresh
<1> QED BY <1>4, <1>5, <1>7, <1>9, <1>10, <1>11, SameGood DEF t

LEMMA BeginConnectIs ==
    ASSUME NEW r, Good(r), r.link = "down", r.ios = {}, r.conn < MaxConns, NEW ok \in BOOLEAN
    PROVE  LET t == BeginConnect(r, ok) IN Good(t) /\ Speaks(t) /\ t.pending = r.pending
<1> DEFINE t == [r EXCEPT !.conn = @ + 1, !.due = FALSE]
           u == [t EXCEPT !.link = "connecting"]
<1>1. r \in Recs /\ r.conn \in 0..MaxConns
  BY DEF Good, Recs
<1>2. r.conn + 1 \in 0..MaxConns /\ r.conn + 1 # 0
  BY <1>1, S2sConnectorAssumption
<1>3. t \in Recs
  BY <1>1, <1>2 DEF Recs
<1>4. /\ t.link = r.link /\ t.conn = r.conn + 1 /\ t.ios = r.ios /\ t.buf = r.buf
      /\ t.pending = r.pending /\ t.nextSeq = r.nextSeq /\ t.front = r.front
      /\ t.back = r.back /\ t.stream = r.stream /\ t.asked = r.asked /\ t.sending = r.sending
  BY <1>1 DEF Recs
<1> HIDE DEF t
<1>5. IosOwn(t) /\ Emptied(t)
  BY <1>4 DEF Good, IosOwn, Emptied
<1>6. t.buf = <<>> /\ t.stream = <<>> /\ t.front = <<>> /\ t.back = <<>>
  BY <1>4, <1>5 DEF Emptied
<1>7. InOrder(t) /\ OutHome(t)
  <2>1. <<>> \o <<>> = <<>>
    BY ConcatEmptySeq
  <2> QED BY <1>6, <2>1, ToSetEmpty DEF InOrder, Aligned, OutHome, Home
<1>8. Matched(t)
  BY <1>4, MatchedLess DEF Good
<1>9. Good(t)
  BY <1>3, <1>5, <1>7, <1>8 DEF Good
<1>10. CASE ~ok
  <2>1. BeginConnect(r, ok) = t
    BY <1>10 DEF BeginConnect, t
  <2> QED BY <1>4, <1>9, <2>1, DownSpeaks
<1>11. CASE ok
  <2>1. u \in Recs
    BY <1>3 DEF Recs
  <2>2. Same(t, u) /\ u.link = "connecting" /\ u.ios = {} /\ u.ctx = t.ctx
    BY <1>3, <1>4 DEF Recs, Same
  <2> DEFINE v == Issue(u, "connect", 0)
  <2>3. BeginConnect(r, ok) = v
    BY <1>11 DEF BeginConnect, t
  <2> HIDE DEF u
  <2>4. IosOwn(u) /\ Emptied(u)
    BY <1>2, <1>4, <1>5, <2>2 DEF IosOwn, Emptied, Same
  <2>5. Good(u)
    BY <1>9, <2>1, <2>2, <2>4, SameGood
  <2>6. "connect" \in Ops /\ 0 \in Nat
    BY DEF Ops
  <2>7. Good(v) /\ v.link = u.link /\ v.pending = u.pending
    BY <2>2, <2>5, <2>6, IssueIs
  <2> HIDE DEF v
  <2>8. Speaks(v)
    BY <2>2, <2>7, DownSpeaks
  <2> QED BY <1>4, <2>2, <2>3, <2>7, <2>8 DEF Same
<1> QED BY <1>10, <1>11

\* A connect that is over was all there was: the link is up, or down again.
LEMMA ConnectedIs ==
    ASSUME Good(s), Speaks(s), NEW io \in s.ios, io.op = "connect", Fresh(io)
    PROVE  /\ LET t == [Taken(io) EXCEPT !.link = "connected"] IN
              /\ Good(t) /\ t.link = "connected" /\ t.ios = {} /\ t.conn = s.conn
              /\ t.pending = s.pending /\ Posted(t) /\ Flushed(t)
           /\ LET t == [Taken(io) EXCEPT !.link = "down", !.due = FALSE] IN
              Good(t) /\ Speaks(t) /\ t.link = "down" /\ t.conn = s.conn /\ t.pending = s.pending
<1> DEFINE t == Taken(io)
           u == [t EXCEPT !.link = "connected"]
           v == [t EXCEPT !.link = "down", !.due = FALSE]
<1>1. /\ Good(t) /\ Same(s, t) /\ t.link = s.link /\ t.ios = s.ios \ {io}
      /\ \A jo \in t.ios : jo.op # io.op
      /\ s.link # "down"
  BY TakenIs
<1> HIDE DEF t
<1>2. s.link = "connecting"
  BY <1>1 DEF Good, IosOwn, Recs
<1>3. t.ios = {}
  BY <1>1, <1>2 DEF Good, IosOwn
<1>4. t \in Recs /\ t.conn # 0
  BY <1>1 DEF Good, IosOwn
<1>5. u \in Recs /\ v \in Recs
  BY <1>4 DEF Recs
<1>6. Same(t, u) /\ u.link = "connected" /\ u.ios = {}
  BY <1>3, <1>4 DEF Recs, Same
<1>7. Same(t, v) /\ v.link = "down" /\ v.ios = {}
  BY <1>3, <1>4 DEF Recs, Same
<1> HIDE DEF u, v
<1>8. Emptied(t) /\ t.link # "connected"
  BY <1>1, <1>2 DEF Good
<1>9. Good(u)
  <2>1. IosOwn(u) /\ Emptied(u)
    BY <1>4, <1>6 DEF IosOwn, Emptied, Same
  <2> QED BY <1>1, <1>5, <1>6, <2>1, SameGood
<1>10. Good(v)
  <2>1. IosOwn(v) /\ Emptied(v)
    BY <1>7, <1>8 DEF IosOwn, Emptied, Same
  <2> QED BY <1>1, <1>5, <1>7, <2>1, SameGood
<1>11. Posted(u) /\ Flushed(u)
  BY <1>6, <1>8 DEF Same, Emptied, Posted, Flushed
<1>12. Speaks(v)
  BY <1>7, <1>10, DownSpeaks
<1> QED BY <1>1, <1>6, <1>7, <1>9, <1>10, <1>11, <1>12 DEF Same, t, u, v

\* Received bytes move to the buffer, sent frames leave theirs.
LEMMA ReceivedIs ==
    ASSUME Good(s), NEW io \in s.ios, io.op = "recv", Fresh(io), NEW n \in 0..Len(s.stream)
    PROVE  LET t == [Taken(io) EXCEPT !.buf = @ \o SubSeq(s.stream, 1, n),
                                      !.stream = SubSeq(@, n + 1, Len(@))]
           IN  /\ Good(t) /\ t.link = "connected" /\ t.conn = s.conn
               /\ t.ios = s.ios \ {io} /\ \A jo \in t.ios : jo.op # "recv"
               /\ t.pending = s.pending /\ t.front = s.front /\ t.back = s.back
               /\ t.sending = s.sending
<1> DEFINE first == SubSeq(s.stream, 1, n)
           rest == SubSeq(s.stream, n + 1, Len(s.stream))
           r == Taken(io)
           t == [r EXCEPT !.buf = @ \o first, !.stream = SubSeq(@, n + 1, Len(@))]
<1>1. s.buf \in Seq(HalfFrames) /\ s.stream \in Seq(HalfFrames)
  BY DEF Good, Recs
<1>2. /\ s.buf \o first \in Seq(HalfFrames) /\ rest \in Seq(HalfFrames)
      /\ (s.buf \o first) \o rest = s.buf \o s.stream
      /\ ToSet(s.buf \o first) \cup ToSet(rest) \subseteq ToSet(s.buf) \cup ToSet(s.stream)
  <2> DEFINE p == s.buf
             q == s.stream
  <2>1. p \in Seq(HalfFrames) /\ q \in Seq(HalfFrames) /\ n \in 0..Len(q)
    BY <1>1
  <2>2. first = FirstOf(q, n) /\ rest = RestOf(q, n)
    BY DEF FirstOf, RestOf
  <2> HIDE DEF p, q, first, rest
  <2>3. /\ p \o FirstOf(q, n) \in Seq(HalfFrames) /\ RestOf(q, n) \in Seq(HalfFrames)
        /\ (p \o FirstOf(q, n)) \o RestOf(q, n) = p \o q
        /\ ToSet(p \o FirstOf(q, n)) \cup ToSet(RestOf(q, n)) \subseteq ToSet(p) \cup ToSet(q)
    BY <2>1, Moved
  <2> QED BY <2>2, <2>3 DEF p, q
<1>3. /\ Good(r) /\ Same(s, r) /\ r.link = s.link /\ r.ios = s.ios \ {io}
      /\ \A jo \in r.ios : jo.op # "recv"
      /\ s.link # "down"
  BY TakenIs
<1>4. s.link = "connected"
  BY <1>3 DEF Good, IosOwn, Recs
<1> HIDE DEF r
<1>5. t = [r EXCEPT !.buf = s.buf \o first, !.stream = rest]
  BY <1>3 DEF Same
<1> HIDE DEF first, rest
<1>6. r \in Recs
  BY <1>3 DEF Good
<1>7. t \in Recs
  BY <1>2, <1>5, <1>6, ZenonT(60) DEF Recs
<1>8. /\ t.link = r.link /\ t.conn = r.conn /\ t.generation = r.generation
      /\ t.ctx = r.ctx /\ t.ios = r.ios /\ t.buf = s.buf \o first /\ t.pending = r.pending
      /\ t.nextSeq = r.nextSeq /\ t.front = r.front /\ t.back = r.back /\ t.stream = rest
      /\ t.asked = r.asked /\ t.sending = r.sending
  BY <1>5, <1>6 DEF Recs
<1> HIDE DEF t
<1>9. IosOwn(t) /\ Emptied(t) /\ OutHome(t)
  BY <1>3, <1>4, <1>8 DEF Good, IosOwn, Emptied, OutHome
<1>10. InOrder(t)
  BY <1>2, <1>3, <1>8 DEF Good, InOrder, Same
<1>11. Matched(t)
  <2>1. Matched(r) /\ ToSet(t.buf) \cup ToSet(t.stream) \subseteq ToSet(r.buf) \cup ToSet(r.stream)
    BY <1>2, <1>3, <1>8 DEF Good, Same
  <2> QED BY <1>8, <2>1, MatchedLess
<1> QED BY <1>3, <1>4, <1>7, <1>8, <1>9, <1>10, <1>11 DEF Good, Same, t, first, r

LEMMA SentIs ==
    ASSUME Good(s), Speaks(s), NEW io \in s.ios, io.op = "send", Fresh(io)
    PROVE  LET t == [Taken(io) EXCEPT !.front = SubSeq(@, io.n + 1, Len(@))] IN
           /\ Good(t) /\ t.link = "connected" /\ t.conn = s.conn /\ t.sending
           /\ \A jo \in t.ios : jo.op # "send"
           /\ Listens(t) /\ t.pending = s.pending
<1> DEFINE r == Taken(io)
           rest == SubSeq(s.front, io.n + 1, Len(s.front))
           t == [r EXCEPT !.front = SubSeq(@, io.n + 1, Len(@))]
<1>1. s.front \in Seq(Frames) /\ io.n \in Nat
  <2>1. s.front \in Seq(Frames) /\ s.ios \subseteq Ios
    BY DEF Good, Recs
  <2> QED BY <2>1 DEF Ios
<1>2. rest \in Seq(Frames) /\ ToSet(rest) \subseteq ToSet(s.front)
  <2>1. Len(s.front) \in Nat
    BY <1>1, LenProperties
  <2> QED BY <1>1, <2>1, ToSetSubSeq
<1>3. /\ Good(r) /\ Same(s, r) /\ r.link = s.link /\ r.ios = s.ios \ {io}
      /\ \A jo \in r.ios : jo.op # "send"
      /\ s.link # "down"
  BY TakenIs
<1>4. s.link = "connected"
  BY <1>3 DEF Good, IosOwn, Recs
<1> HIDE DEF r
<1>5. t = [r EXCEPT !.front = rest]
  BY <1>3 DEF Same
<1> HIDE DEF rest
<1>6. r \in Recs
  BY <1>3 DEF Good
<1>7. t \in Recs
  BY <1>2, <1>5, <1>6 DEF Recs
<1>8. /\ t.link = r.link /\ t.conn = r.conn /\ t.generation = r.generation
      /\ t.ctx = r.ctx /\ t.ios = r.ios /\ t.buf = r.buf /\ t.pending = r.pending
      /\ t.nextSeq = r.nextSeq /\ t.front = rest /\ t.back = r.back /\ t.stream = r.stream
      /\ t.asked = r.asked /\ t.sending = r.sending
  BY <1>5, <1>6 DEF Recs
<1> HIDE DEF t
<1>9. IosOwn(t) /\ Emptied(t) /\ InOrder(t)
  BY <1>3, <1>4, <1>8 DEF Good, IosOwn, Emptied, InOrder
<1>10. ToSet(t.front) \subseteq ToSet(r.front)
  BY <1>2, <1>3, <1>8 DEF Same
<1>11. OutHome(t)
  BY <1>3, <1>8, <1>10 DEF Good, OutHome, Home
<1>12. Matched(t)
  BY <1>3, <1>8, <1>10, MatchedLess DEF Good
<1>13. Good(t)
  BY <1>7, <1>9, <1>11, <1>12 DEF Good
<1>14. s.sending
  BY <1>4 DEF Speaks, Posted
<1>15. Listens(t)
  <2>1. PICK jo \in s.ios : jo.op = "recv"
    BY <1>4 DEF Speaks, Listens
  <2>2. jo \in t.ios
    BY <1>3, <1>8, <2>1
  <2> QED BY <2>1, <2>2 DEF Listens
<1> QED BY <1>3, <1>4, <1>8, <1>13, <1>14, <1>15 DEF Same, t, r

LEMMA PairSeq ==
    ASSUME NEW S, NEW a \in S, NEW b \in S
    PROVE  <<a, b>> \in Seq(S) /\ ToSet(<<a, b>>) = {a, b}
<1>1. <<a, b>> \in Seq(S)
  OBVIOUS
<1>2. DOMAIN <<a, b>> = 1..2 /\ <<a, b>>[1] = a /\ <<a, b>>[2] = b
  OBVIOUS
<1>3. 1..2 = {1, 2}
  OBVIOUS
<1>4. ToSet(<<a, b>>) = {<<a, b>>[i] : i \in {1, 2}}
  BY <1>2, <1>3 DEF ToSet
<1> QED BY <1>1, <1>2, <1>4

\* The peer's bytes arrive, in whole frames.
LEMMA HeardIs ==
    ASSUME Good(s), s.link = "connected",
           NEW frame \in Replies \cup [kind : {"request"}],
           frame.kind = "reply" => Names(s, frame), NEW left, left \subseteq s.asked
    PROVE  LET t == [s EXCEPT !.asked = left, !.stream = @ \o Halves(frame)] IN
           /\ Good(t) /\ t.link = "connected" /\ t.conn = s.conn /\ t.ios = s.ios
           /\ t.pending = s.pending /\ t.front = s.front /\ t.back = s.back
           /\ t.sending = s.sending
<1> DEFINE a == [conn |-> s.conn, frame |-> frame, half |-> 1]
           b == [conn |-> s.conn, frame |-> frame, half |-> 2]
           pair == <<a, b>>
           more == s.stream \o pair
           t == [s EXCEPT !.asked = left, !.stream = @ \o Halves(frame)]
<1>1. /\ s \in Recs /\ s.buf \in Seq(HalfFrames) /\ s.stream \in Seq(HalfFrames)
      /\ s.asked \subseteq Asked /\ s.conn \in 0..MaxConns
  BY DEF Good, Recs
<1>2. a \in HalfFrames /\ b \in HalfFrames
  BY <1>1 DEF HalfFrames
<1>3. pair \in Seq(HalfFrames) /\ ToSet(pair) = {a, b}
  BY <1>2, PairSeq
<1>4. /\ a.half = 1 /\ b.half = 2 /\ a.conn = s.conn /\ b.conn = s.conn
      /\ a.frame = frame /\ b.frame = frame
  OBVIOUS
<1>5. t = [s EXCEPT !.asked = left, !.stream = more]
  BY DEF Halves
<1>0. pair = <<a, b>>
  OBVIOUS
<1> HIDE DEF a, b, t, pair
<1>6. more \in Seq(HalfFrames) /\ ToSet(more) = ToSet(s.stream) \cup {a, b}
  <2>1. more \in Seq(HalfFrames)
    BY <1>1, <1>3, ConcatProperties
  <2>2. ToSet(more) = ToSet(s.stream) \cup ToSet(pair)
    BY <1>1, <1>3, ToSetConcat
  <2> QED BY <1>3, <2>1, <2>2
<1>7. (s.buf \o s.stream) \o pair = s.buf \o more
  <2>1. s.buf \in Seq(HalfFrames) /\ s.stream \in Seq(HalfFrames) /\ pair \in Seq(HalfFrames)
    BY <1>1, <1>3
  <2> DEFINE p == s.buf
             q == s.stream
  <2>2. p \in Seq(HalfFrames) /\ q \in Seq(HalfFrames)
    BY <2>1
  <2> HIDE DEF p, q
  <2>3. (p \o q) \o pair = p \o (q \o pair)
    BY <2>1, <2>2, Regroup, SMTT(60)
  <2> QED BY <2>3 DEF p, q
<1>8. Aligned((s.buf \o s.stream) \o pair, s.conn)
  <2>1. s.buf \o s.stream \in Seq(HalfFrames)
    BY <1>1, ConcatProperties
  <2>2. Aligned(s.buf \o s.stream, s.conn)
    BY DEF Good, InOrder
  <2> QED BY <1>0, <1>2, <1>4, <2>1, <2>2, AlignedMore
<1> HIDE DEF more
<1>9. t \in Recs
  <2>1. left \in SUBSET Asked
    BY <1>1
  <2> QED BY <1>1, <1>5, <1>6, <2>1 DEF Recs
<1>10. /\ t.link = s.link /\ t.conn = s.conn /\ t.generation = s.generation
      /\ t.ctx = s.ctx /\ t.ios = s.ios /\ t.buf = s.buf /\ t.pending = s.pending
      /\ t.nextSeq = s.nextSeq /\ t.front = s.front /\ t.back = s.back /\ t.stream = more
      /\ t.asked = left /\ t.sending = s.sending
  BY <1>1, <1>5 DEF Recs
<1>11. IosOwn(t) /\ Emptied(t) /\ OutHome(t)
  BY <1>10 DEF Good, IosOwn, Emptied, OutHome
<1>12. InOrder(t)
  BY <1>7, <1>8, <1>10 DEF InOrder
<1>13. Matched(t)
  <2>1. Matched(s)
    BY DEF Good
  <2>2. \A f : Names(s, f) => Names(t, f)
    BY <1>10 DEF Names
  <2>3. \A h \in ToSet(t.buf) \cup ToSet(t.stream) :
          h.frame.kind = "reply" => Names(t, h.frame)
    <3> SUFFICES ASSUME NEW h \in ToSet(t.buf) \cup ToSet(t.stream), h.frame.kind = "reply"
                 PROVE  Names(t, h.frame)
      OBVIOUS
    <3>1. CASE h \in {a, b}
      BY <1>4, <2>2, <3>1
    <3>2. CASE h \in ToSet(s.buf) \cup ToSet(s.stream)
      BY <2>1, <2>2, <3>2 DEF Matched
    <3> QED BY <1>6, <1>10, <3>1, <3>2
  <2> QED BY <1>10, <2>1, <2>2, <2>3 DEF Matched
<1> QED BY <1>9, <1>10, <1>11, <1>12, <1>13 DEF Good, t

\* The deadline of an entry passes.
LEMMA ExpiredIs ==
    ASSUME Good(s), NEW e \in s.pending
    PROVE  LET t == [s EXCEPT !.pending = (@ \ {e}) \cup {[e EXCEPT !.late = TRUE]}] IN
           /\ Good(t) /\ t.link = s.link /\ t.conn = s.conn /\ t.ios = s.ios
           /\ t.front = s.front /\ t.back = s.back /\ t.sending = s.sending
           /\ \E f : f.req = e.req /\ t.pending = (s.pending \ {e}) \cup {f}
<1> DEFINE f == [e EXCEPT !.late = TRUE]
           t == [s EXCEPT !.pending = (@ \ {e}) \cup {f}]
<1>1. s \in Recs /\ s.pending \subseteq Entries
  BY DEF Good, Recs
<1>2. f \in Entries /\ f.seq = e.seq /\ f.req = e.req
  BY <1>1 DEF Entries
<1> HIDE DEF f
<1>3. t \in Recs
  <2>1. (s.pending \ {e}) \cup {f} \in SUBSET Entries
    BY <1>1, <1>2
  <2> QED BY <1>1, <2>1 DEF Recs
<1>4. /\ t.link = s.link /\ t.conn = s.conn /\ t.generation = s.generation
      /\ t.ctx = s.ctx /\ t.ios = s.ios /\ t.buf = s.buf
      /\ t.pending = (s.pending \ {e}) \cup {f}
      /\ t.nextSeq = s.nextSeq /\ t.front = s.front /\ t.back = s.back /\ t.stream = s.stream
      /\ t.asked = s.asked /\ t.sending = s.sending
  BY <1>1 DEF Recs
<1> HIDE DEF t
<1>5. IosOwn(t) /\ Emptied(t) /\ InOrder(t) /\ OutHome(t)
  BY <1>4 DEF Good, IosOwn, Emptied, InOrder, OutHome
<1>6. Matched(t)
  <2>1. Matched(s)
    BY DEF Good
  <2>2. \A g : Names(s, g) => Names(t, g)
    BY <1>2, <1>4 DEF Names
  <2>3. Names(t, f)
    <3>1. Names(s, e)
      BY <2>1 DEF Matched
    <3>2. \A g \in t.pending : g.seq = e.seq => g.req = e.req
      BY <1>2, <1>4, <3>1 DEF Names
    <3> QED BY <1>2, <1>4, <3>1, <3>2 DEF Names
  <2>4. \A g \in t.pending : Names(t, g)
    BY <1>4, <2>1, <2>2, <2>3 DEF Matched
  <2>5. \A g, h \in t.pending : g.seq = h.seq => g = h
    BY <1>2, <1>4, <2>1 DEF Matched
  <2> QED BY <1>4, <2>1, <2>2, <2>4, <2>5 DEF Matched
<1> QED BY <1>2, <1>3, <1>4, <1>5, <1>6 DEF Good, t, f

\* The retry timer runs out.
LEMMA DueIs ==
    ASSUME Good(s), s.link = "down"
    PROVE  LET t == [s EXCEPT !.due = TRUE] IN
           Good(t) /\ t.link = "down" /\ t.conn = s.conn /\ t.pending = s.pending
<1> DEFINE t == [s EXCEPT !.due = TRUE]
<1>1. s \in Recs
  BY DEF Good
<1>2. t \in Recs
  BY <1>1 DEF Recs
<1>3. Same(s, t) /\ t.link = s.link /\ t.ios = s.ios /\ t.ctx = s.ctx
  BY <1>1 DEF Recs, Same
<1> HIDE DEF t
<1>4. IosOwn(t) /\ Emptied(t)
  BY <1>3 DEF Good, IosOwn, Emptied, Same
<1>5. Good(t)
  BY <1>2, <1>3, <1>4, SameGood
<1> QED BY <1>3, <1>5 DEF Same, t

\* A command, by the kind of its effect on the requests.
LEMMA RespondIs ==
    ASSUME NEW r, Good(r), NEW cmd \in [kind : {"respond"}, conn : 1..MaxConns],
           cmd.conn = r.conn
    PROVE  LET t == QueueSend(r, cmd) IN
           /\ Good(t) /\ t.link = r.link /\ t.conn = r.conn /\ t.ios = r.ios
           /\ t.sending = r.sending /\ t.pending = r.pending
<1>1. cmd \in Frames /\ cmd.kind # "request"
  BY DEF Frames
<1> QED BY <1>1, QueueSendIs

-----------------------------------------------------------------------------
(* A request is in one place *)

LEMMA SetToSeqIs ==
    /\ SetToSeq({}) = <<>>
    /\ \A h : SetToSeq({h}) = <<h>>
<1>1. SetToSeq({}) = <<>>
  <2>1. Cardinality({}) = 0 /\ 1..0 = {}
    BY FS_EmptySet
  <2> DEFINE f == [i \in {} |-> i]
  <2>2. f \in [1..Cardinality({}) -> {}] /\ IsInjective(f)
    BY <2>1 DEF IsInjective
  <2>3. SetToSeq({}) \in [1..Cardinality({}) -> {}]
    BY <2>2 DEF SetToSeq
  <2>4. SetToSeq({}) \in [1..0 -> {}]
    BY <2>1, <2>3
  <2>5. SetToSeq({}) \in Seq({}) /\ Len(SetToSeq({})) = 0
    BY <2>4
  <2> QED BY <2>5, EmptySeq
<1>2. ASSUME NEW h PROVE SetToSeq({h}) = <<h>>
  <2>1. Cardinality({h}) = 1 /\ 1..1 = {1}
    BY FS_Singleton
  <2>2. <<h>> \in [1..Cardinality({h}) -> {h}] /\ IsInjective(<<h>>)
    BY <2>1 DEF IsInjective
  <2>3. SetToSeq({h}) \in [1..Cardinality({h}) -> {h}]
    BY <2>2 DEF SetToSeq
  <2>4. SetToSeq({h}) \in [1..1 -> {h}]
    BY <2>1, <2>3
  <2> DEFINE f == SetToSeq({h})
  <2>5. f \in [1..1 -> {h}]
    BY <2>4
  <2> HIDE DEF f
  <2>6. f \in Seq({h}) /\ Len(f) = 1 /\ f[1] = h
    BY <2>5
  <2>7. <<h>> \in Seq({h}) /\ Len(<<h>>) = 1 /\ <<h>>[1] = h
    OBVIOUS
  <2>8. \A i \in 1..1 : i = 1
    OBVIOUS
  <2>9. f = <<h>>
    BY <2>6, <2>7, <2>8, SeqEqual
  <2> QED BY <2>9 DEF f
<1> QED BY <1>1, <1>2

\* What Record adds for one request.
LEMMA RecordIs ==
    ASSUME NEW completed, NEW x \in Requests,
           \A c, d \in completed : c.req = d.req => c = d, done[x] \in Seq(Hows)
    PROVE  /\ ~Ended(completed, x) => Record(completed)[x] = done[x]
           /\ \A c \in completed : c.req = x => Record(completed)[x] = done[x] \o <<c.how>>
<1> DEFINE hows == {c.how : c \in {y \in completed : y.req = x}}
<1>1. Record(completed)[x] = done[x] \o SetToSeq(hows)
  BY DEF Record
<1>2. ASSUME ~Ended(completed, x) PROVE Record(completed)[x] = done[x]
  <2>1. hows = {}
    BY <1>2 DEF Ended
  <2> HIDE DEF hows
  <2>2. Record(completed)[x] = done[x] \o <<>>
    BY <1>1, <2>1, SetToSeqIs
  <2> QED BY <2>2, ConcatEmptySeq
<1>3. ASSUME NEW c \in completed, c.req = x PROVE Record(completed)[x] = done[x] \o <<c.how>>
  <2>1. hows = {c.how}
    <3>1. {y \in completed : y.req = x} = {c}
      BY <1>3
    <3> QED BY <3>1
  <2> HIDE DEF hows
  <2> QED BY <1>1, <2>1, SetToSeqIs
<1> QED BY <1>2, <1>3

LEMMA RecordTyped ==
    ASSUME done \in [Requests -> Seq(Hows)], NEW completed,
           \A c, d \in completed : c.req = d.req => c = d,
           \A c \in completed : c.how \in Hows
    PROVE  Record(completed) \in [Requests -> Seq(Hows)]
<1>1. ASSUME NEW x \in Requests PROVE Record(completed)[x] \in Seq(Hows)
  <2>0. done[x] \in Seq(Hows)
    OBVIOUS
  <2>1. CASE ~Ended(completed, x)
    BY <2>0, <2>1, RecordIs
  <2>2. CASE Ended(completed, x)
    <3>1. PICK c \in completed : c.req = x
      BY <2>2 DEF Ended
    <3>2. Record(completed)[x] = done[x] \o <<c.how>>
      BY <2>0, <3>1, RecordIs
    <3>3. <<c.how>> \in Seq(Hows)
      OBVIOUS
    <3> QED BY <2>0, <3>2, <3>3, ConcatProperties
  <2> QED BY <2>1, <2>2
<1> QED BY <1>1 DEF Record

\* From one place to another.
LEMMA OnceFrom ==
    ASSUME NEW completed, NEW x \in Requests, done[x] \in Seq(Hows),
           \A c, d \in completed : c.req = d.req => c = d,
           \A c \in completed : c.how \in Hows \ {"crossed"},
           done[x] = <<>> \/ \E h \in Hows \ {"crossed"} : done[x] = <<h>>,
           NEW q, NEW p, NEW n, OneAt(q, x), OneEntry(p, x),
           ~(Queued(q, x) /\ Waits(p, x)),
           Queued(q, x) \/ Waits(p, x) => done[x] = <<>> /\ ~Ended(completed, x),
           Ended(completed, x) => done[x] = <<>>,
           x <= n <=> Queued(q, x) \/ Waits(p, x) \/ Ended(completed, x) \/ done[x] # <<>>
    PROVE  OnePlace(x, q, p, Record(completed)[x], n)
<1>1. CASE ~Ended(completed, x)
  <2>1. Record(completed)[x] = done[x]
    BY <1>1, RecordIs
  <2> QED BY <1>1, <2>1 DEF OnePlace
<1>2. CASE Ended(completed, x)
  <2>1. PICK c \in completed : c.req = x
    BY <1>2 DEF Ended
  <2>2. Record(completed)[x] = done[x] \o <<c.how>>
    BY <2>1, RecordIs
  <2>3. <<c.how>> \in Seq(Hows) /\ <<c.how>> # <<>>
    OBVIOUS
  <2>4. Record(completed)[x] = <<c.how>>
    BY <1>2, <2>2, <2>3, ConcatEmptySeq
  <2> QED BY <1>2, <2>3, <2>4 DEF OnePlace
<1> QED BY <1>1, <1>2

Labels == {"begin", "wait", "frames", "turn", "drain", "sweep",
           "cleanup", "reap", "last", "final", "done"}

\* What the parts of the invariant say of the next state.
LEMMA TypedNext ==
    ASSUME Others', pc' \in Labels, s' \in Recs, commands' \in Seq(Commands),
           batch' \in Seq(Commands), done' \in [Requests -> Seq(Hows)]
    PROVE  Typed'
<1>1. s'.link \in {"down", "connecting", "connected"} /\ s'.conn \in 0..MaxConns
      /\ s'.pending \subseteq Entries /\ s'.front \in Seq(Frames) /\ s'.back \in Seq(Frames)
  BY DEF Recs
<1>2. TypeOK'
  BY <1>1 DEF TypeOK, Others, Labels, Entries, Hows
<1> QED BY <1>2 DEF Typed

LEMMA TypedHas ==
    ASSUME Typed
    PROVE  /\ Others /\ pc \in Labels /\ s \in Recs
           /\ commands \in Seq(Commands) /\ batch \in Seq(Commands) /\ Queue \in Seq(Commands)
           /\ done \in [Requests -> Seq(Hows)]
           /\ \A x \in Requests : done[x] \in Seq(Hows)
<1>1. Others /\ pc \in Labels
  BY DEF Typed, TypeOK, Others, Labels
<1>2. /\ commands \in Seq(Commands) /\ batch \in Seq(Commands) /\ s \in Recs
      /\ done \in [Requests -> Seq(Hows)]
  BY DEF Typed
<1>3. Queue \in Seq(Commands)
  BY <1>2, ConcatProperties DEF Queue
<1> QED BY <1>1, <1>2, <1>3

LEMMA OnceHas ==
    ASSUME Typed, OnceInv, NEW x \in Requests
    PROVE  /\ OneAt(Queue, x) /\ OneEntry(s.pending, x)
           /\ done[x] = <<>> \/ \E h \in Hows \ {"crossed"} : done[x] = <<h>>
           /\ ~(Queued(Queue, x) /\ Waits(s.pending, x))
           /\ Queued(Queue, x) \/ Waits(s.pending, x) => done[x] = <<>>
           /\ x <= requests <=> Queued(Queue, x) \/ Waits(s.pending, x) \/ done[x] # <<>>
BY DEF OnceInv, Once, OnePlace

\* Nothing is queued or taken: entries end, or change what is not their request.
LEMMA OnceEnds ==
    ASSUME Typed, OnceInv, NEW p, NEW completed, NEW gone \in SUBSET s.pending,
           Answers(completed, gone), p = s.pending \ gone,
           s'.pending = p, done' = Record(completed),
           Queue' = Queue, requests' = requests
    PROVE  OnceInv'
<1> SUFFICES ASSUME NEW x \in Requests PROVE OnePlace(x, Queue', s'.pending, done'[x], requests')
  BY DEF OnceInv, Once
<1>1. /\ OneAt(Queue, x) /\ OneEntry(s.pending, x)
      /\ done[x] = <<>> \/ \E h \in Hows \ {"crossed"} : done[x] = <<h>>
      /\ ~(Queued(Queue, x) /\ Waits(s.pending, x))
      /\ Queued(Queue, x) \/ Waits(s.pending, x) => done[x] = <<>>
      /\ x <= requests <=> Queued(Queue, x) \/ Waits(s.pending, x) \/ done[x] # <<>>
  BY OnceHas
<1>2. /\ \A c \in completed : c.how \in Hows \ {"crossed"}
      /\ \A c, d \in completed : c.req = d.req => c = d
  BY DEF Answers
<1>3. Ended(completed, x) <=> Waits(gone, x)
  BY DEF Answers, Ended, Waits
<1>4. Waits(s.pending, x) <=> Waits(p, x) \/ Waits(gone, x)
  BY DEF Waits
<1>5. ~(Waits(p, x) /\ Waits(gone, x))
  BY <1>1 DEF Waits, OneEntry
<1>6. OneEntry(p, x)
  BY <1>1 DEF OneEntry
<1>7. done[x] \in Seq(Hows)
  BY TypedHas
<1>8. ~(Queued(Queue, x) /\ Waits(p, x))
  BY <1>1, <1>4
<1>9. Queued(Queue, x) \/ Waits(p, x) => done[x] = <<>> /\ ~Ended(completed, x)
  BY <1>1, <1>3, <1>4, <1>5
<1>10. Ended(completed, x) => done[x] = <<>>
  BY <1>1, <1>3, <1>4
<1>11. x <= requests <=> Queued(Queue, x) \/ Waits(p, x) \/ Ended(completed, x) \/ done[x] # <<>>
  BY <1>1, <1>3, <1>4
<1>12. OnePlace(x, Queue, p, Record(completed)[x], requests)
  BY <1>1, <1>2, <1>6, <1>7, <1>8, <1>9, <1>10, <1>11, OnceFrom
<1> QED BY <1>12

\* Nobody is completed: one command is queued, an entry is replaced.
LEMMA OncePuts ==
    ASSUME Typed, OnceInv, NEW c \in Commands, NEW p, s'.pending = p,
           Queue' = Append(Queue, c), done' = done,
           \A x \in Requests : (Waits(p, x) <=> Waits(s.pending, x)) /\ OneEntry(p, x),
           \A x \in Requests : Requested(c, x) => x = requests + 1,
           requests \in Nat,
           requests' = IF c.kind = "request" THEN requests + 1 ELSE requests,
           c.kind = "request" => c.req = requests + 1
    PROVE  OnceInv'
<1> SUFFICES ASSUME NEW x \in Requests PROVE OnePlace(x, Queue', s'.pending, done'[x], requests')
  BY DEF OnceInv, Once
<1>1. /\ OneAt(Queue, x) /\ OneEntry(s.pending, x)
      /\ done[x] = <<>> \/ \E h \in Hows \ {"crossed"} : done[x] = <<h>>
      /\ ~(Queued(Queue, x) /\ Waits(s.pending, x))
      /\ Queued(Queue, x) \/ Waits(s.pending, x) => done[x] = <<>>
      /\ x <= requests <=> Queued(Queue, x) \/ Waits(s.pending, x) \/ done[x] # <<>>
  BY OnceHas
<1>2. x \in Nat
  BY S2sConnectorAssumption DEF Requests
<1>3. /\ Queued(Queue', x) <=> Queued(Queue, x) \/ Requested(c, x)
      /\ OneAt(Queue, x) /\ ~(Queued(Queue, x) /\ Requested(c, x)) => OneAt(Queue', x)
  BY TypedHas, QueuedAppend
<1>4. Requested(c, x) => c.kind = "request" /\ ~(x <= requests) /\ x <= requests'
  BY <1>2 DEF Requested
<1>5. ~Requested(c, x) => (x <= requests' <=> x <= requests)
  BY <1>2 DEF Requested
<1>6. OneAt(Queue', x)
  BY <1>1, <1>3, <1>4
<1>7. Waits(s'.pending, x) <=> Waits(s.pending, x)
  OBVIOUS
<1>8. done'[x] = done[x]
  OBVIOUS
<1>9. OneEntry(s'.pending, x)
  <2>1. OneEntry(p, x)
    OBVIOUS
  <2> QED BY <2>1
<1> HIDE DEF Queue
<1> QED BY <1>1, <1>3, <1>4, <1>5, <1>6, <1>7, <1>8, <1>9 DEF OnePlace

LEMMA QueueAppends ==
    ASSUME Typed, NEW c \in Commands, commands' = Append(commands, c), batch' = batch
    PROVE  Queue' = Append(Queue, c) /\ commands' \in Seq(Commands) /\ batch' \in Seq(Commands)
<1> DEFINE a == batch
           b == commands
           one == <<c>>
<1>1. a \in Seq(Commands) /\ b \in Seq(Commands) /\ one \in Seq(Commands)
      /\ a \o b \in Seq(Commands)
  BY TypedHas DEF Queue
<1> HIDE DEF a, b, one
<1>2. Append(b, c) = b \o one
  BY <1>1, AppendIsConcat DEF one
<1>3. Append(a \o b, c) = (a \o b) \o one
  BY <1>1, AppendIsConcat DEF one
<1>4. (a \o b) \o one = a \o (b \o one)
  BY <1>1, Regroup, SMTT(60)
<1>5. a \o Append(b, c) = Append(a \o b, c)
  BY <1>2, <1>3, <1>4
<1>6. Append(b, c) \in Seq(Commands)
  BY <1>1, AppendProperties
<1> QED BY <1>1, <1>5, <1>6 DEF a, b, Queue

LEMMA QueueTakes ==
    ASSUME Typed, batch # <<>>, batch' = Tail(batch), commands' = commands
    PROVE  /\ Queue # <<>> /\ Queue' = Tail(Queue) /\ Head(Queue) = Head(batch)
           /\ Head(batch) \in Commands /\ batch' \in Seq(Commands)
<1> DEFINE a == batch
           b == commands
           q == a \o b
           t == Tail(a)
           u == Tail(q)
           r == t \o b
<1>1. a \in Seq(Commands) /\ b \in Seq(Commands) /\ a # <<>>
  BY TypedHas
<1> HIDE DEF a, b
<1>2. /\ Len(a) \in Nat \ {0} /\ Len(b) \in Nat /\ Head(a) = a[1] /\ Head(a) \in Commands
      /\ t \in Seq(Commands) /\ Len(t) = Len(a) - 1
      /\ \A i \in 1..Len(t) : t[i] = a[i + 1]
  BY <1>1, EmptySeq, HeadTailProperties, LenProperties
<1>3. /\ q \in Seq(Commands) /\ Len(q) = Len(a) + Len(b)
      /\ \A i \in 1..Len(a) + Len(b) : q[i] = IF i <= Len(a) THEN a[i] ELSE b[i - Len(a)]
  BY <1>1, ConcatProperties
<1> HIDE DEF t
<1>4. /\ r \in Seq(Commands) /\ Len(r) = Len(t) + Len(b)
      /\ \A i \in 1..Len(t) + Len(b) : r[i] = IF i <= Len(t) THEN t[i] ELSE b[i - Len(t)]
  BY <1>1, <1>2, ConcatProperties, ZenonT(60)
<1> HIDE DEF q, r
<1>5. q # <<>>
  BY <1>2, <1>3, EmptySeq
<1>6. /\ u \in Seq(Commands) /\ Len(u) = Len(q) - 1 /\ Head(q) = q[1]
      /\ \A i \in 1..Len(u) : u[i] = q[i + 1]
  BY <1>3, <1>5, HeadTailProperties
<1> HIDE DEF u
<1>7. q[1] = a[1]
  <2>1. 1 \in 1..Len(a) + Len(b) /\ 1 <= Len(a)
    BY <1>2
  <2> QED BY <1>3, <2>1
<1>8. Len(u) = Len(r)
  BY <1>2, <1>3, <1>4, <1>6
<1>9. ASSUME NEW i \in 1..Len(u) PROVE u[i] = r[i]
  <2>1. /\ i \in 1..Len(t) + Len(b) /\ i + 1 \in 1..Len(a) + Len(b)
        /\ i + 1 <= Len(a) <=> i <= Len(t)
        /\ (i + 1) - Len(a) = i - Len(t)
    BY <1>2, <1>3, <1>6
  <2>2. CASE i <= Len(t)
    <3>1. i \in 1..Len(t)
      BY <1>2, <2>1, <2>2
    <3>2. t[i] = a[i + 1]
      BY <1>2, <3>1
    <3> QED BY <1>3, <1>4, <1>6, <2>1, <2>2, <3>2
  <2>3. CASE ~(i <= Len(t))
    <3>1. r[i] = b[i - Len(t)]
      BY <1>4, <2>1, <2>3
    <3>2. q[i + 1] = b[(i + 1) - Len(a)]
      BY <1>3, <2>1, <2>3
    <3> QED BY <1>6, <2>1, <3>1, <3>2
  <2> QED BY <2>2, <2>3
<1>10. u = r
  BY <1>4, <1>6, <1>8, <1>9, SeqEqual
<1> QED BY <1>2, <1>5, <1>6, <1>7, <1>10 DEF a, b, q, t, u, r, Queue

\* A command is taken: it completes at once, waits from now on, or was no request.
LEMMA OnceTakes ==
    ASSUME Typed, OnceInv, Queue # <<>>, Queue' = Tail(Queue), NEW cmd, cmd = Head(Queue),
           requests' = requests, NEW completed, NEW p, s'.pending = p, done' = Record(completed),
           \/ /\ cmd.kind # "request"
              /\ \E gone \in SUBSET s.pending : p = s.pending \ gone /\ Answers(completed, gone)
           \/ cmd.kind = "request" /\ completed = Completed({cmd}, "disconnected") /\ p = s.pending
           \/ /\ cmd.kind = "request" /\ completed = {}
              /\ \E e : e.req = cmd.req /\ p = s.pending \cup {e}
    PROVE  OnceInv'
<1> SUFFICES ASSUME NEW x \in Requests
             PROVE  OnePlace(x, Queue', p, Record(completed)[x], requests)
  BY DEF OnceInv, Once
<1> DEFINE rest == Tail(Queue)
<1>1. /\ OneAt(Queue, x) /\ OneEntry(s.pending, x)
      /\ done[x] = <<>> \/ \E h \in Hows \ {"crossed"} : done[x] = <<h>>
      /\ ~(Queued(Queue, x) /\ Waits(s.pending, x))
      /\ Queued(Queue, x) \/ Waits(s.pending, x) => done[x] = <<>>
      /\ x <= requests <=> Queued(Queue, x) \/ Waits(s.pending, x) \/ done[x] # <<>>
  BY OnceHas
<1>2. done[x] \in Seq(Hows) /\ Queue \in Seq(Commands)
  BY TypedHas
<1>3. /\ Queued(Queue, x) <=> Queued(rest, x) \/ Requested(cmd, x)
      /\ OneAt(rest, x) /\ ~(Queued(rest, x) /\ Requested(cmd, x))
  BY <1>1, <1>2, QueuedTail
<1> HIDE DEF Queue, rest
<1>4. CASE /\ cmd.kind # "request"
           /\ \E gone \in SUBSET s.pending : p = s.pending \ gone /\ Answers(completed, gone)
  <2>1. PICK gone \in SUBSET s.pending : p = s.pending \ gone /\ Answers(completed, gone)
    BY <1>4
  <2>2. ~Requested(cmd, x)
    BY <1>4 DEF Requested
  <2>3. /\ \A c \in completed : c.how \in Hows \ {"crossed"}
        /\ \A c, d \in completed : c.req = d.req => c = d
    BY <2>1 DEF Answers
  <2>4. Ended(completed, x) <=> Waits(gone, x)
    BY <2>1 DEF Answers, Ended, Waits
  <2>5. Waits(s.pending, x) <=> Waits(p, x) \/ Waits(gone, x)
    BY <2>1 DEF Waits
  <2>6. ~(Waits(p, x) /\ Waits(gone, x)) /\ OneEntry(p, x)
    BY <1>1, <2>1 DEF Waits, OneEntry
  <2>7. OnePlace(x, rest, p, Record(completed)[x], requests)
    <3>1. ~(Queued(rest, x) /\ Waits(p, x))
      BY <1>1, <1>3, <2>5
    <3>2. Queued(rest, x) \/ Waits(p, x) => done[x] = <<>> /\ ~Ended(completed, x)
      BY <1>1, <1>3, <2>4, <2>5, <2>6
    <3>3. Ended(completed, x) => done[x] = <<>>
      BY <1>1, <2>4, <2>5
    <3>4. x <= requests <=> Queued(rest, x) \/ Waits(p, x) \/ Ended(completed, x) \/ done[x] # <<>>
      BY <1>1, <1>3, <2>2, <2>4, <2>5
    <3> QED BY <1>1, <1>2, <1>3, <2>3, <2>6, <3>1, <3>2, <3>3, <3>4, OnceFrom
  <2> QED BY <2>7 DEF rest
<1>5. CASE /\ cmd.kind = "request" /\ completed = Completed({cmd}, "disconnected")
           /\ p = s.pending
  <2>1. Requested(cmd, x) <=> cmd.req = x
    BY <1>5 DEF Requested
  <2>2. completed = {[req |-> cmd.req, how |-> "disconnected"]}
    BY <1>5 DEF Completed
  <2>3. /\ \A c \in completed : c.how \in Hows \ {"crossed"}
        /\ \A c, d \in completed : c.req = d.req => c = d
        /\ Ended(completed, x) <=> cmd.req = x
    BY <2>2 DEF Hows, Ended
  <2>4. OnePlace(x, rest, p, Record(completed)[x], requests)
    <3>1. ~(Queued(rest, x) /\ Waits(p, x)) /\ OneEntry(p, x)
      BY <1>1, <1>3, <1>5
    <3>2. Queued(rest, x) \/ Waits(p, x) => done[x] = <<>> /\ ~Ended(completed, x)
      BY <1>1, <1>3, <1>5, <2>1, <2>3
    <3>3. Ended(completed, x) => done[x] = <<>>
      BY <1>1, <1>3, <2>1, <2>3
    <3>4. x <= requests <=> Queued(rest, x) \/ Waits(p, x) \/ Ended(completed, x) \/ done[x] # <<>>
      BY <1>1, <1>3, <1>5, <2>1, <2>3
    <3> QED BY <1>1, <1>2, <1>3, <2>3, <3>1, <3>2, <3>3, <3>4, OnceFrom
  <2> QED BY <2>4 DEF rest
<1>6. CASE /\ cmd.kind = "request" /\ completed = {}
           /\ \E e : e.req = cmd.req /\ p = s.pending \cup {e}
  <2>1. PICK e : e.req = cmd.req /\ p = s.pending \cup {e}
    BY <1>6
  <2>2. Requested(cmd, x) <=> e.req = x
    BY <1>6, <2>1 DEF Requested
  <2>3. ~Ended(completed, x)
    BY <1>6 DEF Ended
  <2>4. Waits(p, x) <=> Waits(s.pending, x) \/ e.req = x
    BY <2>1 DEF Waits
  <2>5. OneEntry(p, x)
    BY <1>1, <1>3, <2>1, <2>2 DEF OneEntry, Waits
  <2>6. OnePlace(x, rest, p, Record(completed)[x], requests)
    <3>1. ~(Queued(rest, x) /\ Waits(p, x))
      BY <1>1, <1>3, <2>2, <2>4
    <3>2. Queued(rest, x) \/ Waits(p, x) => done[x] = <<>> /\ ~Ended(completed, x)
      BY <1>1, <1>3, <2>2, <2>3, <2>4
    <3>3. x <= requests <=> Queued(rest, x) \/ Waits(p, x) \/ Ended(completed, x) \/ done[x] # <<>>
      BY <1>1, <1>3, <2>2, <2>3, <2>4
    <3>4. \A c \in completed : FALSE
      BY <1>6
    <3> QED BY <1>1, <1>2, <1>3, <2>3, <2>5, <3>1, <3>2, <3>3, <3>4, OnceFrom
  <2> QED BY <2>6 DEF rest
<1> QED BY <1>4, <1>5, <1>6

-----------------------------------------------------------------------------
(* One case per action *)

\* What the invariant says where the thread is at the label next, its record r.
SpeakAt(next, r) ==
    /\ IF next = "frames" THEN r.link = "connected" /\ \A io \in r.ios : io.op # "recv"
                          ELSE Listens(r)
    /\ Posted(r)
    /\ next # "drain" => Flushed(r)

\* A step of the thread that neither queues a command nor takes one.
LEMMA OwnStep ==
    ASSUME Connected, NEW at, NEW d, NEW next \in Labels, Own(at, d, next),
           UNCHANGED <<batch, commands, requests>>, Others',
           Sound(s, d), SpeakAt(next, d.s),
           next # "begin", next \in {"reap", "last", "final", "done"} => d.s.link = "down",
           batch # <<>> => next \in {"drain", "final"},
           d.s.conn = s.conn \/ (batch = <<>> /\ at \notin {"frames", "turn"}),
           at \in {"frames", "turn"} => next \in {"frames", "turn"}
    PROVE  Connected'
<1>1. /\ s' = d.s /\ done' = Record(d.completed) /\ pc' = next /\ pc = at
      /\ batch' = batch /\ commands' = commands /\ requests' = requests
  BY DEF Own
<1>2. Typed /\ Good(s) /\ SpeakInv /\ ThreadInv /\ OnceInv
  BY DEF Connected
<1>3. /\ Others /\ commands \in Seq(Commands) /\ batch \in Seq(Commands)
      /\ done \in [Requests -> Seq(Hows)]
  BY <1>2, TypedHas
<1>4. PICK gone \in SUBSET s.pending :
         d.s.pending = s.pending \ gone /\ Answers(d.completed, gone)
  BY DEF Sound
<1>5. Record(d.completed) \in [Requests -> Seq(Hows)]
  <2>1. /\ \A c \in d.completed : c.how \in Hows
        /\ \A c, e \in d.completed : c.req = e.req => c = e
    BY <1>4 DEF Answers
  <2> QED BY <1>3, <2>1, RecordTyped
<1>6. Good(d.s) /\ d.s \in Recs
  BY DEF Sound, Good
<1>7. Typed'
  BY <1>1, <1>3, <1>5, <1>6, TypedNext
<1>8. Good(s')
  BY <1>1, <1>6
<1>9. SpeakInv'
  BY <1>1 DEF SpeakInv, SpeakAt, Listens, Posted, Flushed
<1>10. ThreadInv'
  <2>1. Home(batch, s.conn)
    BY <1>2 DEF ThreadInv
  <2>2. Home(batch, d.s.conn)
    BY <2>1, ToSetEmpty DEF Home
  <2>3. \A c \in ToSet(commands) :
           c.kind = "respond" => c.conn = s.conn /\ pc \in {"frames", "turn"}
    BY <1>2 DEF ThreadInv
  <2>4. \A c \in ToSet(commands) :
           c.kind = "respond" => c.conn = d.s.conn /\ next \in {"frames", "turn"}
    BY <1>1, <2>3
  <2> QED BY <1>1, <2>2, <2>4 DEF ThreadInv
<1>11. OnceInv'
  <2>1. Queue' = Queue
    BY <1>1 DEF Queue
  <2> QED BY <1>1, <1>2, <1>4, <2>1, OnceEnds
<1> QED BY <1>7, <1>8, <1>9, <1>10, <1>11 DEF Connected

LEMMA SpeaksAt ==
    ASSUME NEW r, Speaks(r), NEW next, next # "frames"
    PROVE  SpeakAt(next, r)
BY DEF Speaks, SpeakAt

\* Nothing is completed, no request is queued or taken.
LEMMA OnceSame ==
    ASSUME OnceInv, Queue' = Queue, requests' = requests, done' = done,
           \A x \in Requests : (Waits(s'.pending, x) <=> Waits(s.pending, x))
                               /\ (OneEntry(s.pending, x) => OneEntry(s'.pending, x))
    PROVE  OnceInv'
<1> SUFFICES ASSUME NEW x \in Requests PROVE OnePlace(x, Queue', s'.pending, done'[x], requests')
  BY DEF OnceInv, Once
<1>1. OnePlace(x, Queue, s.pending, done[x], requests)
  BY DEF OnceInv, Once
<1>2. done'[x] = done[x]
  OBVIOUS
<1> HIDE DEF Queue
<1> QED BY <1>1, <1>2 DEF OnePlace

\* A step that keeps the requests where they are; r is the record after it.
LEMMA QuietStep ==
    ASSUME Connected, NEW r, s' = r, Good(r), r.conn = s.conn,
           \A x \in Requests : (Waits(r.pending, x) <=> Waits(s.pending, x))
                               /\ (OneEntry(s.pending, x) => OneEntry(r.pending, x)),
           UNCHANGED <<batch, commands, requests, done>>, Others',
           NEW next \in Labels, pc' = next, next = pc \/ (pc = "wait" /\ next = "turn"),
           SpeakAt(next, r), next = "begin" => r = s,
           next \in {"reap", "last", "final", "done"} => r.link = "down"
    PROVE  Connected'
<1>1. /\ batch' = batch /\ commands' = commands /\ requests' = requests /\ done' = done
      /\ s' = r /\ pc' = next
  OBVIOUS
<1>2. Typed /\ Good(s) /\ SpeakInv /\ ThreadInv /\ OnceInv
  BY DEF Connected
<1>3. /\ Others /\ commands \in Seq(Commands) /\ batch \in Seq(Commands)
      /\ done \in [Requests -> Seq(Hows)]
  BY <1>2, TypedHas
<1>4. r \in Recs
  BY DEF Good
<1>5. Typed'
  BY <1>1, <1>3, <1>4, TypedNext
<1>6. Good(s')
  BY <1>1
<1>7. SpeakInv'
  BY <1>1 DEF SpeakInv, SpeakAt, Listens, Posted, Flushed
<1>8. ThreadInv'
  BY <1>1, <1>2 DEF ThreadInv
<1>9. OnceInv'
  <2>1. Queue' = Queue
    BY <1>1 DEF Queue
  <2> QED BY <1>1, <1>2, <2>1, OnceSame
<1> QED BY <1>5, <1>6, <1>7, <1>8, <1>9 DEF Connected

LEMMA SpeakHas ==
    ASSUME Connected
    PROVE  SpeakAt(pc, s)
BY DEF Connected, SpeakInv, SpeakAt

\* Steps of other threads that only raise flags, and of the thread that only wakes.
LEMMA FlagsStep ==
    ASSUME Connected, Wake \/ StopFlag \/ StopClose \/ TakeWake
    PROVE  Connected'
<1>1. /\ s' = s /\ UNCHANGED <<batch, commands, requests, done>>
      /\ pc' = pc \/ (pc = "wait" /\ pc' = "turn")
  BY DEF Wake, StopFlag, StopClose, TakeWake, threadVars, submitVars
<1>2. Typed /\ Good(s) /\ ThreadInv /\ pc \in Labels /\ Others
  BY TypedHas DEF Connected
<1>3. Others'
  <2>1. CASE Wake
    <3>1. owing' \in Nat
      BY <1>2, <2>1 DEF Wake, Others
    <3> QED BY <1>2, <2>1, <3>1 DEF Wake, Others
  <2>2. CASE StopFlag
    BY <1>2, <2>2 DEF StopFlag, submitVars, Others
  <2>3. CASE StopClose
    BY <1>2, <2>3 DEF StopClose, Others
  <2>4. CASE TakeWake
    BY <1>2, <2>4 DEF TakeWake, Others
  <2> QED BY <2>1, <2>2, <2>3, <2>4
<1>4. pc' \in Labels
  BY <1>1, <1>2 DEF Labels
<1>5. SpeakAt(pc', s)
  BY <1>1, SpeakHas DEF SpeakAt
<1>6. pc' = "begin" => pc = "begin"
  BY <1>1
<1>7. pc' \in {"reap", "last", "final", "done"} => s.link = "down"
  BY <1>1, <1>2 DEF ThreadInv
<1> QED BY <1>1, <1>2, <1>3, <1>4, <1>5, <1>7, QuietStep

\* A command is queued; nothing else that the thread or the requests see changes.
LEMMA PushStep ==
    ASSUME Connected, PushRequest \/ PushCut
    PROVE  Connected'
<1>1. Typed /\ Good(s) /\ SpeakInv /\ ThreadInv /\ OnceInv
  BY DEF Connected
<1>2. /\ Others /\ commands \in Seq(Commands) /\ batch \in Seq(Commands) /\ pc \in Labels
      /\ done \in [Requests -> Seq(Hows)] /\ s \in Recs
  BY <1>1, TypedHas
<1>3. MaxRequests \in Nat /\ requests \in Nat /\ requests \in 0..MaxRequests
  BY <1>2, S2sConnectorAssumption DEF Others
<1>4. PICK c \in Commands :
         /\ commands' = Append(commands, c) /\ c.kind # "respond"
         /\ requests' = IF c.kind = "request" THEN requests + 1 ELSE requests
         /\ c.kind = "request" => c.req = requests + 1
  <2>1. CASE PushRequest
    <3> DEFINE c == [kind |-> "request", req |-> requests + 1]
    <3>1. requests + 1 \in Requests
      BY <1>3, <2>1 DEF PushRequest, Requests
    <3>2. c \in Commands /\ c.kind = "request" /\ c.req = requests + 1
      BY <3>1 DEF Commands
    <3>3. commands' = Append(commands, c) /\ requests' = requests + 1
      BY <2>1 DEF PushRequest, Push
    <3> HIDE DEF c
    <3> QED BY <3>2, <3>3
  <2>2. CASE PushCut
    <3> DEFINE c == [kind |-> "cut"]
    <3>1. c \in Commands /\ c.kind = "cut"
      BY DEF Commands
    <3>2. commands' = Append(commands, c) /\ requests' = requests
      BY <2>2 DEF PushCut, Push
    <3> HIDE DEF c
    <3> QED BY <3>1, <3>2
  <2> QED BY <2>1, <2>2
<1>5. /\ s' = s /\ pc' = pc /\ batch' = batch /\ done' = done
  BY DEF PushRequest, PushCut, Push, threadVars
<1>6. Others'
  <2>1. requests' \in 0..MaxRequests
    BY <1>3 DEF PushRequest, PushCut, Push
  <2>2. cuts' \in 0..MaxCuts
    BY <1>2, S2sConnectorAssumption, SMTT(60) DEF PushRequest, PushCut, Push, Others
  <2> QED BY <1>2, <2>1, <2>2, SMTT(60) DEF PushRequest, PushCut, Push, Others
<1>7. /\ Queue' = Append(Queue, c) /\ commands' \in Seq(Commands) /\ batch' \in Seq(Commands)
  BY <1>1, <1>4, <1>5, QueueAppends
<1>8. Typed'
  BY <1>2, <1>5, <1>6, <1>7, TypedNext
<1>9. Good(s') /\ SpeakInv'
  BY <1>1, <1>5 DEF SpeakInv
<1>10. ThreadInv'
  <2>1. ToSet(commands') = ToSet(commands) \cup {c}
    BY <1>2, <1>4, ToSetAppend
  <2> QED BY <1>1, <1>4, <1>5, <2>1 DEF ThreadInv
<1>11. OnceInv'
  <2>1. \A x \in Requests : OneEntry(s.pending, x)
    BY <1>1, OnceHas
  <2>2. \A x \in Requests : Requested(c, x) => x = requests + 1
    BY <1>4 DEF Requested
  <2>3. s'.pending = s.pending
    BY <1>5
  <2> QED BY <1>1, <1>3, <1>4, <1>5, <1>7, <2>1, <2>2, <2>3, OncePuts
<1> QED BY <1>8, <1>9, <1>10, <1>11 DEF Connected

-----------------------------------------------------------------------------
(* The steps of the thread *)

\* Between two waits the queue taken is empty, but while it is drained.
LEMMA BatchEmpty ==
    ASSUME Connected, pc \notin {"drain", "final"}
    PROVE  batch = <<>>
BY DEF Connected, ThreadInv

LEMMA OthersKept ==
    ASSUME Connected, UnchangedOutside
    PROVE  Others' /\ UNCHANGED <<batch, commands, requests>>
<1>1. Others
  BY TypedHas DEF Connected
<1> QED BY <1>1 DEF UnchangedOutside, submitVars, Others

\* A callback that cuts the link.
LEMMA OthersCut ==
    ASSUME Connected, CutInside, UNCHANGED <<running, stopper, submitVars, batch, asks>>
    PROVE  Others' /\ UNCHANGED <<batch, commands, requests>>
<1>1. Others /\ MaxCuts \in Nat
  BY TypedHas, S2sConnectorAssumption DEF Connected
<1>2. cuts' \in 0..MaxCuts
  BY <1>1 DEF CutInside, Others
<1> QED BY <1>1, <1>2 DEF submitVars, Others

LEMMA HowsOfCode == {"disconnected", "stopped", "timeout", "ok"} \subseteq Hows \ {"crossed"}
BY DEF Hows

LEMMA BeginStep ==
    ASSUME Connected, NEW ok \in BOOLEAN, Begin(ok)
    PROVE  Connected'
<1> DEFINE t == BeginConnect(s, ok)
           d == Result(t, {})
           next == IF running THEN "wait" ELSE "cleanup"
<1>1. Own("begin", d, next) /\ UnchangedOutside /\ pc = "begin"
  BY DEF Begin, Own
<1>2. s = Closed /\ Good(s)
  BY <1>1 DEF Connected, ThreadInv
<1>3. s.link = "down" /\ s.ios = {} /\ s.conn = 0 /\ 0 < MaxConns
  BY <1>2, S2sConnectorAssumption DEF Closed
<1>4. Good(t) /\ Speaks(t) /\ t.pending = s.pending
  BY <1>2, <1>3, BeginConnectIs
<1> HIDE DEF t
<1>5. Sound(s, d) /\ d.s = t
  BY <1>4, KeptSound DEF Result
<1>6. next \in Labels /\ next \notin {"begin", "frames", "reap", "last", "final", "done"}
  BY DEF Labels
<1> HIDE DEF d, next
<1>7. SpeakAt(next, d.s)
  BY <1>4, <1>5, <1>6, SpeaksAt
<1>8. batch = <<>>
  BY <1>1, BatchEmpty
<1>9. Others' /\ UNCHANGED <<batch, commands, requests>>
  BY <1>1, OthersKept
<1> QED BY <1>1, <1>5, <1>6, <1>7, <1>8, <1>9, OwnStep

LEMMA DeadlineStep ==
    ASSUME Connected, Deadline
    PROVE  Connected'
<1> DEFINE d == Result(s, {})
<1>1. Own("wait", d, "turn") /\ UnchangedOutside /\ pc = "wait"
  BY DEF Deadline, Own
<1>2. Good(s) /\ d.s = s /\ SpeakAt(pc, s)
  BY SpeakHas DEF Connected, Result
<1>3. Sound(s, d)
  BY <1>2, KeptSound
<1> HIDE DEF d
<1>4. SpeakAt("turn", d.s)
  BY <1>1, <1>2 DEF SpeakAt
<1>5. batch = <<>> /\ "turn" \in Labels
  BY <1>1, BatchEmpty DEF Labels
<1>6. Others' /\ UNCHANGED <<batch, commands, requests>>
  BY <1>1, OthersKept
<1>7. d.s.conn = s.conn
  BY <1>2
<1> QED BY <1>1, <1>3, <1>4, <1>5, <1>6, <1>7, OwnStep

\* The usual end of a completion: back to the turn, on the same connection.
LEMMA TurnStep ==
    ASSUME Connected, NEW d, NEW at \in {"wait", "frames"}, Own(at, d, "turn"),
           Others', UNCHANGED <<batch, commands, requests>>,
           Sound(s, d), Speaks(d.s), d.s.conn = s.conn
    PROVE  Connected'
<1>1. pc = at
  BY DEF Own
<1>2. batch = <<>>
  BY <1>1, BatchEmpty
<1>3. "turn" \in Labels
  BY DEF Labels
<1>4. SpeakAt("turn", d.s)
  BY SpeaksAt
<1> QED BY <1>2, <1>3, <1>4, OwnStep

LEMMA StaleStep ==
    ASSUME Connected, StaleDone
    PROVE  Connected'
<1>1. PICK io \in s.ios : /\ ~Fresh(io)
                          /\ Own("wait", Result(Taken(io), {}), "turn")
                          /\ UnchangedOutside
  BY DEF StaleDone
<1> DEFINE t == Taken(io)
           d == Result(t, {})
<1>2. Good(s)
  BY DEF Connected
<1>3. Good(t) /\ Same(s, t) /\ t.link = s.link /\ s.link = "down"
  BY <1>1, <1>2, TakenIs
<1>4. Own("wait", d, "turn")
  BY <1>1
<1> HIDE DEF t
<1>5. Sound(s, d) /\ d.s = t
  BY <1>3, KeptSound DEF Result, Same
<1> HIDE DEF d
<1>6. Speaks(d.s) /\ d.s.conn = s.conn
  BY <1>3, <1>5, DownSpeaks DEF Same
<1>7. Others' /\ UNCHANGED <<batch, commands, requests>>
  BY <1>1, OthersKept
<1> QED BY <1>4, <1>5, <1>6, <1>7, TurnStep

LEMMA WaitSpeaks ==
    ASSUME Connected, pc \in {"wait", "turn", "sweep"}
    PROVE  Good(s) /\ Speaks(s)
BY DEF Connected, SpeakInv, Speaks

LEMMA ConnectStep ==
    ASSUME Connected, NEW ok \in BOOLEAN, NEW post \in BOOLEAN, ConnectDone(ok, post)
    PROVE  Connected'
<1> DEFINE up(io) == [Taken(io) EXCEPT !.link = "connected"]
           down(io) == [Taken(io) EXCEPT !.link = "down", !.due = FALSE]
           d(io) == IF ok THEN PostRecv(up(io), post) ELSE Result(down(io), {})
<1>1. PICK io \in s.ios : /\ io.op = "connect" /\ Fresh(io)
                          /\ Own("wait", d(io), "turn")
                          /\ UnchangedOutside
  BY DEF ConnectDone
<1>2. Good(s) /\ Speaks(s)
  <2>1. pc = "wait"
    BY <1>1 DEF Own
  <2> QED BY <2>1, WaitSpeaks
<1> DEFINE u == up(io)
           v == down(io)
           res == d(io)
<1>3. /\ Good(u) /\ u.link = "connected" /\ u.ios = {} /\ u.conn = s.conn
      /\ u.pending = s.pending /\ Posted(u) /\ Flushed(u)
  BY <1>1, <1>2, ConnectedIs
<1>4. Good(v) /\ Speaks(v) /\ v.link = "down" /\ v.conn = s.conn /\ v.pending = s.pending
  BY <1>1, <1>2, ConnectedIs
<1>5. res = IF ok THEN PostRecv(u, post) ELSE Result(v, {})
  OBVIOUS
<1>6. Own("wait", res, "turn")
  BY <1>1
<1> HIDE DEF u, v, res
<1>7. CASE ok
  <2>1. Sound(u, res) /\ Speaks(res.s) /\ res.s.conn = u.conn
    BY <1>3, <1>5, <1>7, PostRecvIs
  <2>2. Sound(s, res) /\ res.s.conn = s.conn
    BY <1>3, <2>1, SoundSame
  <2>3. Others' /\ UNCHANGED <<batch, commands, requests>>
    BY <1>1, OthersKept
  <2> QED BY <1>6, <2>1, <2>2, <2>3, TurnStep
<1>8. CASE ~ok
  <2>1. res = Result(v, {}) /\ res.s = v
    BY <1>5, <1>8 DEF Result
  <2>2. Sound(s, res)
    BY <1>4, <2>1, KeptSound
  <2>3. Others' /\ UNCHANGED <<batch, commands, requests>>
    BY <1>1, OthersKept
  <2> QED BY <1>4, <1>6, <2>1, <2>2, <2>3, TurnStep
<1> QED BY <1>7, <1>8

LEMMA RecvStep ==
    ASSUME Connected, NEW n \in 0..Len(s.stream), RecvDone(n)
    PROVE  Connected'
<1> DEFINE more(io) == [Taken(io) EXCEPT !.buf = @ \o SubSeq(s.stream, 1, n),
                                         !.stream = SubSeq(@, n + 1, Len(@))]
<1>1. PICK io \in s.ios : /\ io.op = "recv" /\ Fresh(io)
                          /\ IF n = 0
                             THEN Own("wait", Teardown(Taken(io), "disconnected"), "turn")
                             ELSE Own("wait", Result(more(io), {}), "frames")
                          /\ UnchangedOutside
  BY DEF RecvDone
<1>2. pc = "wait"
  BY <1>1 DEF Own
<1>3. Good(s) /\ Speaks(s) /\ batch = <<>>
  BY <1>2, WaitSpeaks, BatchEmpty
<1>4. Others' /\ UNCHANGED <<batch, commands, requests>>
  BY <1>1, OthersKept
<1>5. CASE n = 0
  <2> DEFINE t == Taken(io)
             d == Teardown(t, "disconnected")
  <2>1. Good(t) /\ Same(s, t)
    BY <1>3, TakenIs
  <2>2. Own("wait", d, "turn")
    BY <1>1, <1>5
  <2> HIDE DEF t
  <2>3. Sound(t, d) /\ Speaks(d.s) /\ d.s.conn = t.conn
    BY <2>1, TeardownIs, HowsOfCode
  <2> HIDE DEF d
  <2>4. Sound(s, d) /\ d.s.conn = s.conn
    BY <2>1, <2>3, SoundSame DEF Same
  <2> QED BY <1>4, <2>2, <2>3, <2>4, TurnStep
<1>6. CASE n # 0
  <2> DEFINE t == more(io)
             d == Result(t, {})
  <2>1. /\ Good(t) /\ t.link = "connected" /\ t.conn = s.conn
        /\ t.ios = s.ios \ {io} /\ \A jo \in t.ios : jo.op # "recv"
        /\ t.pending = s.pending /\ t.front = s.front /\ t.back = s.back
        /\ t.sending = s.sending
    BY <1>1, <1>3, ReceivedIs
  <2>2. Own("wait", d, "frames")
    BY <1>1, <1>6
  <2> HIDE DEF t
  <2>3. Sound(s, d) /\ d.s = t
    BY <2>1, KeptSound DEF Result
  <2> HIDE DEF d
  <2>4. s.link = "connected"
    <3>1. s.link # "down"
      BY <1>1, <1>3, TakenIs
    <3> QED BY <1>1, <1>3, <3>1 DEF Good, IosOwn, Recs
  <2>5. SpeakAt("frames", t)
    <3>1. (\E jo \in t.ios : jo.op = "send") <=> \E jo \in s.ios : jo.op = "send"
      BY <1>1, <2>1
    <3>2. Posted(t)
      BY <1>3, <2>1, <2>4, <3>1 DEF Speaks, Posted
    <3>3. Flushed(t)
      BY <1>3, <2>1 DEF Speaks, Flushed
    <3> QED BY <2>1, <3>2, <3>3 DEF SpeakAt
  <2>6. "frames" \in Labels
    BY DEF Labels
  <2> QED BY <1>3, <1>4, <2>1, <2>2, <2>3, <2>5, <2>6, OwnStep
<1> QED BY <1>5, <1>6

LEMMA SendStep ==
    ASSUME Connected, NEW ok \in BOOLEAN, NEW post \in BOOLEAN, NEW part \in BOOLEAN,
           SendDone(ok, post, part)
    PROVE  Connected'
<1> DEFINE rest(io) == [Taken(io) EXCEPT !.front = SubSeq(@, io.n + 1, Len(@))]
           d(io) == IF ok THEN PostSend(rest(io), post, part)
                          ELSE Teardown(Taken(io), "disconnected")
<1>1. PICK io \in s.ios : /\ io.op = "send" /\ Fresh(io)
                          /\ Own("wait", d(io), "turn")
                          /\ UnchangedOutside
  BY DEF SendDone
<1>2. pc = "wait"
  BY <1>1 DEF Own
<1>3. Good(s) /\ Speaks(s)
  BY <1>2, WaitSpeaks
<1>4. Others' /\ UNCHANGED <<batch, commands, requests>>
  BY <1>1, OthersKept
<1> DEFINE t == Taken(io)
           u == rest(io)
           res == d(io)
<1>5. Good(t) /\ Same(s, t)
  BY <1>3, TakenIs
<1>6. /\ Good(u) /\ u.link = "connected" /\ u.conn = s.conn /\ u.sending
      /\ \A jo \in u.ios : jo.op # "send"
      /\ Listens(u) /\ u.pending = s.pending
  BY <1>1, <1>3, SentIs
<1>7. res = IF ok THEN PostSend(u, post, part) ELSE Teardown(t, "disconnected")
  OBVIOUS
<1>8. Own("wait", res, "turn")
  BY <1>1
<1> HIDE DEF t, u, res
<1>9. CASE ok
  <2>1. Sound(u, res) /\ Speaks(res.s) /\ res.s.conn = u.conn
    BY <1>6, <1>7, <1>9, PostSendIs
  <2>2. Sound(s, res) /\ res.s.conn = s.conn
    BY <1>6, <2>1, SoundSame
  <2> QED BY <1>4, <1>8, <2>1, <2>2, TurnStep
<1>10. CASE ~ok
  <2>1. Sound(t, res) /\ Speaks(res.s) /\ res.s.conn = t.conn
    BY <1>5, <1>7, <1>10, TeardownIs, HowsOfCode
  <2>2. Sound(s, res) /\ res.s.conn = s.conn
    BY <1>5, <2>1, SoundSame DEF Same
  <2> QED BY <1>4, <1>8, <2>1, <2>2, TurnStep
<1> QED BY <1>9, <1>10

LEMMA ReplyStep ==
    ASSUME Connected, DispatchReply
    PROVE  Connected'
<1> DEFINE t == [s EXCEPT !.pending = @ \ Waiting]
           u == Consume(t)
           d == Result(u, Replied(Waiting, Frame))
<1>1. /\ FrameReady /\ Frame.kind = "reply" /\ UnchangedOutside
      /\ Own("frames", d, "frames") /\ pc = "frames"
  BY DEF DispatchReply, Own
<1>2. Good(s) /\ SpeakAt(pc, s)
  BY SpeakHas DEF Connected
<1>3. Waiting \subseteq s.pending /\ Answers(Replied(Waiting, Frame), Waiting)
  BY <1>1, <1>2, ReplyAnswers
<1>4. /\ Good(t) /\ t.link = s.link /\ t.conn = s.conn /\ t.ios = s.ios
      /\ t.buf = s.buf /\ t.front = s.front /\ t.back = s.back /\ t.sending = s.sending
      /\ t.pending = s.pending \ Waiting
  BY <1>2, PendingLess
<1> HIDE DEF t
<1>5. /\ Good(u) /\ u.link = t.link /\ u.conn = t.conn /\ u.ios = t.ios
      /\ u.front = t.front /\ u.back = t.back /\ u.sending = t.sending
      /\ u.pending = t.pending
  <2>1. Len(t.buf) >= 2
    BY <1>1, <1>4 DEF FrameReady
  <2> QED BY <1>4, <2>1, ConsumeIs
<1> HIDE DEF u
<1>6. d.s = u /\ d.completed = Replied(Waiting, Frame)
  BY DEF Result
<1> HIDE DEF d
<1>7. Sound(s, d)
  BY <1>3, <1>4, <1>5, <1>6 DEF Sound
<1>8. SpeakAt("frames", d.s)
  <2>1. u.ios = s.ios /\ u.link = s.link /\ u.front = s.front /\ u.back = s.back
        /\ u.sending = s.sending
    BY <1>4, <1>5
  <2> QED BY <1>1, <1>2, <1>6, <2>1 DEF SpeakAt, Posted, Flushed
<1>9. batch = <<>> /\ "frames" \in Labels
  BY <1>1, BatchEmpty DEF Labels
<1>10. Others' /\ UNCHANGED <<batch, commands, requests>>
  BY <1>1, OthersKept
<1>11. d.s.conn = s.conn
  BY <1>4, <1>5, <1>6
<1> QED BY <1>1, <1>7, <1>8, <1>9, <1>10, <1>11, OwnStep

\* Some waiting requests are completed, and then the callback tears the link down.
LEMMA ThenDown ==
    ASSUME Typed, OnceInv, NEW m, Sound(s, m), m.s.conn = s.conn,
           NEW down, down = Teardown(m.s, "disconnected"),
           NEW d, d.s = down.s, d.completed = down.completed \cup m.completed
    PROVE  Sound(s, d) /\ Speaks(d.s) /\ d.s.conn = s.conn
<1> DEFINE t == m.s
           first == m.completed
<1>1. PICK gone \in SUBSET s.pending : t.pending = s.pending \ gone /\ Answers(first, gone)
  BY DEF Sound
<1>2. Good(t) /\ t.conn = s.conn /\ down = Teardown(t, "disconnected")
      /\ d.completed = down.completed \cup first
  BY DEF Sound
<1> HIDE DEF t, first
<1>3. /\ Good(down.s) /\ Speaks(down.s) /\ down.s.conn = t.conn /\ down.s.pending = {}
      /\ down.completed = Completed(t.pending, "disconnected")
  <2> DEFINE u == Teardown(t, "disconnected")
  <2>1. /\ Sound(t, u) /\ Speaks(u.s) /\ u.s.conn = t.conn /\ u.s.pending = {}
        /\ u.completed = Completed(t.pending, "disconnected")
    BY <1>2, TeardownIs, HowsOfCode
  <2>2. u = down
    BY <1>2
  <2> HIDE DEF u
  <2> QED BY <2>1, <2>2 DEF Sound
<1>4. Answers(down.completed, t.pending)
  BY <1>3, CompletedAnswers, HowsOfCode
<1>5. \A e \in t.pending, f \in gone : e.req # f.req
  <2> SUFFICES ASSUME NEW e \in t.pending, NEW f \in gone, e.req = f.req PROVE FALSE
    OBVIOUS
  <2>1. e \in s.pending /\ f \in s.pending /\ e # f
    BY <1>1
  <2>2. f.req \in Requests
    BY <2>1, TypedHas DEF Recs, Entries
  <2>3. OneEntry(s.pending, f.req)
    BY <2>2, OnceHas
  <2> QED BY <2>1, <2>3 DEF OneEntry
<1>6. Answers(d.completed, t.pending \cup gone)
  BY <1>1, <1>4, <1>5, <1>2, AnswersBoth
<1>7. t.pending \cup gone = s.pending /\ {} = s.pending \ s.pending
  BY <1>1
<1>8. Sound(s, d)
  BY <1>3, <1>6, <1>7 DEF Sound
<1> QED BY <1>3, <1>8, <1>2

LEMMA ReplyCutStep ==
    ASSUME Connected, DispatchReplyCut
    PROVE  Connected'
<1> DEFINE t == [s EXCEPT !.pending = @ \ Waiting]
           m == Result(t, Replied(Waiting, Frame))
           down == Teardown(t, "disconnected")
           d == Result(down.s, down.completed \cup Replied(Waiting, Frame))
<1>1. /\ FrameReady /\ Frame.kind = "reply" /\ CutInside
      /\ UNCHANGED <<running, stopper, submitVars, batch, asks>>
      /\ Own("frames", d, "turn")
  BY DEF DispatchReplyCut
<1>2. Good(s) /\ Typed /\ OnceInv
  BY DEF Connected
<1>3. Waiting \subseteq s.pending /\ Answers(Replied(Waiting, Frame), Waiting)
  BY <1>1, <1>2, ReplyAnswers
<1>4. Good(t) /\ t.conn = s.conn /\ t.pending = s.pending \ Waiting
  BY <1>2, PendingLess
<1>5. m.s = t /\ m.completed = Replied(Waiting, Frame)
  BY DEF Result
<1>6. d.s = down.s /\ d.completed = down.completed \cup m.completed
  BY DEF Result
<1>7. down = Teardown(m.s, "disconnected")
  BY <1>5
<1> HIDE DEF t, m, down, d
<1>8. Sound(s, m) /\ m.s.conn = s.conn
  BY <1>3, <1>4, <1>5 DEF Sound
<1>9. Sound(s, d) /\ Speaks(d.s) /\ d.s.conn = s.conn
  BY <1>2, <1>6, <1>7, <1>8, ThenDown
<1>10. Others' /\ UNCHANGED <<batch, commands, requests>>
  BY <1>1, OthersCut
<1> QED BY <1>1, <1>9, <1>10, TurnStep

LEMMA FramesStep ==
    ASSUME Connected, NEW post \in BOOLEAN, FramesEnd(post)
    PROVE  Connected'
<1> DEFINE d == PostRecv(s, post)
<1>1. Own("frames", d, "turn") /\ UnchangedOutside /\ pc = "frames"
  BY DEF FramesEnd, Own
<1>2. /\ Good(s) /\ s.link = "connected" /\ \A io \in s.ios : io.op # "recv"
      /\ Posted(s) /\ Flushed(s)
  BY <1>1 DEF Connected, SpeakInv
<1>3. Sound(s, d) /\ Speaks(d.s) /\ d.s.conn = s.conn
  BY <1>2, PostRecvIs
<1>4. Others' /\ UNCHANGED <<batch, commands, requests>>
  BY <1>1, OthersKept
<1> QED BY <1>1, <1>3, <1>4, TurnStep

LEMMA RecordNone ==
    ASSUME done \in [Requests -> Seq(Hows)]
    PROVE  Record({}) = done
<1>1. \A x \in Requests : Record({})[x] = done[x]
  BY RecordIs DEF Ended
<1>2. Record({}) \in [Requests -> Seq(Hows)]
  BY RecordTyped
<1> QED BY <1>1, <1>2

\* The answer to the peer is queued on the connection that asked.
LEMMA AskedStep ==
    ASSUME Connected, DispatchRequest
    PROVE  Connected'
<1> DEFINE u == Consume(s)
           c == [kind |-> "respond", conn |-> s.buf[1].conn]
           d == Result(u, {})
<1>1. /\ FrameReady /\ pc = "frames" /\ pc' = "frames" /\ s' = u /\ done' = Record({})
      /\ commands' = IF closed THEN commands ELSE Append(commands, c)
      /\ batch' = batch /\ requests' = requests
  <2>1. FrameReady /\ Own("frames", d, "frames")
    BY DEF DispatchRequest
  <2>2. d.s = u /\ d.completed = {}
    BY DEF Result
  <2>3. /\ commands' = IF closed THEN commands ELSE Append(commands, c)
        /\ batch' = batch /\ requests' = requests
    BY DEF DispatchRequest
  <2> HIDE DEF d, u, c
  <2> QED BY <2>1, <2>2, <2>3 DEF Own
<1>2. Typed /\ Good(s) /\ SpeakInv /\ ThreadInv /\ OnceInv
  BY DEF Connected
<1>3. /\ Others /\ commands \in Seq(Commands) /\ batch \in Seq(Commands)
      /\ done \in [Requests -> Seq(Hows)] /\ SpeakAt(pc, s)
  BY <1>2, TypedHas, SpeakHas
<1>4. done' = done
  BY <1>1, <1>3, RecordNone
<1>5. /\ Good(u) /\ u.link = s.link /\ u.conn = s.conn /\ u.ios = s.ios
      /\ u.front = s.front /\ u.back = s.back /\ u.sending = s.sending
      /\ u.pending = s.pending
  BY <1>1, <1>2, ConsumeIs DEF FrameReady
<1>6. Others'
  BY <1>3 DEF DispatchRequest, Others
<1>7. c \in Commands /\ c.kind = "respond" /\ c.conn = s.conn
  <2>1. /\ s.buf \in Seq(HalfFrames) /\ s.stream \in Seq(HalfFrames)
        /\ s.link = "connected" /\ s.conn \in 0..MaxConns
    BY <1>1, <1>2 DEF Good, Recs, SpeakInv
  <2> DEFINE q == s.buf \o s.stream
  <2>2. Len(s.buf) \in Nat /\ Len(s.buf) >= 2 /\ Len(s.stream) \in Nat
    BY <1>1, <2>1, LenProperties DEF FrameReady
  <2>3. q[1] = s.buf[1] /\ 1 \in 1..Len(q)
    <3>1. 1 \in 1..Len(s.buf) + Len(s.stream) /\ 1 <= Len(s.buf)
      <4>1. \A m, n \in Nat : m >= 2 => 1 \in 1..m + n /\ 1 <= m
        OBVIOUS
      <4> QED BY <2>2, <4>1
    <3>2. Len(q) = Len(s.buf) + Len(s.stream)
      BY <2>1, ConcatProperties
    <3> QED BY <2>1, <3>1, <3>2, ConcatProperties
  <2>4. s.buf[1].conn = s.conn
    BY <1>2, <2>3 DEF Good, InOrder, Aligned
  <2>5. s.conn \in 1..MaxConns
    <3>1. s.conn # 0
      BY <1>2, <2>1 DEF Good, IosOwn
    <3> QED BY <2>1, <3>1, S2sConnectorAssumption
  <2> QED BY <2>4, <2>5 DEF Commands
<1> HIDE DEF u, c
<1>8. SpeakInv'
  BY <1>1, <1>3, <1>5 DEF SpeakInv, SpeakAt, Posted, Flushed
<1>9. \A x \in Requests : OneEntry(s.pending, x)
  BY <1>2, OnceHas
<1>10. CASE closed
  <2>1. commands' = commands /\ Queue' = Queue
    BY <1>1, <1>10 DEF Queue
  <2>2. Typed'
    <3>1. u \in Recs /\ "frames" \in Labels
      BY <1>5 DEF Good, Labels
    <3> QED BY <1>1, <1>3, <1>4, <1>6, <2>1, <3>1, TypedNext
  <2>3. ThreadInv'
    BY <1>1, <1>2, <1>5, <2>1 DEF ThreadInv
  <2>4. OnceInv'
    BY <1>1, <1>2, <1>4, <1>5, <2>1, OnceSame
  <2> QED BY <1>1, <1>5, <1>8, <2>2, <2>3, <2>4 DEF Connected
<1>11. CASE ~closed
  <2>1. commands' = Append(commands, c)
    BY <1>1, <1>11
  <2>2. /\ Queue' = Append(Queue, c) /\ commands' \in Seq(Commands) /\ batch' \in Seq(Commands)
    BY <1>1, <1>2, <1>7, <2>1, QueueAppends
  <2>3. Typed'
    <3>1. u \in Recs /\ "frames" \in Labels
      BY <1>5 DEF Good, Labels
    <3> QED BY <1>1, <1>3, <1>4, <1>6, <2>2, <3>1, TypedNext
  <2>4. ThreadInv'
    <3>1. ToSet(commands') = ToSet(commands) \cup {c}
      BY <1>3, <1>7, <2>1, ToSetAppend
    <3> QED BY <1>1, <1>2, <1>5, <1>7, <3>1 DEF ThreadInv
  <2>5. OnceInv'
    <3>1. \A x \in Requests : ~Requested(c, x)
      BY <1>7 DEF Requested
    <3>2. requests \in Nat /\ c.kind # "request"
      BY <1>3, <1>7, S2sConnectorAssumption DEF Others
    <3>3. s'.pending = s.pending
      BY <1>1, <1>5
    <3> QED BY <1>1, <1>2, <1>4, <1>7, <1>9, <2>2, <3>1, <3>2, <3>3, OncePuts
  <2> QED BY <1>1, <1>5, <1>8, <2>3, <2>4, <2>5 DEF Connected
<1> QED BY <1>10, <1>11

\* drain_commands() takes the queue.
LEMMA SwapStep ==
    ASSUME Connected, NEW at, NEW drain, NEW next, SwapOut(at, drain, next),
           \/ at = "turn" /\ drain = "drain" /\ next = "sweep"
           \/ at = "last" /\ drain = "final" /\ next = "done"
    PROVE  Connected'
<1>1. /\ pc = at /\ batch' = commands /\ commands' = <<>> /\ s' = s /\ done' = done
      /\ pc' = IF commands = <<>> THEN next ELSE drain
      /\ requests' = requests
  BY DEF SwapOut, UnchangedAround
<1>2. Typed /\ Good(s) /\ SpeakInv /\ ThreadInv /\ OnceInv
  BY DEF Connected
<1>3. /\ Others /\ commands \in Seq(Commands) /\ batch \in Seq(Commands)
      /\ done \in [Requests -> Seq(Hows)] /\ s \in Recs
  BY <1>2, TypedHas
<1>4. batch = <<>>
  BY <1>1, BatchEmpty
<1>5. <<>> \in Seq(Commands)
  OBVIOUS
<1>6. pc' \in Labels
  BY <1>1 DEF Labels
<1>7. Others'
  BY <1>3 DEF SwapOut, UnchangedAround, Others
<1>8. Typed'
  BY <1>1, <1>3, <1>5, <1>6, <1>7, TypedNext
<1>9. SpeakInv'
  BY <1>1, <1>2 DEF SpeakInv
<1>10. ThreadInv'
  <2>1. Home(commands, s.conn)
    BY <1>2 DEF ThreadInv, Home
  <2>2. pc' \in {"reap", "last", "final", "done"} => s.link = "down"
    BY <1>1, <1>2 DEF ThreadInv
  <2>3. commands # <<>> => pc' \in {"drain", "final"}
    BY <1>1
  <2>4. pc' # "begin"
    BY <1>1
  <2> QED BY <1>1, <2>1, <2>2, <2>3, <2>4, ToSetEmpty DEF ThreadInv
<1>11. OnceInv'
  <2>1. Queue' = Queue
    BY <1>1, <1>3, <1>4, ConcatEmptySeq DEF Queue
  <2> QED BY <1>1, <1>2, <2>1, OnceSame
<1> QED BY <1>1, <1>2, <1>8, <1>9, <1>10, <1>11 DEF Connected


\* A command, handled: what it does to the requests and to the connection.
LEMMA CommandIs ==
    ASSUME NEW r, Good(r), NEW cmd \in Commands, cmd.kind = "respond" => cmd.conn = r.conn
    PROVE  LET d == HandleCommand(r, cmd) IN
           /\ Good(d.s) /\ d.s.conn = r.conn
           /\ r.link # "connected" => d.s.link # "connected"
           /\ r.link = "down" => d.s.link = "down"
           /\ Listens(r) /\ Posted(r) => Listens(d.s) /\ Posted(d.s)
           /\ \/ /\ cmd.kind # "request"
                 /\ \E gone \in SUBSET r.pending :
                       d.s.pending = r.pending \ gone /\ Answers(d.completed, gone)
              \/ /\ cmd.kind = "request" /\ d.completed = Completed({cmd}, "disconnected")
                 /\ d.s.pending = r.pending
              \/ /\ cmd.kind = "request" /\ d.completed = {}
                 /\ \E e : e.req = cmd.req /\ d.s.pending = r.pending \cup {e}
<1> DEFINE d == HandleCommand(r, cmd)
<1>1. CASE cmd \in [kind : {"request"}, req : Requests]
  <2>1. cmd.kind = "request"
    BY <1>1
  <2>2. d = HandleRequest(r, cmd)
    BY <2>1 DEF HandleCommand
  <2> HIDE DEF d
  <2>3. /\ Good(d.s) /\ d.s.link = r.link /\ d.s.conn = r.conn /\ d.s.ios = r.ios
        /\ d.s.sending = r.sending
        /\ \/ d.completed = Completed({cmd}, "disconnected") /\ d.s.pending = r.pending
           \/ d.completed = {} /\ \E e : e.req = cmd.req /\ d.s.pending = r.pending \cup {e}
    BY <1>1, <2>2, HandleRequestIs
  <2>4. Listens(r) /\ Posted(r) => Listens(d.s) /\ Posted(d.s)
    BY <2>3 DEF Listens, Posted
  <2> QED BY <2>1, <2>3, <2>4 DEF d
<1>2. CASE cmd \in [kind : {"cut"}]
  <2>1. cmd.kind = "cut"
    BY <1>2
  <2>2. d = Teardown(r, "disconnected")
    BY <2>1 DEF HandleCommand
  <2> HIDE DEF d
  <2>3. Sound(r, d) /\ Speaks(d.s) /\ d.s.link = "down" /\ d.s.conn = r.conn
    BY <2>2, TeardownIs, HowsOfCode
  <2>4. /\ Good(d.s) /\ Listens(d.s) /\ Posted(d.s)
        /\ \E gone \in SUBSET r.pending :
              d.s.pending = r.pending \ gone /\ Answers(d.completed, gone)
    BY <2>3 DEF Sound, Speaks
  <2> QED BY <2>1, <2>3, <2>4 DEF d
<1>3. CASE cmd \in [kind : {"respond"}, conn : 1..MaxConns]
  <2> DEFINE t == QueueSend(r, cmd)
  <2>1. cmd.kind = "respond"
    BY <1>3
  <2>2. /\ Good(t) /\ t.link = r.link /\ t.conn = r.conn /\ t.ios = r.ios
        /\ t.sending = r.sending /\ t.pending = r.pending
    BY <1>3, <2>1, RespondIs
  <2>3. d = Result(t, {})
    BY <2>1 DEF HandleCommand
  <2> HIDE DEF t
  <2>4. d.s = t /\ d.completed = {}
    BY <2>3 DEF Result
  <2> HIDE DEF d
  <2>5. Listens(r) /\ Posted(r) => Listens(d.s) /\ Posted(d.s)
    BY <2>2, <2>4 DEF Listens, Posted
  <2>6. \E gone \in SUBSET r.pending : d.s.pending = r.pending \ gone /\ Answers(d.completed, gone)
    <3>1. r.pending = r.pending \ {} /\ {} \in SUBSET r.pending
      OBVIOUS
    <3> QED BY <2>2, <2>4, <3>1, NothingAnswers
  <2> QED BY <2>1, <2>2, <2>4, <2>5, <2>6 DEF d
<1> QED BY <1>1, <1>2, <1>3 DEF Commands

LEMMA DrainStep ==
    ASSUME Connected, DrainNext
    PROVE  Connected'
<1> DEFINE cmd == Head(batch)
           d == HandleCommand(s, cmd)
<1>1. /\ pc \in {"drain", "final"} /\ batch # <<>> /\ Own(pc, d, pc)
      /\ batch' = Tail(batch) /\ commands' = commands
      /\ UnchangedAround
  BY DEF DrainNext
<1>2. s' = d.s /\ done' = Record(d.completed) /\ pc' = pc /\ requests' = requests
  BY <1>1 DEF Own, UnchangedAround
<1>3. Typed /\ Good(s) /\ SpeakInv /\ ThreadInv /\ OnceInv
  BY DEF Connected
<1>4. /\ Others /\ commands \in Seq(Commands) /\ batch \in Seq(Commands) /\ pc \in Labels
      /\ done \in [Requests -> Seq(Hows)]
  BY <1>3, TypedHas
<1>5. /\ Queue # <<>> /\ Queue' = Tail(Queue) /\ Head(Queue) = cmd
      /\ cmd \in Commands /\ batch' \in Seq(Commands)
  BY <1>1, <1>3, QueueTakes
<1>6. ToSet(batch) = {cmd} \cup ToSet(Tail(batch))
  BY <1>1, <1>4, ToSetTail
<1> HIDE DEF cmd
<1>7. Home(batch, s.conn)
  BY <1>3 DEF ThreadInv
<1>8. cmd.kind = "respond" => cmd.conn = s.conn
  BY <1>6, <1>7 DEF Home
<1>9. /\ Good(d.s) /\ d.s.conn = s.conn
      /\ s.link = "down" => d.s.link = "down"
      /\ Listens(s) /\ Posted(s) => Listens(d.s) /\ Posted(d.s)
      /\ \/ /\ cmd.kind # "request"
            /\ \E gone \in SUBSET s.pending :
                  d.s.pending = s.pending \ gone /\ Answers(d.completed, gone)
         \/ /\ cmd.kind = "request" /\ d.completed = Completed({cmd}, "disconnected")
            /\ d.s.pending = s.pending
         \/ /\ cmd.kind = "request" /\ d.completed = {}
            /\ \E e : e.req = cmd.req /\ d.s.pending = s.pending \cup {e}
  BY <1>3, <1>5, <1>8, CommandIs, ZenonT(60)
<1> HIDE DEF d
<1>10. OnceInv'
  <2>1. s'.pending = d.s.pending
    BY <1>2
  <2> QED BY <1>2, <1>3, <1>5, <1>9, <2>1, OnceTakes
<1>11. Record(d.completed) \in [Requests -> Seq(Hows)]
  <2>1. /\ \A c, e \in d.completed : c.req = e.req => c = e
        /\ \A c \in d.completed : c.how \in Hows
    <3>1. CASE \E gone \in SUBSET s.pending : Answers(d.completed, gone)
      BY <3>1 DEF Answers
    <3>2. CASE d.completed = {}
      BY <3>2
    <3>3. CASE d.completed = Completed({cmd}, "disconnected")
      BY <3>3 DEF Completed, Hows
    <3> QED BY <1>9, <3>1, <3>2, <3>3
  <2> QED BY <1>4, <2>1, RecordTyped
<1>12. Typed'
  <2>1. Others'
    BY <1>1, <1>4 DEF UnchangedAround, Others
  <2>2. d.s \in Recs
    BY <1>9 DEF Good
  <2> QED BY <1>1, <1>2, <1>4, <1>5, <1>11, <2>1, <2>2, TypedNext
<1>13. s.link = "down" => Flushed(d.s)
  <2>1. s.link = "down" => d.s.link # "connected"
    BY <1>9
  <2> QED BY <1>9, <2>1, DownSpeaks DEF Speaks
<1>14. SpeakInv'
  <2>1. Listens(d.s) /\ Posted(d.s)
    BY <1>1, <1>3, <1>9 DEF SpeakInv
  <2>2. pc = "final" => Flushed(d.s)
    BY <1>3, <1>13 DEF ThreadInv
  <2> QED BY <1>1, <1>2, <2>1, <2>2 DEF SpeakInv
<1>15. ThreadInv'
  <2>1. Home(batch', s'.conn)
    BY <1>1, <1>2, <1>6, <1>7, <1>9 DEF Home
  <2>2. pc' # "begin" /\ pc' \in {"drain", "final"}
    BY <1>1, <1>2
  <2>3. pc' \in {"reap", "last", "final", "done"} => s'.link = "down"
    BY <1>2, <1>3, <1>9 DEF ThreadInv
  <2>4. \A c \in ToSet(commands') : c.kind # "respond"
    <3>1. pc \notin {"frames", "turn"}
      BY <1>1
    <3> QED BY <1>1, <1>3, <3>1 DEF ThreadInv
  <2> QED BY <2>1, <2>2, <2>3, <2>4 DEF ThreadInv
<1> QED BY <1>2, <1>9, <1>10, <1>12, <1>14, <1>15 DEF Connected

\* What the commands queued is sent.
LEMMA DrainEndStep ==
    ASSUME Connected, NEW ok \in BOOLEAN, NEW part \in BOOLEAN, DrainEnd(ok, part)
    PROVE  Connected'
<1> DEFINE d == MaybeKickSend(s, ok, part)
           next == IF pc = "drain" THEN "sweep" ELSE "done"
<1>1. pc \in {"drain", "final"} /\ batch = <<>> /\ Own(pc, d, next) /\ UnchangedOutside
  BY DEF DrainEnd
<1>2. Good(s) /\ Listens(s) /\ Posted(s)
  BY <1>1 DEF Connected, SpeakInv
<1>3. Sound(s, d) /\ Speaks(d.s) /\ d.s.conn = s.conn
  BY <1>2, MaybeKickSendIs
<1>4. next = "done" => d.s.link = "down"
  <2>1. next = "done" => s.link = "down"
    BY <1>1 DEF Connected, ThreadInv
  <2>2. s.link = "down" => d.s = s
    BY DEF MaybeKickSend, Result
  <2> QED BY <2>1, <2>2
<1>5. next \in Labels /\ next \in {"sweep", "done"}
  BY DEF Labels
<1> HIDE DEF d, next
<1>6. SpeakAt(next, d.s)
  BY <1>3, <1>5, SpeaksAt
<1>7. Others' /\ UNCHANGED <<batch, commands, requests>>
  BY <1>1, OthersKept
<1> QED BY <1>1, <1>3, <1>4, <1>5, <1>6, <1>7, OwnStep

\* The end of a turn: requests whose time is up, another attempt to connect.
LEMMA TurnEndStep ==
    ASSUME Connected, NEW ok \in BOOLEAN, TurnEnd(ok)
    PROVE  Connected'
<1>1. pc = "sweep" /\ UnchangedOutside
  BY DEF TurnEnd, Own
<1>2. Good(s) /\ Speaks(s) /\ batch = <<>>
  BY <1>1, WaitSpeaks, BatchEmpty
<1>3. Others' /\ UNCHANGED <<batch, commands, requests>>
  BY <1>1, OthersKept
<1>4. CASE running
  <2> DEFINE swept == Sweep(s)
             u == MaybeReconnect(swept.s, ok)
             d == Result(u, swept.completed)
  <2>1. Own("sweep", d, "wait")
    BY <1>4 DEF TurnEnd
  <2>2. Sound(s, swept) /\ Speaks(swept.s)
    BY <1>2, SweepIs
  <2> HIDE DEF swept
  <2>3. Good(swept.s)
    BY <2>2 DEF Sound
  <2>4. Good(u) /\ Speaks(u) /\ u.pending = swept.s.pending
    <3>1. CASE MayReconnect(swept.s) /\ swept.s.due
      <4>1. u = BeginConnect(swept.s, ok)
        BY <3>1 DEF MaybeReconnect
      <4>2. swept.s.link = "down" /\ swept.s.ios = {} /\ swept.s.conn < MaxConns
        BY <3>1 DEF MayReconnect
      <4> QED BY <2>3, <4>1, <4>2, BeginConnectIs
    <3>2. CASE ~(MayReconnect(swept.s) /\ swept.s.due)
      BY <2>2, <2>3, <3>2 DEF MaybeReconnect
    <3> QED BY <3>1, <3>2
  <2> HIDE DEF u
  <2>5. d.s = u /\ d.completed = swept.completed
    BY DEF Result
  <2> HIDE DEF d
  <2>6. Sound(s, d)
    BY <2>2, <2>4, <2>5 DEF Sound
  <2>7. SpeakAt("wait", d.s) /\ "wait" \in Labels
    BY <2>4, <2>5, SpeaksAt DEF Labels
  <2> QED BY <1>2, <1>3, <2>1, <2>6, <2>7, OwnStep
<1>5. CASE ~running
  <2> DEFINE d == Result(s, {})
  <2>1. Own("sweep", d, "cleanup")
    BY <1>5 DEF TurnEnd
  <2>2. Sound(s, d) /\ d.s = s
    BY <1>2, KeptSound DEF Result
  <2> HIDE DEF d
  <2>3. SpeakAt("cleanup", d.s) /\ "cleanup" \in Labels
    BY <1>2, <2>2, SpeaksAt DEF Labels
  <2> QED BY <1>2, <1>3, <2>1, <2>2, <2>3, OwnStep
<1> QED BY <1>4, <1>5

LEMMA TurnCutStep ==
    ASSUME Connected, TurnCut
    PROVE  Connected'
<1> DEFINE swept == Sweep(s)
           down == Teardown(swept.s, "disconnected")
           d == Result(down.s, down.completed \cup swept.completed)
<1>1. /\ CutInside /\ UNCHANGED <<running, stopper, submitVars, batch, asks>>
      /\ Own("sweep", d, "wait") /\ pc = "sweep"
  BY DEF TurnCut, Own
<1>2. Good(s) /\ Speaks(s) /\ Typed /\ OnceInv /\ batch = <<>>
  BY <1>1, WaitSpeaks, BatchEmpty DEF Connected
<1>3. Sound(s, swept) /\ swept.s.conn = s.conn
  BY <1>2, SweepIs
<1>4. d.s = down.s /\ d.completed = down.completed \cup swept.completed
  BY DEF Result
<1>5. down = Teardown(swept.s, "disconnected")
  OBVIOUS
<1> HIDE DEF swept, down, d
<1>6. Sound(s, d) /\ Speaks(d.s) /\ d.s.conn = s.conn
  BY <1>2, <1>3, <1>4, <1>5, ThenDown
<1>7. SpeakAt("wait", d.s) /\ "wait" \in Labels
  BY <1>6, SpeaksAt DEF Labels
<1>8. Others' /\ UNCHANGED <<batch, commands, requests>>
  BY <1>1, OthersCut
<1> QED BY <1>1, <1>2, <1>6, <1>7, <1>8, OwnStep

LEMMA CleanupStep ==
    ASSUME Connected, Cleanup
    PROVE  Connected'
<1> DEFINE d == Teardown(s, "stopped")
<1>1. Own("cleanup", d, "reap") /\ UnchangedOutside /\ pc = "cleanup"
  BY DEF Cleanup, Own
<1>2. Sound(s, d) /\ Speaks(d.s) /\ d.s.link = "down" /\ d.s.conn = s.conn
  BY TeardownIs, HowsOfCode DEF Connected
<1> HIDE DEF d
<1>3. SpeakAt("reap", d.s) /\ "reap" \in Labels
  BY <1>2, SpeaksAt DEF Labels
<1>4. batch = <<>>
  BY <1>1, BatchEmpty
<1>5. Others' /\ UNCHANGED <<batch, commands, requests>>
  BY <1>1, OthersKept
<1> QED BY <1>1, <1>2, <1>3, <1>4, <1>5, OwnStep

LEMMA ReapStep ==
    ASSUME Connected, Reap
    PROVE  Connected'
<1>1. PICK io \in s.ios : Own("reap", Result(Taken(io), {}), "reap") /\ UnchangedOutside
  BY DEF Reap
<1> DEFINE t == Taken(io)
           d == Result(t, {})
<1>2. pc = "reap"
  BY <1>1 DEF Own
<1>3. Good(s) /\ s.link = "down"
  BY <1>2 DEF Connected, ThreadInv
<1>4. Good(t) /\ Same(s, t) /\ t.link = s.link
  BY <1>3, TakenIs
<1>5. Own("reap", d, "reap")
  BY <1>1
<1> HIDE DEF t
<1>6. Sound(s, d) /\ d.s = t
  BY <1>4, KeptSound DEF Result, Same
<1> HIDE DEF d
<1>7. d.s.link = "down" /\ d.s.conn = s.conn /\ Speaks(d.s)
  BY <1>3, <1>4, <1>6, DownSpeaks DEF Same
<1>8. SpeakAt("reap", d.s) /\ "reap" \in Labels
  BY <1>7, SpeaksAt DEF Labels
<1>9. batch = <<>>
  BY <1>2, BatchEmpty
<1>10. Others' /\ UNCHANGED <<batch, commands, requests>>
  BY <1>1, OthersKept
<1> QED BY <1>5, <1>6, <1>7, <1>8, <1>9, <1>10, OwnStep

LEMMA ReapEndStep ==
    ASSUME Connected, ReapEnd
    PROVE  Connected'
<1> DEFINE d == Result(s, {})
<1>1. Own("reap", d, "last") /\ UnchangedOutside /\ pc = "reap"
  BY DEF ReapEnd, Own
<1>2. Good(s) /\ d.s = s /\ s.link = "down"
  BY <1>1 DEF Connected, ThreadInv, Result
<1>3. Sound(s, d)
  BY <1>2, KeptSound
<1> HIDE DEF d
<1>4. SpeakAt("last", d.s) /\ "last" \in Labels
  BY <1>2, DownSpeaks, SpeaksAt DEF Labels
<1>5. batch = <<>>
  BY <1>1, BatchEmpty
<1>6. Others' /\ UNCHANGED <<batch, commands, requests>>
  BY <1>1, OthersKept
<1>7. d.s.link = "down" /\ d.s.conn = s.conn
  BY <1>2
<1> QED BY <1>1, <1>3, <1>4, <1>5, <1>6, <1>7, OwnStep

-----------------------------------------------------------------------------
(* The steps of the peer and of the clock *)

\* The environment moves while the thread waits.
LEMMA OutsideStep ==
    ASSUME Connected, NEW r, Environment(r), asks' \in 0..MaxAsks,
           Good(r), Speaks(r), r.conn = s.conn,
           \A x \in Requests : (Waits(r.pending, x) <=> Waits(s.pending, x))
                               /\ (OneEntry(s.pending, x) => OneEntry(r.pending, x))
    PROVE  Connected'
<1>1. pc = "wait" /\ pc' = "wait" /\ s' = r /\ UNCHANGED <<batch, commands, requests, done>>
  BY DEF Environment, submitVars
<1>2. Others
  BY TypedHas DEF Connected
<1>3. Others'
  BY <1>2 DEF Environment, submitVars, Others
<1>4. SpeakAt("wait", r) /\ "wait" \in Labels
  BY SpeaksAt DEF Labels
<1> QED BY <1>1, <1>3, <1>4, QuietStep

LEMMA PeerRepliesStep ==
    ASSUME Connected, PeerReplies
    PROVE  Connected'
<1>1. PICK f \in s.asked :
         /\ Environment([s EXCEPT !.asked = @ \ {f},
                                  !.stream = @ \o Halves([kind |-> "reply", seq |-> f.seq,
                                                          req |-> f.req])])
         /\ UNCHANGED asks
  BY DEF PeerReplies
<1> DEFINE frame == [kind |-> "reply", seq |-> f.seq, req |-> f.req]
           left == s.asked \ {f}
           t == [s EXCEPT !.asked = left, !.stream = @ \o Halves(frame)]
<1>2. s \in Recs /\ Good(s) /\ Speaks(s) /\ Others
  <2>1. pc = "wait"
    BY <1>1 DEF Environment
  <2> QED BY <2>1, WaitSpeaks, TypedHas DEF Connected
<1>3. Environment(t) /\ left \subseteq s.asked
  BY <1>1
<1>4. f \in Asked /\ Names(s, f) /\ s.link = "connected"
  BY <1>2 DEF Recs, Good, Matched, Emptied
<1>5. frame \in Replies /\ frame.seq = f.seq /\ frame.req = f.req
  BY <1>4 DEF Asked, Replies
<1> HIDE DEF frame, left
<1>6. frame \in Replies \cup [kind : {"request"}] /\ Names(s, frame)
  BY <1>4, <1>5 DEF Names
<1>7. /\ Good(t) /\ t.link = "connected" /\ t.conn = s.conn /\ t.ios = s.ios
      /\ t.pending = s.pending /\ t.front = s.front /\ t.back = s.back
      /\ t.sending = s.sending
  BY <1>2, <1>3, <1>4, <1>6, HeardIs
<1> HIDE DEF t
<1>8. Speaks(t)
  BY <1>2, <1>4, <1>7 DEF Speaks, Listens, Posted, Flushed
<1>9. asks' \in 0..MaxAsks
  BY <1>1, <1>2 DEF Others
<1> QED BY <1>3, <1>7, <1>8, <1>9, OutsideStep

LEMMA PeerAsksStep ==
    ASSUME Connected, PeerAsks
    PROVE  Connected'
<1> DEFINE frame == [kind |-> "request"]
           left == s.asked
           t == [s EXCEPT !.asked = left, !.stream = @ \o Halves(frame)]
           u == [s EXCEPT !.stream = @ \o Halves(frame)]
<1>1. s.link = "connected" /\ asks < MaxAsks /\ asks' = asks + 1 /\ Environment(u)
  BY DEF PeerAsks
<1>2. s \in Recs /\ Good(s) /\ Speaks(s) /\ Others
  <2>1. pc = "wait"
    BY <1>1 DEF Environment
  <2> QED BY <2>1, WaitSpeaks, TypedHas DEF Connected
<1>3. frame \in Replies \cup [kind : {"request"}] /\ frame.kind # "reply"
  OBVIOUS
<1> HIDE DEF frame
<1>4. t = u
  BY <1>2 DEF Recs
<1>5. /\ Good(t) /\ t.link = "connected" /\ t.conn = s.conn /\ t.ios = s.ios
      /\ t.pending = s.pending /\ t.front = s.front /\ t.back = s.back
      /\ t.sending = s.sending
  BY <1>1, <1>2, <1>3, HeardIs
<1>6. Environment(t)
  BY <1>1, <1>4
<1> HIDE DEF t, u
<1>7. Speaks(t)
  BY <1>1, <1>2, <1>5 DEF Speaks, Listens, Posted, Flushed
<1>8. asks' \in 0..MaxAsks
  BY <1>1, <1>2, S2sConnectorAssumption DEF Others
<1> QED BY <1>5, <1>6, <1>7, <1>8, OutsideStep

LEMMA ExpiresStep ==
    ASSUME Connected, RequestExpires
    PROVE  Connected'
<1>1. PICK e \in s.pending :
         /\ Environment([s EXCEPT !.pending = (@ \ {e}) \cup {[e EXCEPT !.late = TRUE]}])
         /\ UNCHANGED asks
  BY DEF RequestExpires
<1> DEFINE t == [s EXCEPT !.pending = (@ \ {e}) \cup {[e EXCEPT !.late = TRUE]}]
<1>2. Good(s) /\ Speaks(s) /\ Others
  <2>1. pc = "wait"
    BY <1>1 DEF Environment
  <2> QED BY <2>1, WaitSpeaks, TypedHas DEF Connected
<1>3. /\ Good(t) /\ t.link = s.link /\ t.conn = s.conn /\ t.ios = s.ios
      /\ t.front = s.front /\ t.back = s.back /\ t.sending = s.sending
      /\ \E f : f.req = e.req /\ t.pending = (s.pending \ {e}) \cup {f}
  BY <1>2, ExpiredIs
<1>4. Environment(t)
  BY <1>1
<1> HIDE DEF t
<1>5. Speaks(t)
  BY <1>2, <1>3 DEF Speaks, Listens, Posted, Flushed
<1>6. PICK f : f.req = e.req /\ t.pending = (s.pending \ {e}) \cup {f}
  BY <1>3
<1>7. ASSUME NEW x \in Requests
      PROVE  (Waits(t.pending, x) <=> Waits(s.pending, x))
             /\ (OneEntry(s.pending, x) => OneEntry(t.pending, x))
  BY <1>6 DEF Waits, OneEntry
<1>8. asks' \in 0..MaxAsks
  BY <1>1, <1>2 DEF Others
<1> QED BY <1>3, <1>4, <1>5, <1>7, <1>8, OutsideStep

LEMMA RetryDueStep ==
    ASSUME Connected, RetryDue
    PROVE  Connected'
<1> DEFINE t == [s EXCEPT !.due = TRUE]
<1>1. s.link = "down" /\ Environment(t) /\ UNCHANGED asks
  BY DEF RetryDue
<1>2. Good(s) /\ Others
  BY TypedHas DEF Connected
<1>3. Good(t) /\ t.link = "down" /\ t.conn = s.conn /\ t.pending = s.pending
  BY <1>1, <1>2, DueIs
<1> HIDE DEF t
<1>4. Speaks(t)
  BY <1>3, DownSpeaks
<1>5. asks' \in 0..MaxAsks
  BY <1>1, <1>2 DEF Others
<1> QED BY <1>1, <1>3, <1>4, <1>5, OutsideStep

-----------------------------------------------------------------------------
(* The invariant *)

LEMMA ConnectedInit == Init => Connected
<1> SUFFICES ASSUME Init PROVE Connected
  OBVIOUS
<1>1. /\ running = TRUE /\ closed = FALSE /\ stopper = "idle"
      /\ commands = <<>> /\ owing = 0 /\ wake = FALSE /\ pc = "begin"
      /\ s = Closed /\ batch = <<>>
      /\ requests = 0 /\ cuts = 0 /\ asks = 0
      /\ done = [r \in Requests |-> <<>>]
  BY DEF Init
<1>2. Good(s) /\ Speaks(s)
  BY <1>1, ClosedGood
<1>3. SpeakInv
  BY <1>1, <1>2 DEF SpeakInv, Speaks
<1>4. ThreadInv
  BY <1>1, ToSetEmpty DEF ThreadInv, Home
<1>5. Queue = <<>> /\ Len(Queue) = 0
  BY <1>1 DEF Queue
<1>6. OnceInv
  <2> SUFFICES ASSUME NEW x \in Requests PROVE Once(x)
    BY DEF OnceInv
  <2>1. ~(x <= requests)
    BY <1>1, S2sConnectorAssumption DEF Requests
  <2>2. done[x] = <<>>
    BY <1>1
  <2>3. ~Queued(Queue, x) /\ OneAt(Queue, x)
    BY <1>5 DEF Queued, OneAt
  <2>4. ~Waits(s.pending, x) /\ OneEntry(s.pending, x)
    BY <1>1 DEF Closed, Waits, OneEntry
  <2> HIDE DEF Queue
  <2> QED BY <2>1, <2>2, <2>3, <2>4 DEF Once, OnePlace
<1>7. s \in Recs /\ commands \in Seq(Commands) /\ batch \in Seq(Commands)
  <2>1. <<>> \in Seq(Commands)
    OBVIOUS
  <2> QED BY <1>1, <1>2, <2>1 DEF Good
<1>8. done \in [Requests -> Seq(Hows)]
  <2>1. <<>> \in Seq(Hows)
    OBVIOUS
  <2> QED BY <1>1, <2>1
<1>9. Typed
  <2>1. /\ s.link \in {"down", "connecting", "connected"} /\ s.conn \in 0..MaxConns
        /\ s.pending \subseteq [seq : Nat, req : Requests, late : BOOLEAN]
        /\ s.front \in Seq(Frames) /\ s.back \in Seq(Frames)
    BY <1>7 DEF Recs, Entries
  <2>2. requests \in 0..MaxRequests /\ cuts \in 0..MaxCuts /\ asks \in 0..MaxAsks
    BY <1>1, S2sConnectorAssumption
  <2>3. TypeOK
    BY <1>1, <1>8, <2>1, <2>2 DEF TypeOK, Hows
  <2> QED BY <1>7, <1>8, <2>3 DEF Typed
<1> QED BY <1>2, <1>3, <1>4, <1>6, <1>9 DEF Connected

LEMMA StutterStep ==
    ASSUME Connected, UNCHANGED vars
    PROVE  Connected'
<1>1. /\ s' = s /\ pc' = pc /\ UNCHANGED <<batch, commands, requests, done>>
  BY DEF vars, submitVars, threadVars
<1>2. Good(s) /\ ThreadInv /\ SpeakAt(pc, s) /\ Others /\ pc \in Labels
  BY SpeakHas, TypedHas DEF Connected
<1>3. Others'
  BY <1>2 DEF vars, submitVars, threadVars, Others
<1>4. pc \in {"reap", "last", "final", "done"} => s.link = "down"
  BY <1>2 DEF ThreadInv
<1> QED BY <1>1, <1>2, <1>3, <1>4, QuietStep

LEMMA ThreadStepKeeps == Connected /\ ThreadStep => Connected'
<1> SUFFICES ASSUME Connected, ThreadStep PROVE Connected'
  OBVIOUS
<1>1. CASE \E ok \in BOOLEAN : Begin(ok) \/ FramesEnd(ok)
  BY <1>1, BeginStep, FramesStep
<1>2. CASE TakeWake \/ Deadline
  BY <1>2, FlagsStep, DeadlineStep
<1>3. CASE TakeCommands
  BY <1>3, SwapStep DEF TakeCommands
<1>4. CASE DrainNext
  BY <1>4, DrainStep
<1>5. CASE \E ok, part \in BOOLEAN : DrainEnd(ok, part)
  BY <1>5, DrainEndStep
<1>6. CASE \E ok \in BOOLEAN : TurnEnd(ok)
  BY <1>6, TurnEndStep
<1>7. CASE DispatchReply \/ DispatchRequest
  BY <1>7, ReplyStep, AskedStep
<1>8. CASE Cleanup \/ ReapEnd
  BY <1>8, CleanupStep, ReapEndStep
<1>9. CASE LastCommands
  BY <1>9, SwapStep DEF LastCommands
<1> QED BY <1>1, <1>2, <1>3, <1>4, <1>5, <1>6, <1>7, <1>8, <1>9 DEF ThreadStep

LEMMA KernelKeeps == Connected /\ (StaleDone \/ Kernel) => Connected'
<1> SUFFICES ASSUME Connected, StaleDone \/ Kernel PROVE Connected'
  OBVIOUS
<1>1. CASE StaleDone
  BY <1>1, StaleStep
<1>2. CASE \E ok, post \in BOOLEAN : ConnectDone(ok, post)
  BY <1>2, ConnectStep
<1>3. CASE \E n \in 0..Len(s.stream) : RecvDone(n)
  BY <1>3, RecvStep
<1>4. CASE \E ok, post, part \in BOOLEAN : SendDone(ok, post, part)
  BY <1>4, SendStep
<1>5. CASE Reap
  BY <1>5, ReapStep
<1> QED BY <1>1, <1>2, <1>3, <1>4, <1>5 DEF Kernel

LEMMA ConnectedNext == Connected /\ [Next]_vars => Connected'
<1> SUFFICES ASSUME Connected, [Next]_vars PROVE Connected'
  OBVIOUS
<1>1. CASE PushRequest \/ PushCut
  BY <1>1, PushStep
<1>2. CASE Wake \/ StopFlag \/ StopClose
  BY <1>2, FlagsStep
<1>3. CASE ThreadStep
  BY <1>3, ThreadStepKeeps
<1>4. CASE StaleDone \/ Kernel
  BY <1>4, KernelKeeps
<1>5. CASE Callbacks
  BY <1>5, ReplyCutStep, TurnCutStep DEF Callbacks
<1>6. CASE PeerReplies \/ PeerAsks
  BY <1>6, PeerRepliesStep, PeerAsksStep
<1>7. CASE Clock
  BY <1>7, ExpiresStep, RetryDueStep DEF Clock
<1>8. CASE UNCHANGED vars
  BY <1>8, StutterStep
<1> QED BY <1>1, <1>2, <1>3, <1>4, <1>5, <1>6, <1>7, <1>8 DEF Next

LEMMA ConnectedAlways == Spec => []Connected
BY ConnectedInit, ConnectedNext, PTL DEF Spec

-----------------------------------------------------------------------------
(* What the code promises *)

\* A context carries the present generation while the link is not down.
LEMMA FreshIs ==
    ASSUME Good(s), s.link # "down"
    PROVE  \A io \in s.ios : Fresh(io)
BY DEF Good, IosOwn, Fresh

LEMMA OwnConnectionHolds == Connected => OwnConnection
<1> SUFFICES ASSUME Connected PROVE OwnConnection
  OBVIOUS
<1>1. TypeOK /\ s \in Recs /\ Good(s)
  BY DEF Connected, Typed
<1>2. ContextsOwned
  <2>1. \A io \in s.ios : Fresh(io) => s.link # "down"
    <3> SUFFICES ASSUME NEW io \in s.ios, s.link = "down" PROVE ~Fresh(io)
      OBVIOUS
    <3>1. s.ctx[io.op] < s.generation /\ s.generation \in Nat /\ s.ctx[io.op] \in Nat
      BY <1>1 DEF Good, IosOwn, Recs, Ios
    <3> QED BY <3>1 DEF Fresh
  <2>2. /\ \A io \in s.ios : io.conn = s.conn
        /\ \A io, jo \in s.ios : io.op = jo.op => io = jo
    BY <1>1 DEF Good, IosOwn
  <2> QED BY <2>1, <2>2 DEF ContextsOwned
<1>3. BufferAligned
  <2> SUFFICES ASSUME s.buf # <<>>
               PROVE  /\ s.link = "connected" /\ s.buf[1].half = 1
                      /\ \A i \in DOMAIN s.buf : s.buf[i].conn = s.conn
    BY DEF BufferAligned
  <2> DEFINE p == s.buf
             q == s.stream
             both == p \o q
  <2>1. p \in Seq(HalfFrames) /\ q \in Seq(HalfFrames) /\ p # <<>> /\ Aligned(both, s.conn)
    BY <1>1 DEF Recs, Good, InOrder
  <2>2. s.link = "connected"
    BY <1>1 DEF Good, Emptied
  <2> HIDE DEF p, q
  <2>3. Len(p) \in Nat \ {0} /\ Len(q) \in Nat /\ DOMAIN p = 1..Len(p)
    BY <2>1, EmptySeq, LenProperties
  <2>4. both \in Seq(HalfFrames) /\ Len(both) = Len(p) + Len(q)
    BY <2>1, ConcatProperties
  <2>5. \A i \in 1..Len(p) : both[i] = p[i] /\ i \in 1..Len(both)
    <3>1. \A i \in 1..Len(p) : i \in 1..Len(p) + Len(q) /\ i <= Len(p)
      BY <2>3
    <3> QED BY <2>1, <2>4, <3>1, ConcatProperties
  <2>6. 1 \in 1..Len(p)
    BY <2>3
  <2>7. both # <<>>
    BY <2>3, <2>4, EmptySeq
  <2>8. both[1].half = 1 /\ \A i \in 1..Len(both) : both[i].conn = s.conn
    BY <2>1, <2>7 DEF Aligned
  <2>9. p[1].half = 1 /\ \A i \in DOMAIN p : p[i].conn = s.conn
    BY <2>3, <2>5, <2>6, <2>8
  <2> QED BY <2>2, <2>9 DEF p
<1>4. RespondsHome
  <2> DEFINE p == s.front
             q == s.back
             both == p \o q
  <2>1. p \in Seq(Frames) /\ q \in Seq(Frames) /\ Home(p, s.conn) /\ Home(q, s.conn)
    BY <1>1 DEF Recs, Good, OutHome
  <2> HIDE DEF p, q
  <2>2. ToSet(both) = ToSet(p) \cup ToSet(q) /\ both \in Seq(Frames)
    BY <2>1, ToSetConcat, ConcatProperties
  <2>3. \A f \in ToSet(both) : f.kind = "respond" => f.conn = s.conn
    BY <2>1, <2>2 DEF Home
  <2> HIDE DEF both
  <2>4. \A i \in DOMAIN both : both[i] \in ToSet(both)
    BY <2>2 DEF ToSet
  <2>5. \A i \in DOMAIN both : both[i].kind = "respond" => both[i].conn = s.conn
    BY <2>3, <2>4
  <2> QED BY <2>5 DEF both, p, q, RespondsHome
<1> QED BY <1>1, <1>2, <1>3, <1>4 DEF OwnConnection

(* Nothing of an earlier connection is taken for the present one: a completion *)
(* that passes the check of the generation is of this connection, the receive  *)
(* buffer starts where a frame of it starts, and an answer to the peer goes    *)
(* out where it was asked for (generation_, teardown_connection()).            *)
THEOREM OwnConnectionAlways == Spec => []OwnConnection
BY ConnectedAlways, OwnConnectionHolds, PTL

LEMMA OneCompletionHolds == Connected => OneCompletion
<1> SUFFICES ASSUME Connected, NEW r \in Requests
             PROVE  LET queue == batch \o commands
                        queued == {i \in DOMAIN queue : /\ queue[i].kind = "request"
                                                        /\ queue[i].req = r}
                        waiting == {e \in s.pending : e.req = r}
                    IN  Cardinality(queued) + Cardinality(waiting) + Len(done[r])
                          = IF r <= requests THEN 1 ELSE 0
  BY DEF OneCompletion
<1> DEFINE queued == {i \in DOMAIN Queue : Queue[i].kind = "request" /\ Queue[i].req = r}
           waiting == {e \in s.pending : e.req = r}
<1>1. Typed /\ OnceInv
  BY DEF Connected
<1>2. /\ OneAt(Queue, r) /\ OneEntry(s.pending, r)
      /\ done[r] = <<>> \/ \E h \in Hows \ {"crossed"} : done[r] = <<h>>
      /\ ~(Queued(Queue, r) /\ Waits(s.pending, r))
      /\ Queued(Queue, r) \/ Waits(s.pending, r) => done[r] = <<>>
      /\ r <= requests <=> Queued(Queue, r) \/ Waits(s.pending, r) \/ done[r] # <<>>
  BY <1>1, OnceHas
<1>3. DOMAIN Queue = 1..Len(Queue)
  <2>1. Queue \in Seq(Commands)
    BY <1>1, TypedHas
  <2> HIDE DEF Queue
  <2> QED BY <2>1, LenProperties
<1>4. Cardinality(queued) = IF Queued(Queue, r) THEN 1 ELSE 0
  <2> HIDE DEF Queue
  <2>1. CASE Queued(Queue, r)
    <3>1. PICK i \in 1..Len(Queue) : Requested(Queue[i], r)
      BY <2>1 DEF Queued
    <3>2. queued = {i}
      BY <1>2, <1>3, <3>1 DEF OneAt, Requested
    <3> QED BY <2>1, <3>2, FS_Singleton
  <2>2. CASE ~Queued(Queue, r)
    <3>1. queued = {}
      BY <1>3, <2>2 DEF Queued, Requested
    <3> QED BY <2>2, <3>1, FS_EmptySet
  <2> QED BY <2>1, <2>2
<1>5. Cardinality(waiting) = IF Waits(s.pending, r) THEN 1 ELSE 0
  <2>1. CASE Waits(s.pending, r)
    <3>1. PICK e \in s.pending : e.req = r
      BY <2>1 DEF Waits
    <3>2. waiting = {e}
      BY <1>2, <3>1 DEF OneEntry
    <3> QED BY <2>1, <3>2, FS_Singleton
  <2>2. CASE ~Waits(s.pending, r)
    <3>1. waiting = {}
      BY <2>2 DEF Waits
    <3> QED BY <2>2, <3>1, FS_EmptySet
  <2> QED BY <2>1, <2>2
<1>6. Len(done[r]) = IF done[r] = <<>> THEN 0 ELSE 1
  BY <1>2
<1> HIDE DEF waiting
<1>7. Cardinality(queued) + Cardinality(waiting) + Len(done[r]) = IF r <= requests THEN 1 ELSE 0
  <2> HIDE DEF queued, Queue
  <2> QED BY <1>2, <1>4, <1>5, <1>6
<1> QED BY <1>7 DEF queued, waiting, Queue

(* A request that was accepted is in exactly one place - queued, waiting or     *)
(* completed - and is completed once, never by the answer to another: answers, *)
(* time-outs, the loss of the link, cuts from inside a callback and stop()     *)
(* compete for it (request(), drain_commands(), sweep_timeouts(),              *)
(* teardown_connection(), dispatch_frame()).                                   *)
THEOREM CompletedOnceAlways == Spec => []CompletedOnce
<1>1. Connected => RightAnswer
  <2> SUFFICES ASSUME Connected, NEW r \in Requests, NEW i \in DOMAIN done[r]
               PROVE  done[r][i] # "crossed"
    BY DEF RightAnswer
  <2>1. done[r] = <<>> \/ \E h \in Hows \ {"crossed"} : done[r] = <<h>>
    BY OnceHas DEF Connected
  <2> QED BY <2>1
<1>2. Connected => CompletedOnce
  BY <1>1, OneCompletionHolds DEF CompletedOnce
<1> QED BY <1>2, ConnectedAlways, PTL

LEMMA NeverDeafHolds == Connected => NeverDeaf
<1> SUFFICES ASSUME Connected, pc = "wait", s.link = "connected"
             PROVE  /\ \E io \in s.ios : io.op = "recv" /\ Fresh(io)
                    /\ s.front \o s.back # <<>> => \E io \in s.ios : io.op = "send" /\ Fresh(io)
  BY DEF NeverDeaf
<1>1. Good(s) /\ Speaks(s)
  BY WaitSpeaks
<1>2. \A io \in s.ios : Fresh(io)
  BY <1>1, FreshIs
<1>3. \E io \in s.ios : io.op = "recv"
  BY <1>1 DEF Speaks, Listens
<1>4. s.front \o s.back # <<>> => s.sending
  BY <1>1 DEF Speaks, Flushed
<1>5. s.sending => \E io \in s.ios : io.op = "send"
  BY <1>1 DEF Speaks, Posted
<1> QED BY <1>2, <1>3, <1>4, <1>5

(* While the thread waits, an open connection has a receive issued, and         *)
(* something to send means that a send is issued which will come back for it:  *)
(* the link is never left open and deaf, or dumb with frames queued            *)
(* (post_recv(), maybe_kick_send(), on_send_io_complete()).                    *)
THEOREM NeverDeafAlways == Spec => []NeverDeaf
BY ConnectedAlways, NeverDeafHolds, PTL
=============================================================================
