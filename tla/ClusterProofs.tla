---------------------------- MODULE ClusterProofs ----------------------------
(***************************************************************************)
(* TLAPS proofs about Cluster, for any villages and players, any capacity, *)
(* any number of links, and whatever is lost, late or dies.                *)
(***************************************************************************)
EXTENDS Cluster, FiniteSetTheorems, SequenceTheorems, WellFoundedInduction, TLAPS

-----------------------------------------------------------------------------
(* The inductive invariants *)

UpMessages ==
    [type : {"Register"}, host : Villages]
    \cup [type : {"Heartbeat", "Unregister"}]
    \cup [type : {"PlayerEnter", "PlayerLeave"}, player : Players]
    \cup [type : {"FullSync"}, first : BOOLEAN, ids : SUBSET Players]
    \cup [type : {"ReserveAck"}, seq : Nat, ok : BOOLEAN]
    \cup [type : {"KickAck"}, seq : Nat, kicked : BOOLEAN]

DownMessages ==
    [type : {"RegisterAck"}, ok : BOOLEAN]
    \cup [type : {"Reserve"}, player : Players, seq : Nat, issue : Nat]
    \cup [type : {"SetMode"}, drain : BOOLEAN]
    \cup [type : {"Kick"}, player : Players, seq : Nat]

Reserves == [seq : Nat, player : Players, server : Nat, issue : Nat]
Kicks == [seq : Nat, player : Players, server : Nat]
Rows == [reserves : SUBSET Reserves, kicks : SUBSET Kicks, next : Nat]

EntryRecords ==
    [id : 1..nextId - 1, host : Villages, conn : Links, link : Links \cup {0},
     orphan : Nat, draining : BOOLEAN]

EntriesTyped ==
    /\ nextId \in Nat \ {0}
    /\ entries \subseteq EntryRecords /\ IsFiniteSet(entries) /\ Cardinality(entries) <= Capacity

ServerTyped ==
    /\ nextIssue \in Nat
    /\ record \in [Players -> 0..nextId - 1]
    /\ booking \in [Players -> [server : Nat, issue : Nat] \cup {None}]
    /\ \A p \in Players : booking[p] # None => booking[p].issue < nextIssue
    /\ asked \in [Links -> Rows]
    /\ holds \in [Links -> Int] /\ parting \subseteq Links

LinksTyped ==
    /\ gone \subseteq lost /\ lost \subseteq Links
    /\ up \in [Links -> Seq(UpMessages)] /\ down \in [Links -> Seq(DownMessages)]

VillagesTyped ==
    /\ conn \in [Villages -> Links \cup {0}]
    /\ \A v, w \in Villages : v # w /\ conn[v] = conn[w] => conn[v] = 0
    /\ registered \in [Villages -> BOOLEAN]
    /\ roster \in [Villages -> [Players -> {"out", "in", "closing"}]]
    /\ seat \in [Villages -> [Players -> BOOLEAN]]
    /\ drain \in [Villages -> BOOLEAN]
    /\ kick \in [Villages -> [player : Players, seq : Nat, there : BOOLEAN] \cup {None}]

\* TypeOK, and what the messages and rows that are under way look like.
Typed == EntriesTyped /\ ServerTyped /\ LinksTyped /\ VillagesTyped

\* The registry: each entry has its own number and connection, its link is that
\* connection, and a link is held once or not at all.
TableInv ==
    /\ \A e \in entries : e.link \in {0, e.conn} /\ (e.conn \notin gone => e.link = e.conn)
    /\ \A e, f \in entries : e # f => e.id # f.id /\ e.conn # f.conn
    /\ \A l \in Links : holds[l] = IF \E e \in entries : e.link = l THEN 1 ELSE 0
    /\ \A p \in Players : record[p] # 0 => record[p] \in {e.id : e \in entries}

\* A queue has its head, and what comes later.
Msgs(q) == {q[i] : i \in 1..Len(q)}
Later(q) == {q[i] : i \in 2..Len(q)}
Has(q, types) == \E m \in Msgs(q) : m.type \in types

\* A link without a village is closed, and nothing is under way to it; a village
\* without a link is not registered.
LinksInv ==
    /\ \A l \in Links : (\A v \in Villages : conn[v] # l) => l \in lost /\ down[l] = <<>>
    /\ \A v \in Villages : registered[v] => conn[v] # 0

\* A Register is the first message of its connection, and nothing has come of the
\* connection before it.
First(l) ==
    /\ \A m \in Later(up[l]) : m.type # "Register"
    /\ Has(up[l], {"Register"}) =>
         /\ ByConn(l) = {}
         /\ ~Has(down[l], {"RegisterAck", "Reserve"}) /\ ~Has(up[l], {"ReserveAck"})
         /\ \A v \in Villages : conn[v] = l => ~registered[v]
FirstInv == \A l \in Links : First(l)

\* What a message to the server makes of the record of a player.
Adds(m, p) == (m.type = "PlayerEnter" /\ m.player = p) \/ (m.type = "FullSync" /\ p \in m.ids)
Clears(m, p) ==
    \/ m.type = "PlayerLeave" /\ m.player = p
    \/ m.type = "FullSync" /\ m.first /\ p \notin m.ids

ClearedIn(q, p) == \E m \in Msgs(q) : Clears(m, p)
ClearedLast(q, p) ==
    \A i \in 1..Len(q) : Adds(q[i], p) => \E j \in i + 1..Len(q) : Clears(q[j], p)

\* Who is not in the village is on record for it only until a message that is
\* under way has been handled.
Linked(v) == registered[v] /\ conn[v] # 0 /\ Alive(conn[v])
Awaited(v, p) ==
    /\ ClearedLast(up[conn[v]], p)
    /\ \A e \in ByConn(conn[v]) : record[p] = e.id => ClearedIn(up[conn[v]], p)
GhostInv ==
    \A v \in Villages, p \in Players : Linked(v) /\ roster[v][p] = "out" => Awaited(v, p)

\* Answers belong to the rows they name.
Matched(l) ==
    /\ \A r \in asked[l].reserves : r.seq < asked[l].next
    /\ \A m \in Msgs(down[l]) : m.type = "Reserve" =>
         /\ m.seq < asked[l].next
         /\ \A r \in asked[l].reserves : r.seq = m.seq => r.issue = m.issue
    /\ \A m \in Msgs(up[l]) : m.type = "ReserveAck" =>
         /\ m.seq < asked[l].next
         /\ \A r \in asked[l].reserves : r.seq = m.seq /\ ~m.ok => r.issue \in refused

\* Behind session_gone answers find no rows, or there are none under way.
Quiet(l) == ~Has(down[l], {"Reserve"}) /\ ~Has(up[l], {"ReserveAck"})
Forgotten(l) ==
    /\ asked[l].reserves = {} /\ ~Has(up[l], {"Register"})
    /\ \A e \in entries : e.link # l

Answers(l) == IF l \in gone THEN Quiet(l) \/ Forgotten(l) ELSE Matched(l)
AnswersInv == \A l \in Links : Answers(l)

-----------------------------------------------------------------------------
(* Lemmas about queues *)

LEMMA EmptyQueue ==
    /\ Msgs(<<>>) = {} /\ Later(<<>>) = {}
    /\ \A p : ~ClearedIn(<<>>, p) /\ ClearedLast(<<>>, p)
<1>1. Len(<<>>) = 0
  BY EmptySeq
<1> QED BY <1>1 DEF Msgs, Later, ClearedIn, ClearedLast

LEMMA OneMessage == \A m : Msgs(<<m>>) = {m} /\ Later(<<m>>) = {}
BY DEF Msgs, Later

\* What the next message is, and what is left behind it.
LEMMA QueueTail ==
    ASSUME NEW S, NEW q \in Seq(S), q # <<>>
    PROVE  /\ Head(q) \in S /\ Head(q) \in Msgs(q) /\ Tail(q) \in Seq(S)
           /\ Msgs(Tail(q)) = Later(q) /\ Later(Tail(q)) \subseteq Later(q)
           /\ Msgs(q) = {Head(q)} \cup Later(q)
           /\ \A p : ClearedLast(q, p) =>
                ClearedLast(Tail(q), p) /\ (Adds(Head(q), p) => ClearedIn(Tail(q), p))
           /\ \A p : ClearedIn(q, p) => Clears(Head(q), p) \/ ClearedIn(Tail(q), p)
<1>1. /\ Head(q) = q[1] /\ Head(q) \in S /\ Tail(q) \in Seq(S)
      /\ Len(q) \in Nat \ {0} /\ Len(Tail(q)) = Len(q) - 1
      /\ \A i \in 1..Len(q) - 1 : Tail(q)[i] = q[i + 1]
  BY HeadTailProperties, EmptySeq
<1> DEFINE r == Tail(q)  n == Len(q)
<1>2. /\ Len(r) = n - 1 /\ n \in Nat \ {0}
      /\ \A i \in 1..n - 1 : r[i] = q[i + 1]
  BY <1>1
<1> HIDE DEF r, n
<1>3. Head(q) \in Msgs(q) /\ Msgs(q) = {Head(q)} \cup Later(q)
  BY <1>1 DEF Msgs, Later
<1>4. Msgs(r) = Later(q)
  <2>1. ASSUME NEW m \in Msgs(r) PROVE m \in Later(q)
    <3>1. PICK i \in 1..n - 1 : m = r[i]
      BY <1>2, <2>1 DEF Msgs
    <3>2. i + 1 \in 2..n /\ m = q[i + 1]
      BY <1>2, <3>1
    <3> QED BY <3>2 DEF Later, n
  <2>2. ASSUME NEW m \in Later(q) PROVE m \in Msgs(r)
    <3>1. PICK i \in 2..n : m = q[i]
      BY <2>2 DEF Later, n
    <3>2. i - 1 \in 1..Len(r) /\ m = r[i - 1]
      BY <1>2, <3>1
    <3> QED BY <3>2 DEF Msgs
  <2> QED BY <2>1, <2>2
<1>5. Later(r) \subseteq Later(q)
  <2> SUFFICES ASSUME NEW i \in 2..Len(r) PROVE r[i] \in Later(q)
    BY DEF Later
  <2>1. i + 1 \in 2..n /\ r[i] = q[i + 1]
    BY <1>2
  <2> QED BY <2>1 DEF Later, n
<1>6. ASSUME NEW p, ClearedLast(q, p)
      PROVE  ClearedLast(r, p) /\ (Adds(Head(q), p) => ClearedIn(r, p))
  <2>1. ASSUME NEW i \in 1..Len(r), Adds(r[i], p)
        PROVE  \E j \in i + 1..Len(r) : Clears(r[j], p)
    <3>1. i + 1 \in 1..n /\ Adds(q[i + 1], p)
      BY <1>2, <2>1
    <3>2. PICK j \in i + 2..n : Clears(q[j], p)
      BY <1>2, <1>6, <3>1 DEF ClearedLast, n
    <3>3. j - 1 \in i + 1..Len(r) /\ r[j - 1] = q[j]
      BY <1>2, <3>1, <3>2
    <3> QED BY <3>2, <3>3
  <2>2. ASSUME Adds(Head(q), p) PROVE ClearedIn(r, p)
    <3>1. PICK j \in 2..n : Clears(q[j], p)
      BY <1>1, <1>2, <1>6, <2>2 DEF ClearedLast, n
    <3>2. j - 1 \in 1..Len(r) /\ r[j - 1] = q[j]
      BY <1>2, <3>1
    <3> QED BY <3>1, <3>2 DEF ClearedIn, Msgs
  <2> QED BY <2>1, <2>2 DEF ClearedLast
<1>7. ASSUME NEW p, ClearedIn(q, p) PROVE Clears(Head(q), p) \/ ClearedIn(r, p)
  BY <1>3, <1>4, <1>7 DEF ClearedIn
<1> QED BY <1>1, <1>3, <1>4, <1>5, <1>6, <1>7 DEF r

\* A message is appended.
LEMMA QueueAppend ==
    ASSUME NEW S, NEW q \in Seq(S), NEW m \in S
    PROVE  /\ Append(q, m) \in Seq(S)
           /\ Msgs(Append(q, m)) = Msgs(q) \cup {m}
           /\ Later(Append(q, m)) \subseteq Later(q) \cup {m}
           /\ \A p : Clears(m, p) \/ (~Adds(m, p) /\ ClearedLast(q, p))
                => ClearedLast(Append(q, m), p)
           /\ \A p : Clears(m, p) \/ ClearedIn(q, p) => ClearedIn(Append(q, m), p)
<1> DEFINE r == Append(q, m)  n == Len(q)
<1>1. /\ r \in Seq(S) /\ Len(r) = n + 1 /\ n \in Nat
      /\ \A i \in 1..n : r[i] = q[i]
      /\ r[n + 1] = m
  BY AppendProperties, LenProperties
<1> HIDE DEF r, n
<1>2. Msgs(r) = Msgs(q) \cup {m}
  <2>1. 1..n + 1 = 1..n \cup {n + 1}
    BY <1>1
  <2> QED BY <1>1, <2>1 DEF Msgs, n
<1>3. Later(r) \subseteq Later(q) \cup {m}
  <2>1. \A i \in 2..n + 1 : i = n + 1 \/ i \in 2..n
    BY <1>1
  <2> QED BY <1>1, <2>1 DEF Later, n
<1>4. ASSUME NEW p, Clears(m, p) \/ (~Adds(m, p) /\ ClearedLast(q, p)) PROVE ClearedLast(r, p)
  <2> SUFFICES ASSUME NEW i \in 1..Len(r), Adds(r[i], p)
               PROVE  \E j \in i + 1..Len(r) : Clears(r[j], p)
    BY DEF ClearedLast
  <2>1. ~(Adds(m, p) /\ Clears(m, p))
    BY DEF Adds, Clears
  <2>2. i \in 1..n /\ Adds(q[i], p)
    BY <1>1, <1>4, <2>1
  <2>3. CASE Clears(m, p)
    BY <1>1, <2>2, <2>3
  <2>4. CASE ~Clears(m, p)
    <3>1. PICK j \in i + 1..n : Clears(q[j], p)
      BY <1>4, <2>2, <2>4 DEF ClearedLast, n
    <3>2. j \in i + 1..Len(r) /\ r[j] = q[j]
      BY <1>1, <2>2, <3>1
    <3> QED BY <3>1, <3>2
  <2> QED BY <2>3, <2>4
<1> QED BY <1>1, <1>2, <1>3, <1>4 DEF r, ClearedIn

\* A queue of messages is put behind another.
LEMMA QueueConcat ==
    ASSUME NEW S, NEW q \in Seq(S), NEW f \in Seq(S)
    PROVE  /\ q \o f \in Seq(S)
           /\ Msgs(q \o f) = Msgs(q) \cup Msgs(f)
           /\ Later(q \o f) \subseteq Later(q) \cup Msgs(f)
           /\ \A p : f # <<>> /\ Clears(f[1], p) /\ (\A m \in Msgs(f) : ~Adds(m, p))
                => ClearedLast(q \o f, p) /\ ClearedIn(q \o f, p)
<1> DEFINE r == q \o f  n == Len(q)  k == Len(f)
<1>1. /\ r \in Seq(S) /\ Len(r) = n + k /\ n \in Nat /\ k \in Nat
      /\ \A i \in 1..n + k : r[i] = IF i <= n THEN q[i] ELSE f[i - n]
  BY ConcatProperties, LenProperties
<1>2. f # <<>> => k \in Nat \ {0}
  BY EmptySeq
<1> HIDE DEF r, n, k
<1>3. ASSUME NEW i \in 1..n + k PROVE r[i] \in Msgs(q) \cup Msgs(f)
  <2>1. CASE i <= n
    BY <1>1, <2>1 DEF Msgs, n
  <2>2. CASE ~(i <= n)
    <3>1. i - n \in 1..k /\ r[i] = f[i - n]
      BY <1>1, <2>2
    <3> QED BY <3>1 DEF Msgs, k
  <2> QED BY <2>1, <2>2
<1>4. Msgs(r) = Msgs(q) \cup Msgs(f)
  <2>1. ASSUME NEW i \in 1..n PROVE q[i] \in Msgs(r)
    BY <1>1 DEF Msgs
  <2>2. ASSUME NEW i \in 1..k PROVE f[i] \in Msgs(r)
    <3>1. n + i \in 1..Len(r) /\ r[n + i] = f[i]
      BY <1>1
    <3> QED BY <3>1 DEF Msgs
  <2>3. Msgs(q) \cup Msgs(f) \subseteq Msgs(r)
    BY <2>1, <2>2 DEF Msgs, n, k
  <2>4. Msgs(r) \subseteq Msgs(q) \cup Msgs(f)
    <3> SUFFICES ASSUME NEW i \in 1..Len(r) PROVE r[i] \in Msgs(q) \cup Msgs(f)
      BY DEF Msgs
    <3> QED BY <1>1, <1>3
  <2> QED BY <2>3, <2>4
<1>5. Later(r) \subseteq Later(q) \cup Msgs(f)
  <2> SUFFICES ASSUME NEW i \in 2..Len(r) PROVE r[i] \in Later(q) \cup Msgs(f)
    BY DEF Later
  <2>1. CASE i <= n
    BY <1>1, <2>1 DEF Later, n
  <2>2. CASE ~(i <= n)
    <3>1. i - n \in 1..k /\ r[i] = f[i - n]
      BY <1>1, <2>2
    <3> QED BY <3>1 DEF Msgs, k
  <2> QED BY <2>1, <2>2
<1>6. ASSUME NEW p, f # <<>>, Clears(f[1], p), \A m \in Msgs(f) : ~Adds(m, p)
      PROVE  ClearedLast(r, p) /\ ClearedIn(r, p)
  <2>1. n + 1 \in 1..Len(r) /\ r[n + 1] = f[1]
    BY <1>1, <1>2, <1>6
  <2>2. ASSUME NEW i \in 1..Len(r), Adds(r[i], p) PROVE i <= n
    <3> SUFFICES ASSUME ~(i <= n) PROVE FALSE
      BY <1>1
    <3>1. i - n \in 1..k /\ r[i] = f[i - n]
      BY <1>1
    <3> QED BY <1>6, <2>2, <3>1 DEF Msgs, k
  <2>3. ASSUME NEW i \in 1..Len(r), Adds(r[i], p) PROVE n + 1 \in i + 1..Len(r)
    BY <1>1, <2>1, <2>2, <2>3
  <2> QED BY <1>6, <2>1, <2>3 DEF ClearedLast, ClearedIn, Msgs
<1> QED BY <1>1, <1>4, <1>5, <1>6 DEF r

-----------------------------------------------------------------------------
(* Lemmas about sets *)

LEMMA SetToSeqIs ==
    ASSUME NEW S, IsFiniteSet(S)
    PROVE  /\ SetToSeq(S) \in Seq(S) /\ Len(SetToSeq(S)) = Cardinality(S)
           /\ Cardinality(S) \in Nat
           /\ \A i, j \in 1..Cardinality(S) : SetToSeq(S)[i] = SetToSeq(S)[j] => i = j
           /\ \A x \in S : \E i \in 1..Cardinality(S) : SetToSeq(S)[i] = x
<1> DEFINE n == Cardinality(S)
<1>1. n \in Nat /\ ExistsBijection(1..n, S)
  BY FS_CardinalityType
<1>2. PICK g : g \in Bijection(1..n, S)
  BY <1>1 DEF ExistsBijection
<1>3. g \in [1..n -> S] /\ IsInjective(g)
  BY <1>2 DEF Bijection, Injection, IsInjective
<1>4. SetToSeq(S) \in [1..n -> S] /\ IsInjective(SetToSeq(S))
  BY <1>3 DEF SetToSeq
<1> DEFINE f == SetToSeq(S)
<1>5. f \in Seq(S) /\ Len(f) = n
  BY <1>1, <1>4
<1>6. \A i, j \in 1..n : f[i] = f[j] => i = j
  BY <1>4 DEF IsInjective
<1>7. \A x \in S : \E i \in 1..n : f[i] = x
  <2>1. f \in Injection(1..n, S)
    BY <1>4, <1>6 DEF Injection, IsInjective
  <2>2. IsFiniteSet(1..n) /\ Cardinality(1..n) = n
    BY <1>1, FS_Interval
  <2>3. f \in Surjection(1..n, S)
    BY <2>1, <2>2, FS_Injection
  <2> QED BY <2>3 DEF Surjection
<1> QED BY <1>1, <1>5, <1>6, <1>7

\* A finite set of numbers has a greatest one.
LEMMA MaxExists ==
    ASSUME NEW S \in SUBSET Nat, IsFiniteSet(S), S # {}
    PROVE  Max(S) \in S /\ \A n \in S : Max(S) >= n
<1> DEFINE Unbounded == {T \in FiniteSubsetsOf(Nat) : T # {} /\ ~\E m \in T : \A n \in T : m >= n}
<1>1. ASSUME Unbounded # {} PROVE FALSE
  <2>1. PICK T \in Unbounded : \A U \in Unbounded : ~(<<U, T>> \in StrictSubsetOrdering(Nat))
    <3>1. Unbounded \subseteq FiniteSubsetsOf(Nat)
      OBVIOUS
    <3> HIDE DEF Unbounded
    <3> QED BY <1>1, <3>1, FS_StrictSubsetOrderingWellFounded, WFMin
  <2>2. T \subseteq Nat /\ IsFiniteSet(T) /\ T # {} /\ ~\E m \in T : \A n \in T : m >= n
    BY <2>1 DEF FiniteSubsetsOf
  <2>3. PICK x \in T : TRUE
    BY <2>2
  <2> DEFINE U == T \ {x}
  <2>4. U \in FiniteSubsetsOf(Nat) /\ <<U, T>> \in StrictSubsetOrdering(Nat)
    BY <2>2, <2>3, FS_RemoveElement DEF FiniteSubsetsOf, StrictSubsetOrdering
  <2>5. U \notin Unbounded
    BY <2>1, <2>4
  <2>6. CASE U = {}
    <3>1. \A n \in T : x >= n
      BY <2>2, <2>3, <2>6
    <3> QED BY <2>2, <2>3, <3>1
  <2>7. CASE U # {}
    <3>1. PICK m \in U : \A n \in U : m >= n
      BY <2>4, <2>5, <2>7
    <3>2. m \in Nat /\ x \in Nat /\ m \in T /\ \A n \in T : n \in U \/ n = x
      BY <2>2, <2>3, <3>1
    <3>3. CASE m >= x
      BY <2>2, <3>1, <3>2, <3>3
    <3>4. CASE x >= m
      <4>1. \A n \in T : x >= n
        BY <2>2, <3>1, <3>2, <3>4
      <4> QED BY <2>2, <2>3, <4>1
    <3> QED BY <3>2, <3>3, <3>4
  <2> QED BY <2>6, <2>7
<1>2. S \in FiniteSubsetsOf(Nat)
  BY DEF FiniteSubsetsOf
<1>3. \E m \in S : \A n \in S : m >= n
  BY <1>1, <1>2
<1> QED BY <1>3 DEF Max

\* The stamp of the next orphan.
LEMMA StampIs == Typed => NextStamp \in Nat \ {0}
<1> SUFFICES ASSUME Typed PROVE NextStamp \in Nat \ {0}
  OBVIOUS
<1> DEFINE S == {e.orphan : e \in entries}
<1>1. S \subseteq Nat
  BY DEF Typed, EntriesTyped, EntryRecords
<1>2. IsFiniteSet(S)
  <2> DEFINE f == [e \in entries |-> e.orphan]
  <2>1. f \in Surjection(entries, S)
    BY DEF Surjection
  <2> QED BY <2>1, FS_Surjection DEF Typed, EntriesTyped
<1>3. IsFiniteSet(S \cup {0})
  BY <1>2, FS_AddElement
<1> HIDE DEF S
<1>4. Max(S \cup {0}) \in Nat
  <2>1. S \cup {0} \in SUBSET Nat /\ S \cup {0} # {}
    BY <1>1
  <2> QED BY <1>3, <2>1, MaxExists
<1> QED BY <1>4 DEF NextStamp, S

\* Entries that are changed one by one stay as many, or become fewer.
LEMMA EntriesChanged ==
    ASSUME NEW E, IsFiniteSet(E), NEW f, DOMAIN f = E
    PROVE  /\ IsFiniteSet({f[e] : e \in E}) /\ Cardinality({f[e] : e \in E}) <= Cardinality(E)
           /\ Cardinality({f[e] : e \in E}) \in Nat /\ Cardinality(E) \in Nat
<1> DEFINE T == {f[e] : e \in E}  g == [e \in E |-> f[e]]
<1>1. g \in Surjection(E, T)
  BY DEF Surjection
<1> QED BY <1>1, FS_Surjection, FS_CardinalityType

-----------------------------------------------------------------------------
(* Lemmas about the operators of the model *)

LEMMA TypedIsTypeOK == Typed => TypeOK
BY DEF Typed, EntriesTyped, ServerTyped, LinksTyped, VillagesTyped, EntryRecords, TypeOK

\* What a message to the server carries.
LEMMA UpKinds ==
    ASSUME NEW m \in UpMessages
    PROVE  /\ m.type \in {"Register", "Heartbeat", "Unregister", "PlayerEnter", "PlayerLeave",
                          "FullSync", "ReserveAck", "KickAck"}
           /\ m.type = "Register" => m.host \in Villages
           /\ m.type \in {"PlayerEnter", "PlayerLeave"} => m.player \in Players
           /\ m.type = "FullSync" => m.first \in BOOLEAN /\ m.ids \subseteq Players
           /\ m.type = "ReserveAck" => m.seq \in Nat /\ m.ok \in BOOLEAN
           /\ m.type = "KickAck" => m.seq \in Nat /\ m.kicked \in BOOLEAN
BY DEF UpMessages

\* What a message from the server carries.
LEMMA DownKinds ==
    ASSUME NEW m \in DownMessages
    PROVE  /\ m.type \in {"RegisterAck", "Reserve", "SetMode", "Kick"}
           /\ m.type = "RegisterAck" => m.ok \in BOOLEAN
           /\ m.type = "Reserve" => m.player \in Players /\ m.seq \in Nat /\ m.issue \in Nat
           /\ m.type = "SetMode" => m.drain \in BOOLEAN
           /\ m.type = "Kick" => m.player \in Players /\ m.seq \in Nat
BY DEF DownMessages

LEMMA MessagesTyped ==
    /\ \A v \in Villages : [type |-> "Register", host |-> v] \in UpMessages
    /\ [type |-> "Heartbeat"] \in UpMessages /\ [type |-> "Unregister"] \in UpMessages
    /\ \A p \in Players : [type |-> "PlayerEnter", player |-> p] \in UpMessages
    /\ \A p \in Players : [type |-> "PlayerLeave", player |-> p] \in UpMessages
    /\ \A b \in BOOLEAN, S \in SUBSET Players :
         [type |-> "FullSync", first |-> b, ids |-> S] \in UpMessages
    /\ \A n \in Nat, b \in BOOLEAN :
         /\ [type |-> "ReserveAck", seq |-> n, ok |-> b] \in UpMessages
         /\ KickAck(n, b) \in UpMessages
    /\ \A b \in BOOLEAN : /\ [type |-> "RegisterAck", ok |-> b] \in DownMessages
                          /\ [type |-> "SetMode", drain |-> b] \in DownMessages
    /\ \A p \in Players, n, i \in Nat :
         /\ [type |-> "Reserve", player |-> p, seq |-> n, issue |-> i] \in DownMessages
         /\ [type |-> "Kick", player |-> p, seq |-> n] \in DownMessages
BY DEF UpMessages, DownMessages, KickAck

LEMMA SentIs ==
    ASSUME NEW S, NEW q \in [Links -> Seq(S)], NEW l \in Links, NEW m \in S
    PROVE  /\ Sent(q, l, m) \in [Links -> Seq(S)]
           /\ \A k \in Links :
                Sent(q, l, m)[k] = IF k = l /\ Alive(l) THEN Append(q[l], m) ELSE q[k]
<1>1. Append(q[l], m) \in Seq(S)
  BY AppendProperties
<1> QED BY <1>1 DEF Sent

\* The messages of a full sync name those who are there, and the first clears.
LEMMA FullSyncIs ==
    ASSUME NEW v \in Villages
    PROVE  /\ FullSync(v) \in Seq(UpMessages) /\ FullSync(v) # <<>>
           /\ FullSync(v)[1].type = "FullSync" /\ FullSync(v)[1].first
           /\ FullSync(v)[1] \in Msgs(FullSync(v))
           /\ \A m \in Msgs(FullSync(v)) :
                m.type = "FullSync" /\ \A p \in m.ids : roster[v][p] # "out"
<1> DEFINE ids == Present(v)
           n == (Len(ids) + ChunkMax - 1) \div ChunkMax
           last(i) == IF i * ChunkMax < Len(ids) THEN i * ChunkMax ELSE Len(ids)
           part(i) == {ids[k] : k \in (i - 1) * ChunkMax + 1 .. last(i)}
           N == IF n = 0 THEN 1 ELSE n
           q == [i \in 1..N |-> [type |-> "FullSync", first |-> i = 1, ids |-> part(i)]]
           here == {p \in Players : roster[v][p] # "out"}
<1>1. FullSync(v) = q
  BY DEF FullSync
<1>2. ids \in Seq(here) /\ Len(ids) \in Nat
  <2>1. IsFiniteSet(here)
    BY ClusterAssumption, FS_Subset
  <2> QED BY <2>1, SetToSeqIs, LenProperties DEF Present
<1>3. N \in Nat \ {0}
  <2>1. ChunkMax \in Nat \ {0}
    BY ClusterAssumption
  <2> HIDE DEF ids
  <2>2. n \in Nat
    BY <1>2, <2>1
  <2> QED BY <2>2
<1>4. ASSUME NEW i \in 1..N PROVE part(i) \subseteq here
  <2> HIDE DEF ids, N
  <2>1. (i - 1) * ChunkMax \in Nat
    BY <1>3, ClusterAssumption
  <2>2. ASSUME NEW k \in (i - 1) * ChunkMax + 1 .. last(i) PROVE k \in 1..Len(ids)
    <3>1. i * ChunkMax \in Nat
      BY <1>3, ClusterAssumption
    <3> DEFINE a == (i - 1) * ChunkMax  b == i * ChunkMax
    <3> HIDE DEF a, b
    <3> QED BY <1>2, <2>1, <2>2, <3>1 DEF a, b
  <2> QED BY <1>2, <2>2, ElementOfSeq
<1> HIDE DEF N, part
<1>5. \A i \in 1..N : q[i] \in UpMessages
  <2>1. \A i \in 1..N : part(i) \in SUBSET Players /\ (i = 1) \in BOOLEAN
    BY <1>4
  <2> QED BY <2>1, MessagesTyped
<1>6. q \in Seq(UpMessages) /\ Len(q) = N
  BY <1>3, <1>5
<1>7. q # <<>> /\ 1 \in 1..N
  BY <1>3, <1>6, EmptySeq
<1>8. \A i \in 1..N : q[i].type = "FullSync" /\ q[i].first = (i = 1) /\ q[i].ids = part(i)
  OBVIOUS
<1>9. \A m \in Msgs(q) : \E i \in 1..N : m = q[i]
  BY <1>6 DEF Msgs
<1>10. q[1] \in Msgs(q)
  BY <1>6, <1>7 DEF Msgs
<1> HIDE DEF q
<1>11. \A m \in Msgs(q) : m.type = "FullSync" /\ \A p \in m.ids : roster[v][p] # "out"
  BY <1>4, <1>8, <1>9
<1> QED BY <1>1, <1>6, <1>7, <1>8, <1>10, <1>11

\* The entry of a connection, and what it is asked for.
LEMMA TheEntry ==
    ASSUME Typed, TableInv, NEW l \in Links
    PROVE  /\ ByConn(l) = {} => IdOf(l) = 0 /\ LinkOf(IdOf(l)) = 0
           /\ IdOf(l) = 0 => ByConn(l) = {}
           /\ IdOf(l) \in 0..nextId - 1
           /\ \A e \in ByConn(l) :
                /\ ByConn(l) = {e} /\ IdOf(l) = e.id /\ e.id # 0
                /\ ById(e.id) = {e} /\ LinkOf(IdOf(l)) = e.link
<1>1. \A e \in entries : e.id \in 1..nextId - 1
  BY DEF Typed, EntriesTyped, EntryRecords
<1>2. nextId \in Nat \ {0}
  BY DEF Typed, EntriesTyped
<1>3. ASSUME ByConn(l) = {} PROVE IdOf(l) = 0 /\ LinkOf(IdOf(l)) = 0
  <2>1. IdOf(l) = 0
    BY <1>3 DEF IdOf
  <2>2. ById(0) = {}
    BY <1>1, <1>2 DEF ById
  <2> QED BY <2>1, <2>2 DEF LinkOf
<1>4. ASSUME NEW e \in ByConn(l)
      PROVE  /\ ByConn(l) = {e} /\ IdOf(l) = e.id /\ e.id \in 1..nextId - 1
             /\ ById(e.id) = {e} /\ LinkOf(IdOf(l)) = e.link
  <2>1. e \in entries /\ e.conn = l
    BY DEF ByConn
  <2>2. ByConn(l) = {e} /\ ById(e.id) = {e}
    BY <2>1 DEF ByConn, ById, TableInv
  <2>3. IdOf(l) = e.id
    BY <2>2 DEF IdOf
  <2>4. LinkOf(e.id) = e.link
    BY <2>2 DEF LinkOf
  <2> QED BY <1>1, <2>1, <2>2, <2>3, <2>4
<1>5. IdOf(l) \in 0..nextId - 1
  <2>1. CASE ByConn(l) = {}
    BY <1>2, <1>3, <2>1
  <2>2. CASE ByConn(l) # {}
    BY <1>2, <1>4, <2>2
  <2> QED BY <2>1, <2>2
<1> QED BY <1>2, <1>3, <1>4, <1>5

\* A sound table, in the terms of the run.
LEMMA TableIsSound == Typed /\ TableInv => RegistrySound
<1> SUFFICES ASSUME Typed, TableInv PROVE RegistrySound
  OBVIOUS
<1>1. ASSUME NEW l \in Links PROVE holds[l] = Cardinality({e \in entries : e.link = l})
  <2> DEFINE S == {e \in entries : e.link = l}
  <2>1. CASE \E e \in entries : e.link = l
    <3>1. PICK e \in entries : e.link = l
      BY <2>1
    <3>2. \A f \in S : f = e
      BY <3>1 DEF TableInv, Links
    <3>3. S = {e}
      BY <3>1, <3>2
    <3>4. Cardinality(S) = 1
      BY <3>3, FS_Singleton
    <3> QED BY <2>1, <3>4 DEF TableInv
  <2>2. CASE ~\E e \in entries : e.link = l
    <3>1. Cardinality(S) = 0
      BY <2>2, FS_EmptySet
    <3> QED BY <2>2, <3>1 DEF TableInv
  <2> QED BY <2>1, <2>2
<1>2. HoldsBalanced
  BY <1>1 DEF HoldsBalanced, TableInv
<1>3. \A e \in entries : e.conn \in Links /\ e.conn # 0
  BY ClusterAssumption DEF Typed, EntriesTyped, EntryRecords, Links
<1>4. TablesAgree
  BY <1>3 DEF TablesAgree, TableInv, ById
<1> QED BY <1>2, <1>4, TypedIsTypeOK DEF RegistrySound

-----------------------------------------------------------------------------
(* The table of the registry *)

\* Entries that change, but not who they are.
Relabels(f, E) ==
    /\ f \in [entries -> EntryRecords] /\ E = {f[e] : e \in entries}
    /\ \A e \in entries : f[e].id = e.id /\ f[e].conn = e.conn
KeepsLinks(f) == \A e \in entries : f[e].link = e.link

LEMMA NothingRelabelled == Typed => \E f : Relabels(f, entries) /\ KeepsLinks(f)
<1> SUFFICES ASSUME Typed PROVE \E f : Relabels(f, entries) /\ KeepsLinks(f)
  OBVIOUS
<1> DEFINE f == [e \in entries |-> e]
<1>1. Relabels(f, entries) /\ KeepsLinks(f)
  BY DEF Relabels, KeepsLinks, Typed, EntriesTyped
<1> QED BY <1>1

LEMMA HeardRelabels ==
    ASSUME Typed, NEW l
    PROVE  \E f : Relabels(f, Heard(l)) /\ KeepsLinks(f)
<1> DEFINE f == [e \in entries |-> IF e.conn = l THEN [e EXCEPT !.orphan = 0] ELSE e]
<1>1. f \in [entries -> EntryRecords]
  BY DEF Typed, EntriesTyped, EntryRecords
<1>2. \A e \in entries : f[e].id = e.id /\ f[e].conn = e.conn /\ f[e].link = e.link
  BY DEF Typed, EntriesTyped, EntryRecords
<1>3. Heard(l) = {f[e] : e \in entries}
  BY DEF Heard
<1> QED BY <1>1, <1>2, <1>3 DEF Relabels, KeepsLinks

LEMMA MarkedRelabels ==
    ASSUME Typed, NEW id, NEW d \in BOOLEAN
    PROVE  \E f : Relabels(f, MarkedDraining(id, d)) /\ KeepsLinks(f)
<1> DEFINE f == [e \in entries |-> IF e.id = id THEN [e EXCEPT !.draining = d] ELSE e]
<1>1. f \in [entries -> EntryRecords]
  BY DEF Typed, EntriesTyped, EntryRecords
<1>2. \A e \in entries : f[e].id = e.id /\ f[e].conn = e.conn /\ f[e].link = e.link
  BY DEF Typed, EntriesTyped, EntryRecords
<1>3. MarkedDraining(id, d) = {f[e] : e \in entries}
  BY DEF MarkedDraining
<1> QED BY <1>1, <1>2, <1>3 DEF Relabels, KeepsLinks

LEMMA LateRelabels ==
    ASSUME Typed, NEW late, NEW n \in Nat, NEW E,
           E = {IF e \in late THEN [e EXCEPT !.orphan = n] ELSE e : e \in entries}
    PROVE  \E f : Relabels(f, E) /\ KeepsLinks(f)
<1> DEFINE f == [e \in entries |-> IF e \in late THEN [e EXCEPT !.orphan = n] ELSE e]
<1>1. f \in [entries -> EntryRecords]
  BY DEF Typed, EntriesTyped, EntryRecords
<1>2. \A e \in entries : f[e].id = e.id /\ f[e].conn = e.conn /\ f[e].link = e.link
  BY DEF Typed, EntriesTyped, EntryRecords
<1>3. E = {f[e] : e \in entries}
  OBVIOUS
<1> QED BY <1>1, <1>2, <1>3 DEF Relabels, KeepsLinks

\* What the steps do to the table: most change no entry's place in it.
QuietTable ==
    /\ nextId' = nextId /\ holds' = holds /\ gone' = gone
    /\ \E f : Relabels(f, entries') /\ KeepsLinks(f)
    /\ record' \in [Players -> {0} \cup {e.id : e \in entries}]

Registers(l, host) ==
    /\ up[l] # <<>> /\ Head(up[l]).type = "Register" /\ Head(up[l]).host = host
    /\ OnRegister(l, host) /\ FromVillage
Unregisters(l) ==
    up[l] # <<>> /\ Head(up[l]).type = "Unregister" /\ OnUnregister(l) /\ FromVillage
SweepsOrphan(e) ==
    SweepOrphan(e) /\ UNCHANGED <<booking, nextId, nextIssue, gone, lost, up, down, conn,
                                  villageVars, bounds>>

\* A step of a village other than a connection that is made.
VillageStep(v) ==
    \/ Disconnected(v) \/ Take(v) \/ KickClose(v) \/ Tick(v) \/ Quit(v) \/ Die(v) \/ Stop(v)
    \/ \E p \in Players : Enter(v, p) \/ Close(v, p) \/ Leave(v, p)

LEMMA VillageKeeps == ASSUME NEW v, VillageStep(v)
                      PROVE  UNCHANGED <<registryVars, routerVars, gone>>
<1>1. CASE Disconnected(v) \/ Take(v) \/ KickClose(v) \/ Tick(v) \/ Quit(v)
  BY <1>1 DEF Disconnected, Take, KickClose, Tick, Quit, VillageOnly
<1>2. CASE Die(v) \/ Stop(v)
  BY <1>2 DEF Die, Stop, Ended, VillageOnly
<1>3. CASE \E p \in Players : Enter(v, p) \/ Close(v, p) \/ Leave(v, p)
  BY <1>3 DEF Enter, Close, Leave, VillageOnly
<1> QED BY <1>1, <1>2, <1>3 DEF VillageStep

LEMMA RecordOnTable ==
    Typed /\ TableInv => record \in [Players -> {0} \cup {e.id : e \in entries}]
BY DEF Typed, ServerTyped, TableInv

LEMMA IdOnTable ==
    ASSUME Typed, TableInv, NEW l \in Links
    PROVE  IdOf(l) \in {0} \cup {e.id : e \in entries}
<1>1. CASE ByConn(l) = {}
  BY <1>1, TheEntry
<1>2. CASE ByConn(l) # {}
  <2>1. PICK e \in ByConn(l) : TRUE
    BY <1>2
  <2>2. IdOf(l) = e.id
    BY <2>1, TheEntry
  <2> QED BY <2>1, <2>2 DEF ByConn
<1> QED BY <1>1, <1>2

LEMMA ClearedIs ==
    ASSUME NEW S, record \in [Players -> S], 0 \in S, NEW id, NEW first \in BOOLEAN
    PROVE  /\ Cleared(id, first) \in [Players -> S]
           /\ \A p \in Players : Cleared(id, first)[p] =
                IF first /\ record[p] = id THEN 0 ELSE record[p]
<1>1. CASE first
  BY <1>1 DEF Cleared, Forget
<1>2. CASE ~first
  BY <1>2 DEF Cleared
<1> QED BY <1>1, <1>2

LEMMA ServerMoves ==
    ASSUME Typed, TableInv, NEW l \in Links, Recv(l)
    PROVE  QuietTable \/ Unregisters(l) \/ \E host \in Villages : Registers(l, host)
<1> DEFINE m == Head(up[l])
<1>1. up[l] # <<>> /\ m \in UpMessages /\ FromVillage
  BY HeadTailProperties DEF Recv, Typed, LinksTyped
<1>2. \E f : Relabels(f, entries) /\ KeepsLinks(f)
  BY NothingRelabelled
<1>3. record \in [Players -> {0} \cup {e.id : e \in entries}]
  BY RecordOnTable
<1>4. IdOf(l) \in {0} \cup {e.id : e \in entries}
  BY IdOnTable
<1>5. CASE m.type = "Register" /\ OnRegister(l, m.host)
  BY <1>1, <1>5, UpKinds DEF Registers
<1>6. CASE m.type = "Unregister" /\ OnUnregister(l)
  BY <1>1, <1>6 DEF Unregisters
<1>7. CASE OnHeartbeat(l)
  BY <1>1, <1>3, <1>7, HeardRelabels DEF OnHeartbeat, QuietTable, FromVillage, routerVars
<1>8. CASE m.type \in {"PlayerEnter", "PlayerLeave"}
           /\ OnPlayer(l, m.player, m.type = "PlayerEnter")
  <2>1. record' \in [Players -> {0} \cup {e.id : e \in entries}]
    BY <1>3, <1>4, <1>8 DEF OnPlayer, PlayerRecord
  <2> QED BY <1>1, <1>2, <1>8, <2>1 DEF OnPlayer, QuietTable, FromVillage, routerVars
<1>9. CASE m.type = "FullSync" /\ OnFullSync(l, m.first, m.ids)
  <2>1. record' \in [Players -> {0} \cup {e.id : e \in entries}]
    <3> DEFINE base == Cleared(IdOf(l), m.first)
    <3>1. record' = record \/ record' = Synced(base, IdOf(l), m.ids)
      BY <1>9 DEF OnFullSync
    <3>2. base \in [Players -> {0} \cup {e.id : e \in entries}]
      BY <1>1, <1>3, <1>9, UpKinds, ClearedIs
    <3> HIDE DEF base
    <3> QED BY <1>3, <1>4, <3>1, <3>2 DEF Synced
  <2> QED BY <1>1, <1>2, <1>9, <2>1 DEF OnFullSync, QuietTable, FromVillage
<1>10. CASE OnReserveAck(l, m.seq, m.ok)
  <2>1. \E f : Relabels(f, entries') /\ KeepsLinks(f)
    <3>1. CASE entries' = entries
      BY <1>2, <3>1
    <3>2. CASE \E r : entries' = MarkedDraining(r.server, TRUE)
      BY <3>2, MarkedRelabels
    <3> QED BY <1>10, <3>1, <3>2 DEF OnReserveAck
  <2> QED BY <1>1, <1>3, <1>10, <2>1 DEF OnReserveAck, QuietTable, FromVillage
<1>11. CASE OnKickAck(l, m.seq, m.kicked)
  <2>1. record' \in [Players -> {0} \cup {e.id : e \in entries}]
    BY <1>3, <1>11 DEF OnKickAck
  <2> QED BY <1>1, <1>2, <1>11, <2>1 DEF OnKickAck, QuietTable, FromVillage
<1> QED BY <1>5, <1>6, <1>7, <1>8, <1>9, <1>10, <1>11 DEF Recv

LEMMA TableMoves ==
    ASSUME Typed, TableInv, [Next]_vars
    PROVE  \/ QuietTable
           \/ \E v \in Villages : Connect(v)
           \/ \E l \in Links : Unregisters(l) \/ Gone(l) \/ \E host \in Villages : Registers(l, host)
           \/ \E e \in entries : SweepsOrphan(e)
<1>1. \E f : Relabels(f, entries) /\ KeepsLinks(f)
  BY NothingRelabelled
<1>2. record \in [Players -> {0} \cup {e.id : e \in entries}]
  BY RecordOnTable
<1>3. ASSUME NEW p \in Players, Login(p) PROVE QuietTable
  <2>0. NextStamp \in Nat
    BY StampIs
  <2>1. \E f : Relabels(f, entries') /\ KeepsLinks(f)
    <3>1. CASE entries' = entries
      BY <1>1, <3>1
    <3>2. CASE \E late : entries' = {IF e \in late THEN [e EXCEPT !.orphan = NextStamp] ELSE e
                                     : e \in entries}
      BY <3>2, LateRelabels, <2>0
    <3> QED BY <1>3, <3>1, <3>2 DEF Login, LoginBusy, LoginAssign
  <2> QED BY <1>2, <1>3, <2>1 DEF Login, QuietTable
<1>4. ASSUME NEW e \in entries, NEW d \in BOOLEAN, SetMode(e, d) PROVE QuietTable
  BY <1>2, <1>4, MarkedRelabels DEF SetMode, QuietTable
<1>5. ASSUME NEW l \in Links, Break(l) PROVE QuietTable
  BY <1>1, <1>2, <1>5 DEF Break, QuietTable, registryVars, routerVars
<1>6. ASSUME Sweep PROVE QuietTable \/ \E e \in entries : SweepsOrphan(e)
  <2>1. CASE \E e \in entries : SweepOrphan(e)
    BY <1>6, <2>1 DEF Sweep, SweepsOrphan
  <2>2. CASE \E l \in Links : SweepAsked(l) \/ SweepParting(l)
    BY <1>1, <1>2, <1>6, <2>2 DEF Sweep, SweepAsked, SweepParting, QuietTable
  <2> QED BY <1>6, <2>1, <2>2 DEF Sweep
<1>7. ASSUME NEW v \in Villages, VillageStep(v) PROVE QuietTable
  BY <1>1, <1>2, <1>7, VillageKeeps DEF QuietTable, registryVars, routerVars
<1>8. CASE UNCHANGED vars
  BY <1>1, <1>2, <1>8 DEF vars, QuietTable, registryVars, routerVars
<1> QED BY <1>3, <1>4, <1>5, <1>6, <1>7, <1>8, ServerMoves DEF Next, S2s, Router, VillageStep

LEMMA RelabelledTyped ==
    ASSUME Typed, NEW f, Relabels(f, entries'), nextId' = nextId
    PROVE  EntriesTyped'
<1>1. IsFiniteSet(entries') /\ Cardinality(entries') <= Cardinality(entries)
      /\ Cardinality(entries') \in Nat /\ Cardinality(entries) \in Nat
  BY EntriesChanged DEF Relabels, Typed, EntriesTyped
<1>2. Cardinality(entries') <= Capacity
  BY <1>1, ClusterAssumption DEF Typed, EntriesTyped
<1>3. entries' \subseteq EntryRecords /\ EntryRecords' = EntryRecords
  BY DEF Relabels, EntryRecords
<1> QED BY <1>1, <1>2, <1>3 DEF Typed, EntriesTyped

LEMMA FewerTyped ==
    ASSUME Typed, entries' \subseteq entries, nextId' = nextId
    PROVE  EntriesTyped'
<1>1. IsFiniteSet(entries') /\ Cardinality(entries') <= Cardinality(entries)
      /\ Cardinality(entries') \in Nat /\ Cardinality(entries) \in Nat
  BY FS_Subset, FS_CardinalityType DEF Typed, EntriesTyped
<1>2. Cardinality(entries') <= Capacity
  BY <1>1, ClusterAssumption DEF Typed, EntriesTyped
<1>3. entries' \subseteq EntryRecords /\ EntryRecords' = EntryRecords
  BY DEF Typed, EntriesTyped, EntryRecords
<1> QED BY <1>1, <1>2, <1>3 DEF Typed, EntriesTyped

\* The orphan that is revived.
Newest(o) == CHOOSE e \in o : \A f \in o : f.orphan <= e.orphan

\* A village that registers is given its orphan, a new entry, or none.
LEMMA RegistersHow ==
    ASSUME Typed, NEW l \in Links, NEW host \in Villages, Registers(l, host)
    PROVE  \/ /\ entries' = entries /\ nextId' = nextId /\ holds' = holds
           \/ \E e \in entries :
                /\ entries' = Updated(e, [e EXCEPT !.conn = l, !.link = l, !.orphan = 0])
                /\ holds' = Released(Attached(l), e.link) /\ nextId' = nextId
           \/ /\ entries' = entries \cup {NewEntry(l, host)} /\ Room
              /\ nextId' = nextId + 1 /\ holds' = Attached(l)
<1> DEFINE o == {e \in entries : e.host = host /\ e.orphan > 0}
<1>1. CASE o # {}
  <2>1. Newest(o) \in o
    <3>1. PICK m \in {e.orphan : e \in o} : \A n \in {e.orphan : e \in o} : n <= m
      <4> DEFINE S == {e.orphan : e \in o}  f == [e \in o |-> e.orphan]
      <4>1. S \in SUBSET Nat /\ S # {}
        BY <1>1 DEF Typed, EntriesTyped, EntryRecords
      <4>2. IsFiniteSet(o)
        BY FS_Subset DEF Typed, EntriesTyped
      <4>3. f \in Surjection(o, S)
        BY DEF Surjection
      <4>4. IsFiniteSet(S)
        BY <4>2, <4>3, FS_Surjection
      <4> HIDE DEF S, o
      <4>5. Max(S) \in S /\ \A n \in S : Max(S) >= n
        BY <4>1, <4>4, MaxExists
      <4>6. \A n \in S : n <= Max(S)
        BY <4>1, <4>5
      <4> QED BY <4>5, <4>6 DEF S
    <3>2. \E e \in o : \A f \in o : f.orphan <= e.orphan
      BY <3>1
    <3> HIDE DEF o
    <3> QED BY <3>2 DEF Newest
  <2>2. /\ entries' = Updated(Newest(o), [Newest(o) EXCEPT !.conn = l, !.link = l, !.orphan = 0])
        /\ holds' = Released(Attached(l), Newest(o).link) /\ nextId' = nextId
    BY <1>1 DEF Registers, OnRegister, Newest
  <2> HIDE DEF o
  <2> QED BY <2>1, <2>2 DEF o
<1>2. CASE o = {} /\ Room /\ entries' = entries \cup {NewEntry(l, host)}
  BY <1>2 DEF Registers, OnRegister
<1>3. CASE o = {} /\ entries' = entries
  BY <1>3 DEF Registers, OnRegister, Room
<1> QED BY <1>1, <1>2, <1>3, ZenonT(60) DEF Registers, OnRegister

\* A link that is gone is let go of by its entry.
LEMMA GoneDetaches ==
    ASSUME Typed, NEW l \in Links, Gone(l)
    PROVE  \E f : /\ Relabels(f, entries')
                  /\ \A e \in entries : f[e].link = IF e.conn = l THEN 0 ELSE e.link
                  /\ \A e \in entries : f[e].orphan = 0 => e.orphan = 0 /\ e.conn # l
<1> DEFINE f == [e \in entries |-> IF e.conn = l THEN Detached(e) ELSE e]
<1>1. NextStamp \in Nat \ {0}
  BY StampIs
<1>2. ASSUME NEW e \in entries
      PROVE  /\ Detached(e) \in EntryRecords /\ Detached(e).id = e.id
             /\ Detached(e).conn = e.conn /\ Detached(e).link = 0 /\ Detached(e).orphan # 0
  BY <1>1 DEF Detached, Typed, EntriesTyped, EntryRecords
<1>3. f \in [entries -> EntryRecords]
  BY <1>2 DEF Typed, EntriesTyped
<1>4. entries' = {f[e] : e \in entries}
  BY DEF Gone
<1>5. \A e \in entries : f[e].id = e.id /\ f[e].conn = e.conn
  BY <1>2
<1>6. \A e \in entries : f[e].link = IF e.conn = l THEN 0 ELSE e.link
  BY <1>2
<1>7. \A e \in entries : f[e].orphan = 0 => e.orphan = 0 /\ e.conn # l
  BY <1>2
<1> QED BY <1>3, <1>4, <1>5, <1>6, <1>7 DEF Relabels

LEMMA EntriesStep ==
    ASSUME Typed, TableInv, [Next]_vars
    PROVE  EntriesTyped'
<1>1. CASE QuietTable
  BY <1>1, RelabelledTyped DEF QuietTable
<1>2. CASE \E v \in Villages : Connect(v)
  BY <1>2, FewerTyped DEF Connect, registryVars
<1>3. CASE \E l \in Links : Unregisters(l)
  BY <1>3, FewerTyped DEF Unregisters, OnUnregister, Unregistered
<1>4. CASE \E l \in Links : Gone(l)
  <2>1. nextId' = nextId
    BY <1>4 DEF Gone
  <2> QED BY <1>4, <2>1, GoneDetaches, RelabelledTyped
<1>5. CASE \E e \in entries : SweepsOrphan(e)
  BY <1>5, FewerTyped DEF SweepsOrphan, SweepOrphan
<1>6. ASSUME NEW l \in Links, NEW host \in Villages, Registers(l, host) PROVE EntriesTyped'
  <2>1. CASE entries' = entries /\ nextId' = nextId
    BY <2>1, FewerTyped
  <2>2. ASSUME NEW e \in entries, nextId' = nextId,
               entries' = Updated(e, [e EXCEPT !.conn = l, !.link = l, !.orphan = 0])
        PROVE  EntriesTyped'
    <3> DEFINE g == [e EXCEPT !.conn = l, !.link = l, !.orphan = 0]
    <3>1. g \in EntryRecords /\ EntryRecords' = EntryRecords
      BY <2>2 DEF Typed, EntriesTyped, EntryRecords
    <3> HIDE DEF g
    <3>2. entries' = (entries \ {e}) \cup {g}
      BY <2>2 DEF Updated, g
    <3>3. IsFiniteSet(entries') /\ Cardinality(entries') <= Cardinality(entries)
          /\ Cardinality(entries) \in Nat /\ Cardinality(entries') \in Nat
      <4>1. /\ IsFiniteSet(entries \ {e}) /\ Cardinality(entries \ {e}) = Cardinality(entries) - 1
            /\ Cardinality(entries) \in Nat
        BY FS_RemoveElement, FS_CardinalityType DEF Typed, EntriesTyped
      <4>2. IsFiniteSet(entries')
        BY <3>2, <4>1, FS_AddElement
      <4>3. Cardinality(entries') \in {Cardinality(entries \ {e}), Cardinality(entries \ {e}) + 1}
        BY <3>2, <4>1, FS_AddElement
      <4> QED BY <4>1, <4>2, <4>3, FS_CardinalityType
    <3>4. Cardinality(entries') <= Capacity
      BY <3>3, ClusterAssumption DEF Typed, EntriesTyped
    <3>5. entries' \subseteq EntryRecords'
      BY <3>1, <3>2 DEF Typed, EntriesTyped
    <3> QED BY <2>2, <3>3, <3>4, <3>5 DEF Typed, EntriesTyped
  <2>3. CASE /\ entries' = entries \cup {NewEntry(l, host)} /\ Room
             /\ nextId' = nextId + 1
    <3>1. NewEntry(l, host) \in EntryRecords' /\ EntryRecords \subseteq EntryRecords'
      BY <2>3 DEF Typed, EntriesTyped, EntryRecords, NewEntry
    <3>2. IsFiniteSet(entries')
          /\ Cardinality(entries') \in {Cardinality(entries), Cardinality(entries) + 1}
      BY <2>3, FS_AddElement DEF Typed, EntriesTyped
    <3>3. Cardinality(entries') <= Capacity
      <4>1. Cardinality(entries) \in Nat /\ Cardinality(entries) < Capacity
        BY <2>3, FS_CardinalityType DEF Typed, EntriesTyped, Room
      <4> QED BY <3>2, <4>1, ClusterAssumption
    <3> QED BY <2>3, <3>1, <3>2, <3>3 DEF Typed, EntriesTyped
  <2> QED BY <1>6, <2>1, <2>2, <2>3, RegistersHow
<1> QED BY <1>1, <1>2, <1>3, <1>4, <1>5, <1>6, TableMoves

-----------------------------------------------------------------------------
(* The table stays sound *)

\* Entries keep their numbers and connections apart.
LEMMA RelabelledApart ==
    ASSUME TableInv, NEW f, Relabels(f, entries')
    PROVE  /\ \A e, g \in entries' : e # g => e.id # g.id /\ e.conn # g.conn
           /\ {e.id : e \in entries'} = {e.id : e \in entries}
BY DEF TableInv, Relabels

\* An entry is removed, with its records and its hold.
LEMMA RemovedStep ==
    ASSUME Typed, TableInv, NEW e \in entries, entries' = entries \ {e},
           record' = Forget(e.id), holds' = Released(holds, e.link), gone' = gone
    PROVE  TableInv'
<1>1. e.link \in Links \cup {0} /\ holds \in [Links -> Int] /\ e.id # 0 /\ e.conn # 0 /\ 0 \notin Links
  BY ClusterAssumption, SMTT(60) DEF Typed, EntriesTyped, EntryRecords, ServerTyped, Links
<1>2. ASSUME NEW k \in Links PROVE holds'[k] = IF \E a \in entries' : a.link = k THEN 1 ELSE 0
  <2>1. \A a \in entries : a.link = e.link /\ a.link # 0 => a = e
    BY DEF TableInv
  <2>2. CASE k = e.link
    <3>1. holds[k] = 1 /\ holds' = [holds EXCEPT ![k] = @ - 1]
      BY <1>1, <2>2 DEF TableInv, Released
    <3> QED BY <1>1, <2>1, <2>2, <3>1
  <2>3. CASE k # e.link
    <3>1. holds'[k] = holds[k]
      BY <1>1, <2>3 DEF Released
    <3>2. (\E a \in entries' : a.link = k) <=> \E a \in entries : a.link = k
      BY <2>3
    <3> QED BY <3>1, <3>2 DEF TableInv
  <2> QED BY <2>2, <2>3
<1>3. ASSUME NEW p \in Players, record'[p] # 0 PROVE record'[p] \in {a.id : a \in entries'}
  <2>1. record'[p] = record[p] /\ record[p] # e.id
    BY <1>3 DEF Forget
  <2>2. PICK a \in entries : a.id = record[p]
    BY <1>3, <2>1 DEF TableInv
  <2> QED BY <2>1, <2>2
<1> QED BY <1>2, <1>3 DEF TableInv

LEMMA TableStep ==
    ASSUME Typed, TableInv, FirstInv, [Next]_vars
    PROVE  TableInv'
<1>0. /\ \A e \in entries : e.conn \in Links /\ e.conn # 0 /\ e.id \in 1..nextId - 1
      /\ nextId \in Nat \ {0} /\ record \in [Players -> 0..nextId - 1]
      /\ holds \in [Links -> Int] /\ 0 \notin Links
  BY ClusterAssumption DEF Typed, EntriesTyped, ServerTyped, EntryRecords, Links
<1>1. CASE QuietTable
  <2>1. PICK f : Relabels(f, entries') /\ KeepsLinks(f)
    BY <1>1 DEF QuietTable
  <2>2. /\ \A e, g \in entries' : e # g => e.id # g.id /\ e.conn # g.conn
        /\ {e.id : e \in entries'} = {e.id : e \in entries}
    BY <2>1, RelabelledApart
  <2>3. \A e \in entries' : e.link \in {0, e.conn} /\ (e.conn \notin gone => e.link = e.conn)
    BY <2>1 DEF Relabels, KeepsLinks, TableInv
  <2>4. ASSUME NEW l \in Links
        PROVE  (\E e \in entries' : e.link = l) <=> (\E e \in entries : e.link = l)
    BY <2>1 DEF Relabels, KeepsLinks
  <2> QED BY <1>1, <2>2, <2>3, <2>4 DEF QuietTable, TableInv
<1>2. ASSUME NEW v \in Villages, Connect(v) PROVE TableInv'
  <2>1. PICK l \in Links : Unused(l) /\ gone' = gone \ {l}
    BY <1>2 DEF Connect
  <2>2. UNCHANGED <<entries, holds, record>>
    BY <1>2 DEF Connect, registryVars, routerVars
  <2> QED BY <2>1, <2>2 DEF TableInv, Unused
<1>3. ASSUME NEW l \in Links, Unregisters(l) PROVE TableInv'
  <2>1. /\ entries' = entries \ ByConn(l) /\ gone' = gone
        /\ record' = IF ByConn(l) = {} THEN record ELSE Forget(IdOf(l))
        /\ holds' = IF ByConn(l) = {} THEN holds ELSE Released(holds, LinkOf(IdOf(l)))
    BY <1>3 DEF Unregisters, OnUnregister, Unregistered, FromVillage
  <2>2. CASE ByConn(l) = {}
    BY <2>1, <2>2 DEF TableInv
  <2>3. ASSUME NEW e \in ByConn(l) PROVE TableInv'
    <3>1. e \in entries /\ entries' = entries \ {e} /\ record' = Forget(e.id)
          /\ holds' = Released(holds, e.link)
      BY <2>1, <2>3, TheEntry DEF ByConn
    <3> QED BY <1>0, <2>1, <3>1, RemovedStep
  <2> QED BY <2>2, <2>3
<1>4. ASSUME NEW l \in Links, Gone(l) PROVE TableInv'
  <2>1. PICK f : /\ Relabels(f, entries')
                 /\ \A e \in entries : f[e].link = IF e.conn = l THEN 0 ELSE e.link
    BY <1>4, GoneDetaches
  <2>2. /\ \A e, g \in entries' : e # g => e.id # g.id /\ e.conn # g.conn
        /\ {e.id : e \in entries'} = {e.id : e \in entries}
    BY <2>1, RelabelledApart
  <2>3. gone' = gone \cup {l} /\ record' = record /\ holds' = Released(holds, LinkOf(IdOf(l)))
    BY <1>4 DEF Gone
  <2>4. \A e \in entries' : e.link \in {0, e.conn} /\ (e.conn \notin gone' => e.link = e.conn)
    BY <2>1, <2>3 DEF Relabels, TableInv
  <2>5. ASSUME NEW k \in Links
        PROVE  (\E e \in entries' : e.link = k) <=> k # l /\ (\E e \in entries : e.link = k)
    BY <1>0, <2>1 DEF Relabels, TableInv
  <2>6. ASSUME NEW k \in Links
        PROVE  holds'[k] = IF k # l /\ \E e \in entries : e.link = k THEN 1 ELSE 0
    <3>1. CASE ByConn(l) = {}
      <4>1. LinkOf(IdOf(l)) = 0
        BY <3>1, TheEntry
      <4>2. holds' = holds /\ ~\E e \in entries : e.link = l
        BY <1>0, <2>3, <3>1, <4>1 DEF Released, ByConn, TableInv
      <4> QED BY <4>2 DEF TableInv
    <3>2. ASSUME NEW e \in ByConn(l)
          PROVE  holds'[k] = IF k # l /\ \E g \in entries : g.link = k THEN 1 ELSE 0
      <4>1. LinkOf(IdOf(l)) = e.link /\ e \in entries /\ ByConn(l) = {e} /\ e.conn = l
        BY <3>2, TheEntry DEF ByConn
      <4>2. e.link \in {0, l} /\ \A g \in entries : g.link = l => g = e
        BY <1>0, <4>1 DEF TableInv, ByConn
      <4>3. CASE e.link = 0
        <5>1. holds' = holds /\ ~\E g \in entries : g.link = l
          BY <1>0, <2>3, <4>1, <4>2, <4>3 DEF Released
        <5> QED BY <5>1 DEF TableInv
      <4>4. CASE e.link = l
        <5>1. holds' = [holds EXCEPT ![l] = @ - 1] /\ holds[l] = 1
          BY <1>0, <2>3, <4>1, <4>4 DEF Released, TableInv
        <5> QED BY <1>0, <5>1 DEF TableInv
      <4> QED BY <4>2, <4>3, <4>4
    <3> QED BY <3>1, <3>2
  <2> QED BY <2>2, <2>3, <2>4, <2>5, <2>6 DEF TableInv
<1>5. ASSUME NEW e \in entries, SweepsOrphan(e) PROVE TableInv'
  <2>1. /\ entries' = entries \ {e} /\ record' = Forget(e.id)
        /\ holds' = Released(holds, e.link) /\ gone' = gone
    BY <1>5 DEF SweepsOrphan, SweepOrphan
  <2> QED BY <1>0, <2>1, RemovedStep
<1>6. ASSUME NEW l \in Links, NEW host \in Villages, Registers(l, host) PROVE TableInv'
  <2>1. ByConn(l) = {} /\ gone' = gone /\ record' = record
    <3>1. Has(up[l], {"Register"})
      BY <1>6, QueueTail DEF Registers, Has, Typed, LinksTyped
    <3> QED BY <1>6, <3>1 DEF FirstInv, First, Registers, OnRegister, FromVillage
  <2>2. \A e \in entries : e.conn # l /\ e.link # l
    BY <1>0, <2>1 DEF ByConn, TableInv
  <2>3. holds[l] = 0
    BY <2>2 DEF TableInv
  <2>4. CASE entries' = entries /\ holds' = holds
    BY <2>1, <2>4 DEF TableInv
  <2>5. ASSUME NEW e \in entries, holds' = Released(Attached(l), e.link),
               entries' = Updated(e, [e EXCEPT !.conn = l, !.link = l, !.orphan = 0])
        PROVE  TableInv'
    <3> DEFINE g == [e EXCEPT !.conn = l, !.link = l, !.orphan = 0]
    <3>1. g.id = e.id /\ g.conn = l /\ g.link = l
      BY DEF Typed, EntriesTyped, EntryRecords
    <3> HIDE DEF g
    <3>2. entries' = (entries \ {e}) \cup {g}
      BY <2>5 DEF Updated, g
    <3>3. \A a, b \in entries' : a # b => a.id # b.id /\ a.conn # b.conn
      BY <2>2, <3>1, <3>2 DEF TableInv
    <3>4. {a.id : a \in entries'} = {a.id : a \in entries}
      BY <3>1, <3>2
    <3>5. \A a \in entries' : a.link \in {0, a.conn} /\ (a.conn \notin gone => a.link = a.conn)
      BY <3>1, <3>2 DEF TableInv
    <3>6. ASSUME NEW k \in Links PROVE holds'[k] = IF \E a \in entries' : a.link = k THEN 1 ELSE 0
      <4>1. e.link \in Links \cup {0} /\ e.link # l
        BY <2>2 DEF Typed, EntriesTyped, EntryRecords
      <4>2. (\E a \in entries' : a.link = k) <=> k = l \/ (\E a \in entries \ {e} : a.link = k)
        BY <3>1, <3>2
      <4>3. k = e.link => ~\E a \in entries \ {e} : a.link = k
        BY <1>0, <4>1 DEF TableInv
      <4>4. Attached(l) \in [Links -> Int] /\ Attached(l)[l] = 1 /\ \A j \in Links : j # l => Attached(l)[j] = holds[j]
        BY <1>0, <2>3 DEF Attached
      <4>5. holds'[k] = IF k = e.link THEN Attached(l)[k] - 1 ELSE Attached(l)[k]
        BY <1>0, <2>5, <4>1, <4>4 DEF Released
      <4>6. k = e.link => holds[k] = 1
        BY DEF TableInv
      <4>7. holds[k] = IF \E a \in entries : a.link = k THEN 1 ELSE 0
        BY DEF TableInv
      <4>8. CASE k = l
        BY <4>1, <4>2, <4>4, <4>5, <4>8
      <4>9. CASE k = e.link
        BY <4>1, <4>2, <4>3, <4>4, <4>5, <4>6, <4>9
      <4>10. CASE k # l /\ k # e.link
        BY <4>2, <4>4, <4>5, <4>7, <4>10
      <4> QED BY <4>8, <4>9, <4>10
    <3> QED BY <2>1, <3>3, <3>4, <3>5, <3>6 DEF TableInv
  <2>6. CASE entries' = entries \cup {NewEntry(l, host)} /\ holds' = Attached(l)
    <3> DEFINE g == NewEntry(l, host)
    <3>1. g.id = nextId /\ g.conn = l /\ g.link = l
      BY DEF NewEntry
    <3> HIDE DEF g
    <3>2. entries' = entries \cup {g}
      BY <2>6 DEF g
    <3>3. \A a, b \in entries' : a # b => a.id # b.id /\ a.conn # b.conn
      <4>1. \A a \in entries : a.id # nextId /\ a.conn # l
        BY <1>0, <2>2
      <4> QED BY <3>1, <3>2, <4>1 DEF TableInv
    <3>4. {a.id : a \in entries} \subseteq {a.id : a \in entries'}
      BY <3>2
    <3>5. \A a \in entries' : a.link \in {0, a.conn} /\ (a.conn \notin gone => a.link = a.conn)
      BY <3>1, <3>2 DEF TableInv
    <3>6. ASSUME NEW k \in Links PROVE holds'[k] = IF \E a \in entries' : a.link = k THEN 1 ELSE 0
      <4>1. holds' = [holds EXCEPT ![l] = @ + 1]
        BY <2>6 DEF Attached
      <4>2. (\E a \in entries' : a.link = k) <=> k = l \/ (\E a \in entries : a.link = k)
        BY <3>1, <3>2
      <4> QED BY <1>0, <2>3, <4>1, <4>2 DEF TableInv
    <3> QED BY <2>1, <3>3, <3>4, <3>5, <3>6 DEF TableInv
  <2> QED BY <1>6, <2>4, <2>5, <2>6, RegistersHow
<1> QED BY <1>1, <1>2, <1>3, <1>4, <1>5, <1>6, TableMoves

-----------------------------------------------------------------------------
(* Types *)

LEMMA RecordStep ==
    ASSUME Typed, TableInv, FirstInv, [Next]_vars
    PROVE  record' \in [Players -> 0..nextId' - 1]
<1> DEFINE Ids == {0} \cup {e.id : e \in entries}
<1>1. /\ Ids \subseteq 0..nextId - 1 /\ nextId \in Nat \ {0}
      /\ record \in [Players -> 0..nextId - 1]
  BY DEF Typed, EntriesTyped, ServerTyped, EntryRecords
<1>2. CASE QuietTable
  BY <1>1, <1>2 DEF QuietTable
<1>3. CASE \E v \in Villages : Connect(v)
  BY <1>1, <1>3 DEF Connect, registryVars
<1>4. ASSUME NEW l \in Links, Unregisters(l) \/ Gone(l)
      PROVE  record' \in [Players -> 0..nextId' - 1]
  <2>1. nextId' = nextId /\ (record' = record \/ record' = Forget(IdOf(l)))
    BY <1>4 DEF Unregisters, OnUnregister, Unregistered, Gone
  <2> QED BY <1>1, <2>1 DEF Forget
<1>5. ASSUME NEW e \in entries, SweepsOrphan(e) PROVE record' \in [Players -> 0..nextId' - 1]
  BY <1>1, <1>5 DEF SweepsOrphan, SweepOrphan, Forget
<1>6. ASSUME NEW l \in Links, NEW host \in Villages, Registers(l, host)
      PROVE  record' \in [Players -> 0..nextId' - 1]
  <2>1. record' = record
    BY <1>6 DEF Registers, OnRegister
  <2>2. nextId' \in {nextId, nextId + 1}
    BY <1>6, RegistersHow
  <2> QED BY <1>1, <2>1, <2>2
<1> QED BY <1>2, <1>3, <1>4, <1>5, <1>6, TableMoves

LEMMA HoldsStep ==
    ASSUME Typed, TableInv, [Next]_vars
    PROVE  holds' \in [Links -> Int]
<1>1. \A e \in entries : e.link \in Links \cup {0}
  BY DEF Typed, EntriesTyped, EntryRecords
<1>2. holds \in [Links -> Int]
  BY DEF Typed, ServerTyped
<1>3. \A h \in [Links -> Int], l \in Links \cup {0} : Released(h, l) \in [Links -> Int]
  BY DEF Released
<1>4. \A l \in Links : LinkOf(IdOf(l)) \in Links \cup {0}
  <2> SUFFICES ASSUME NEW l \in Links PROVE LinkOf(IdOf(l)) \in Links \cup {0}
    OBVIOUS
  <2>1. CASE ByConn(l) = {}
    BY <2>1, TheEntry
  <2>2. ASSUME NEW e \in ByConn(l) PROVE LinkOf(IdOf(l)) \in Links \cup {0}
    <3>1. LinkOf(IdOf(l)) = e.link /\ e \in entries
      BY <2>2, TheEntry DEF ByConn
    <3> QED BY <1>1, <3>1
  <2> QED BY <2>1, <2>2
<1>5. CASE QuietTable
  BY <1>2, <1>5 DEF QuietTable
<1>6. CASE \E v \in Villages : Connect(v)
  BY <1>2, <1>6 DEF Connect, routerVars
<1>7. ASSUME NEW l \in Links, Unregisters(l) \/ Gone(l) PROVE holds' \in [Links -> Int]
  <2>1. holds' = holds \/ holds' = Released(holds, LinkOf(IdOf(l)))
    BY <1>7 DEF Unregisters, OnUnregister, Gone
  <2> QED BY <1>2, <1>3, <1>4, <2>1
<1>8. ASSUME NEW e \in entries, SweepsOrphan(e) PROVE holds' \in [Links -> Int]
  BY <1>1, <1>2, <1>3, <1>8 DEF SweepsOrphan, SweepOrphan
<1>9. ASSUME NEW l \in Links, NEW host \in Villages, Registers(l, host)
      PROVE  holds' \in [Links -> Int]
  <2>1. Attached(l) \in [Links -> Int]
    BY <1>2 DEF Attached
  <2>2. \A e \in entries : Released(Attached(l), e.link) \in [Links -> Int]
    BY <1>1, <1>3, <2>1
  <2> QED BY <1>2, <1>9, <2>1, <2>2, RegistersHow
<1> QED BY <1>5, <1>6, <1>7, <1>8, <1>9, TableMoves

RowsTyped ==
    /\ nextIssue \in Nat
    /\ booking \in [Players -> [server : Nat, issue : Nat] \cup {None}]
    /\ \A p \in Players : booking[p] # None => booking[p].issue < nextIssue
    /\ asked \in [Links -> Rows] /\ parting \subseteq Links

\* The messages and the rows of the kicks that a full sync brings about.
LEMMA KicksAre ==
    ASSUME NEW row \in Rows, NEW S \in SUBSET Players, NEW id \in Nat
    PROVE  /\ KicksAsked(row, SetToSeq(S), id) \in Rows
           /\ KicksAsked(row, SetToSeq(S), id).reserves = row.reserves
           /\ KicksAsked(row, SetToSeq(S), id).next >= row.next
           /\ KickMessages(row, SetToSeq(S)) \in Seq(DownMessages)
           /\ \A m \in Msgs(KickMessages(row, SetToSeq(S))) : m.type = "Kick"
<1> DEFINE order == SetToSeq(S)
<1>1. order \in Seq(Players) /\ Len(order) \in Nat /\ DOMAIN order = 1..Len(order)
      /\ \A i \in 1..Len(order) : order[i] \in Players
  <2>1. IsFiniteSet(S)
    BY ClusterAssumption, FS_Subset
  <2>2. order \in Seq(S)
    BY <2>1, SetToSeqIs
  <2> HIDE DEF order
  <2> QED BY <2>2, LenProperties, ElementOfSeq
<1> HIDE DEF order
<1>2. \A i \in 1..Len(order) : KickSeq(row, i) \in Nat
  BY <1>1 DEF KickSeq, Rows
<1>3. /\ row.kicks \in SUBSET Kicks /\ row.next \in Nat /\ row.reserves \in SUBSET Reserves
  BY DEF Rows
<1> DEFINE K == {[seq |-> KickSeq(row, i), player |-> order[i], server |-> id] : i \in DOMAIN order}
<1>4. K \subseteq Kicks
  BY <1>1, <1>2 DEF Kicks
<1>8. KicksAsked(row, order, id) = [row EXCEPT !.kicks = @ \cup K, !.next = @ + Len(order)]
  BY DEF KicksAsked
<1> HIDE DEF K
<1>5. /\ KicksAsked(row, order, id) \in Rows
      /\ KicksAsked(row, order, id).reserves = row.reserves
      /\ KicksAsked(row, order, id).next >= row.next
  <2>1. row = [reserves |-> row.reserves, kicks |-> row.kicks, next |-> row.next]
    BY DEF Rows
  <2>2. KicksAsked(row, order, id) =
          [reserves |-> row.reserves, kicks |-> row.kicks \cup K, next |-> row.next + Len(order)]
    BY <1>8, <2>1
  <2>3. row.kicks \cup K \in SUBSET Kicks /\ row.next + Len(order) \in Nat
        /\ row.next + Len(order) >= row.next
    BY <1>1, <1>3, <1>4
  <2> QED BY <1>3, <2>2, <2>3 DEF Rows
<1>6. /\ KickMessages(row, order) \in Seq(DownMessages)
      /\ Len(KickMessages(row, order)) = Len(order)
  <2>1. \A i \in 1..Len(order) :
          [type |-> "Kick", player |-> order[i], seq |-> KickSeq(row, i)] \in DownMessages
    BY <1>1, <1>2, MessagesTyped
  <2> QED BY <1>1, <2>1 DEF KickMessages
<1>7. \A i \in 1..Len(order) : KickMessages(row, order)[i].type = "Kick"
  BY <1>1 DEF KickMessages
<1> QED BY <1>5, <1>6, <1>7 DEF order, Msgs

LEMMA AsksIs ==
    ASSUME NEW row \in Rows
    PROVE  /\ \A r \in Reserves :
                /\ AsksReserve(row, r) \in Rows
                /\ AsksReserve(row, r).reserves = row.reserves \cup {r}
                /\ AsksReserve(row, r).next = row.next + 1
           /\ \A k \in Kicks :
                /\ AsksKick(row, k) \in Rows
                /\ AsksKick(row, k).reserves = row.reserves
                /\ AsksKick(row, k).next = row.next + 1
<1>1. row = [reserves |-> row.reserves, kicks |-> row.kicks, next |-> row.next]
      /\ row.reserves \in SUBSET Reserves /\ row.kicks \in SUBSET Kicks /\ row.next \in Nat
  BY DEF Rows
<1>4. row = [reserves |-> row.reserves, kicks |-> row.kicks, next |-> row.next]
  BY <1>1
<1>2. ASSUME NEW r \in Reserves
      PROVE  AsksReserve(row, r) =
               [reserves |-> row.reserves \cup {r}, kicks |-> row.kicks, next |-> row.next + 1]
  <2>1. AsksReserve(row, r) = [row EXCEPT !.reserves = @ \cup {r}, !.next = @ + 1]
    BY DEF AsksReserve
  <2> QED BY <2>1, <1>4
<1>3. ASSUME NEW k \in Kicks
      PROVE  AsksKick(row, k) =
               [reserves |-> row.reserves, kicks |-> row.kicks \cup {k}, next |-> row.next + 1]
  <2>1. AsksKick(row, k) = [row EXCEPT !.kicks = @ \cup {k}, !.next = @ + 1]
    BY DEF AsksKick
  <2> QED BY <2>1, <1>4
<1>5. \A r \in Reserves : row.reserves \cup {r} \in SUBSET Reserves
  BY <1>1
<1>6. \A k \in Kicks : row.kicks \cup {k} \in SUBSET Kicks
  BY <1>1
<1> QED BY <1>1, <1>2, <1>3, <1>5, <1>6 DEF Rows

\* A request that goes out over link l.
KickSent(l, p, id) ==
    /\ asked' = [asked EXCEPT ![l] = AsksKick(@,
                     [seq |-> asked[l].next, player |-> p, server |-> id])]
    /\ down' = Sent(down, l, [type |-> "Kick", player |-> p, seq |-> asked[l].next])
ReserveSent(l, p, id) ==
    /\ asked' = [asked EXCEPT ![l] = AsksReserve(@,
           [seq |-> asked[l].next, player |-> p, server |-> id, issue |-> nextIssue])]
    /\ down' = Sent(down, l, [type |-> "Reserve", player |-> p, seq |-> asked[l].next,
                              issue |-> nextIssue])

LEMMA LoginHow ==
    ASSUME Typed, TableInv, NEW p \in Players, Login(p)
    PROVE  \/ UNCHANGED <<booking, nextIssue, asked, down>>
           \/ /\ UNCHANGED <<booking, nextIssue>>
              /\ \E e \in entries : e.link \in Links /\ KickSent(e.link, p, record[p])
           \/ /\ nextIssue' = nextIssue + 1
              /\ \E e \in entries :
                   /\ booking' = [booking EXCEPT ![p] = [server |-> e.id, issue |-> nextIssue]]
                   /\ \/ UNCHANGED <<asked, down>>
                      \/ e.link \in Links /\ ReserveSent(e.link, p, e.id)
<1>0. \A e \in entries : e.link \in Links \cup {0}
  BY DEF Typed, EntriesTyped, EntryRecords
<1>1. ASSUME record[p] # 0, LinkOf(record[p]) # 0, LoginBusy(p, LinkOf(record[p]))
      PROVE  \/ UNCHANGED <<booking, nextIssue, asked, down>>
             \/ /\ UNCHANGED <<booking, nextIssue>>
                /\ \E e \in entries : e.link \in Links /\ KickSent(e.link, p, record[p])
  <2>1. PICK e \in entries : e.id = record[p]
    BY <1>1 DEF TableInv
  <2>2. ById(record[p]) = {e}
    BY <2>1 DEF TableInv, ById
  <2>3. LinkOf(record[p]) = e.link
    BY <2>2 DEF LinkOf
  <2> QED BY <1>0, <1>1, <2>1, <2>3 DEF LoginBusy, KickSent
<1>2. ASSUME LoginAssign(p)
      PROVE  \/ UNCHANGED <<booking, nextIssue, asked, down>>
             \/ /\ nextIssue' = nextIssue + 1
                /\ \E e \in entries :
                     /\ booking' = [booking EXCEPT ![p] = [server |-> e.id, issue |-> nextIssue]]
                     /\ \/ UNCHANGED <<asked, down>>
                        \/ e.link \in Links /\ ReserveSent(e.link, p, e.id)
  <2>1. PICK late \in SUBSET {e \in entries : e.orphan = 0} :
          LET marked == {IF e \in late THEN [e EXCEPT !.orphan = NextStamp] ELSE e : e \in entries}
              eligible == {e \in marked : e.orphan = 0 /\ ~e.draining}
          IN  IF eligible = {} THEN UNCHANGED <<booking, nextIssue, asked, down>>
              ELSE \E e \in eligible :
                /\ booking' = [booking EXCEPT ![p] = [server |-> e.id, issue |-> nextIssue]]
                /\ nextIssue' = nextIssue + 1
                /\ IF e.link = 0 THEN UNCHANGED <<asked, down>>
                   ELSE ReserveSent(e.link, p, e.id)
    BY <1>2 DEF LoginAssign, ReserveSent
  <2> DEFINE marked == {IF e \in late THEN [e EXCEPT !.orphan = NextStamp] ELSE e : e \in entries}
             eligible == {e \in marked : e.orphan = 0 /\ ~e.draining}
  <2>2. eligible \subseteq entries
    <3>1. \A e \in late : [e EXCEPT !.orphan = NextStamp].orphan # 0
      BY StampIs DEF Typed, EntriesTyped, EntryRecords
    <3> QED BY <3>1
  <2>3. \/ UNCHANGED <<booking, nextIssue, asked, down>>
        \/ \E e \in eligible :
                /\ booking' = [booking EXCEPT ![p] = [server |-> e.id, issue |-> nextIssue]]
                /\ nextIssue' = nextIssue + 1
                /\ IF e.link = 0 THEN UNCHANGED <<asked, down>>
                   ELSE ReserveSent(e.link, p, e.id)
    BY <2>1
  <2> HIDE DEF eligible
  <2> QED BY <1>0, <2>2, <2>3
<1> QED BY <1>1, <1>2 DEF Login

LEMMA RowIs ==
    ASSUME NEW row \in Rows
    PROVE  /\ row.reserves \in SUBSET Reserves /\ row.kicks \in SUBSET Kicks /\ row.next \in Nat
           /\ NothingAsked \in Rows
           /\ [row EXCEPT !.next = @ + 1] \in Rows
           /\ \A S : [row EXCEPT !.reserves = @ \ S] \in Rows
           /\ \A S : [row EXCEPT !.kicks = @ \ S] \in Rows
<1>1. row.reserves \in SUBSET Reserves /\ row.kicks \in SUBSET Kicks /\ row.next \in Nat
      /\ NothingAsked \in Rows
  BY DEF Rows, NothingAsked
<1>2. [row EXCEPT !.next = @ + 1] \in Rows
  BY DEF Rows
<1>3. \A S : [row EXCEPT !.reserves = @ \ S] \in Rows
  BY DEF Rows
<1>4. \A S : [row EXCEPT !.kicks = @ \ S] \in Rows
  BY DEF Rows
<1> QED BY <1>1, <1>2, <1>3, <1>4

\* One row changes.
LEMMA OneRow ==
    ASSUME asked \in [Links -> Rows], NEW l \in Links, NEW S
    PROVE  /\ [asked EXCEPT ![l].reserves = @ \ S] \in [Links -> Rows]
           /\ [asked EXCEPT ![l].kicks = @ \ S] \in [Links -> Rows]
<1>1. asked[l] \in Rows
  OBVIOUS
<1>2. [asked[l] EXCEPT !.reserves = @ \ S] \in Rows /\ [asked[l] EXCEPT !.kicks = @ \ S] \in Rows
  BY <1>1, RowIs
<1>3. \A row \in Rows : [asked EXCEPT ![l] = row] \in [Links -> Rows]
  OBVIOUS
<1> QED BY <1>2, <1>3

LEMMA RowsStep ==
    ASSUME Typed, TableInv, [Next]_vars
    PROVE  RowsTyped'
<1>0. /\ RowsTyped /\ \A e \in entries : e.id \in Nat /\ e.link \in Links \cup {0}
      /\ \A p \in Players : record[p] \in Nat
      /\ \A l \in Links : asked[l] \in Rows
  BY DEF Typed, EntriesTyped, EntryRecords, ServerTyped, RowsTyped
<1> USE DEF RowsTyped
<1>1. ASSUME NEW p \in Players, Login(p) PROVE RowsTyped'
  <2>1. parting' = parting
    BY <1>1 DEF Login
  <2>2. CASE UNCHANGED <<booking, nextIssue, asked, down>>
    BY <1>0, <2>1, <2>2
  <2>3. ASSUME UNCHANGED <<booking, nextIssue>>, NEW l \in Links, KickSent(l, p, record[p])
        PROVE  RowsTyped'
    <3>1. [seq |-> asked[l].next, player |-> p, server |-> record[p]] \in Kicks
      BY <1>0, RowIs DEF Kicks
    <3>2. asked' \in [Links -> Rows]
      BY <1>0, <2>3, <3>1, AsksIs DEF KickSent
    <3> QED BY <1>0, <2>1, <2>3, <3>2
  <2>4. ASSUME NEW l \in Links, NEW id \in Nat, ReserveSent(l, p, id)
        PROVE  asked' \in [Links -> Rows]
    <3>1. [seq |-> asked[l].next, player |-> p, server |-> id, issue |-> nextIssue] \in Reserves
      BY <1>0, <2>4, RowIs DEF Reserves
    <3> QED BY <1>0, <2>4, <3>1, AsksIs DEF ReserveSent
  <2>5. CASE /\ UNCHANGED <<booking, nextIssue>>
             /\ \E e \in entries : e.link \in Links /\ KickSent(e.link, p, record[p])
    BY <2>3, <2>5
  <2>6. CASE /\ nextIssue' = nextIssue + 1
             /\ \E e \in entries :
                  /\ booking' = [booking EXCEPT ![p] = [server |-> e.id, issue |-> nextIssue]]
                  /\ \/ UNCHANGED <<asked, down>>
                     \/ e.link \in Links /\ ReserveSent(e.link, p, e.id)
    <3>1. PICK e \in entries :
            /\ booking' = [booking EXCEPT ![p] = [server |-> e.id, issue |-> nextIssue]]
            /\ \/ UNCHANGED <<asked, down>>
               \/ e.link \in Links /\ ReserveSent(e.link, p, e.id)
      BY <2>6
    <3>2. asked' \in [Links -> Rows]
      <4>1. CASE asked' = asked
        BY <1>0, <4>1
      <4>2. CASE e.link \in Links /\ ReserveSent(e.link, p, e.id)
        BY <1>0, <2>4, <4>2
      <4> QED BY <3>1, <4>1, <4>2
    <3>3. booking' \in [Players -> [server : Nat, issue : Nat] \cup {None}]
      BY <1>0, <3>1
    <3>4. ASSUME NEW q \in Players, booking'[q] # None PROVE booking'[q].issue < nextIssue'
      <4>1. CASE q = p
        BY <1>0, <2>6, <3>1, <4>1
      <4>2. CASE q # p
        <5>1. booking'[q] = booking[q] /\ booking[q].issue < nextIssue /\ booking[q].issue \in Nat
          BY <1>0, <3>1, <3>4, <4>2
        <5> QED BY <1>0, <2>6, <5>1
      <4> QED BY <4>1, <4>2
    <3> QED BY <1>0, <2>1, <2>6, <3>2, <3>3, <3>4
  <2> HIDE DEF RowsTyped
  <2> QED BY <1>1, <2>2, <2>5, <2>6, LoginHow
<1>2. ASSUME NEW e \in entries, NEW d \in BOOLEAN, SetMode(e, d) PROVE RowsTyped'
  <2>1. UNCHANGED <<booking, nextIssue, parting>>
    BY <1>2 DEF SetMode
  <2>2. asked' = asked \/ (e.link \in Links /\ asked' = [asked EXCEPT ![e.link].next = @ + 1])
    BY <1>0, <1>2 DEF SetMode
  <2>3. asked' \in [Links -> Rows]
    BY <1>0, <2>2, RowIs
  <2> QED BY <1>0, <2>1, <2>3
<1>3. ASSUME NEW l \in Links, Recv(l) PROVE RowsTyped'
  <2> DEFINE m == Head(up[l])
  <2>1. m \in UpMessages
    BY <1>3, HeadTailProperties DEF Recv, Typed, LinksTyped
  <2>2. CASE OnRegister(l, m.host)
    BY <1>0, <2>2 DEF OnRegister
  <2>3. CASE OnHeartbeat(l)
    BY <1>0, <2>3 DEF OnHeartbeat, routerVars
  <2>4. CASE OnUnregister(l)
    BY <1>0, <2>4 DEF OnUnregister, Unregistered
  <2>5. CASE OnPlayer(l, m.player, m.type = "PlayerEnter")
    BY <1>0, <2>5 DEF OnPlayer, routerVars
  <2>6. CASE m.type = "FullSync" /\ OnFullSync(l, m.first, m.ids)
    <3>1. \/ asked' = asked
          \/ \E S \in SUBSET Players :
               asked' = [asked EXCEPT ![l] = KicksAsked(@, SetToSeq(S), IdOf(l))]
      <4> DEFINE S == {p \in Conflicts(Cleared(IdOf(l), m.first), IdOf(l), m.ids) :
                         ~HasPendingKick(asked[l], p)}
      <4>1. S \in SUBSET Players
        BY <2>1, <2>6, UpKinds DEF Conflicts
      <4>2. asked' = asked \/ asked' = [asked EXCEPT ![l] = KicksAsked(@, SetToSeq(S), IdOf(l))]
        BY <2>6 DEF OnFullSync
      <4> HIDE DEF S
      <4> QED BY <4>1, <4>2
    <3>2. IdOf(l) \in Nat
      BY TheEntry DEF Typed, EntriesTyped
    <3>3. asked' \in [Links -> Rows]
      <4>1. CASE asked' = asked
        BY <1>0, <4>1
      <4>2. ASSUME NEW S \in SUBSET Players,
                   asked' = [asked EXCEPT ![l] = KicksAsked(@, SetToSeq(S), IdOf(l))]
            PROVE  asked' \in [Links -> Rows]
        <5>1. KicksAsked(asked[l], SetToSeq(S), IdOf(l)) \in Rows
          BY <1>0, <3>2, KicksAre
        <5> QED BY <1>0, <4>2, <5>1
      <4> QED BY <3>1, <4>1, <4>2
    <3>4. UNCHANGED <<booking, nextIssue, parting>>
      BY <2>6 DEF OnFullSync
    <3> QED BY <1>0, <3>3, <3>4
  <2>7. CASE OnReserveAck(l, m.seq, m.ok)
    <3>1. UNCHANGED <<nextIssue, parting>>
      BY <2>7 DEF OnReserveAck
    <3>2. PICK S : asked' = [asked EXCEPT ![l].reserves = @ \ S]
      BY <2>7 DEF OnReserveAck
    <3>3. asked' \in [Links -> Rows]
      BY <1>0, <3>2, OneRow
    <3>4. booking' = booking \/ \E p \in Players : booking' = [booking EXCEPT ![p] = None]
      <4>1. \A r \in asked[l].reserves : r.player \in Players
        BY <1>0, RowIs DEF Reserves
      <4> QED BY <2>7, <4>1 DEF OnReserveAck
    <3> QED BY <1>0, <3>1, <3>3, <3>4
  <2>8. CASE OnKickAck(l, m.seq, m.kicked)
    <3>1. UNCHANGED <<booking, nextIssue, parting>>
      BY <2>8 DEF OnKickAck
    <3>2. PICK S : asked' = [asked EXCEPT ![l].kicks = @ \ S]
      BY <2>8 DEF OnKickAck
    <3>3. asked' \in [Links -> Rows]
      BY <1>0, <3>2, OneRow
    <3> QED BY <1>0, <3>1, <3>3
  <2> QED BY <1>3, <2>2, <2>3, <2>4, <2>5, <2>6, <2>7, <2>8 DEF Recv
<1>4. ASSUME NEW l \in Links, Gone(l) PROVE RowsTyped'
  BY <1>0, <1>4, RowIs DEF Gone
<1>5. ASSUME NEW l \in Links, Break(l) PROVE RowsTyped'
  BY <1>0, <1>5 DEF Break, registryVars, routerVars
<1>6. ASSUME Sweep PROVE RowsTyped'
  <2>1. UNCHANGED <<booking, nextIssue>>
    BY <1>6 DEF Sweep
  <2>2. CASE \E e \in entries : SweepOrphan(e)
    BY <1>0, <2>1, <2>2 DEF SweepOrphan
  <2>3. ASSUME NEW l \in Links, SweepAsked(l) PROVE RowsTyped'
    <3>1. \/ \E r : asked' = [asked EXCEPT ![l].reserves = @ \ {r}]
          \/ \E k : asked' = [asked EXCEPT ![l].kicks = @ \ {k}]
      BY <2>3 DEF SweepAsked
    <3>2. asked' \in [Links -> Rows]
      <4>1. ASSUME NEW r, asked' = [asked EXCEPT ![l].reserves = @ \ {r}]
            PROVE  asked' \in [Links -> Rows]
        BY <1>0, <4>1, OneRow
      <4>2. ASSUME NEW k, asked' = [asked EXCEPT ![l].kicks = @ \ {k}]
            PROVE  asked' \in [Links -> Rows]
        BY <1>0, <4>2, OneRow
      <4> QED BY <3>1, <4>1, <4>2
    <3>3. parting' = parting
      BY <2>3 DEF SweepAsked
    <3> QED BY <1>0, <2>1, <3>2, <3>3
  <2>4. CASE \E l \in Links : SweepParting(l)
    BY <1>0, <2>1, <2>4 DEF SweepParting
  <2> QED BY <1>6, <2>2, <2>3, <2>4 DEF Sweep
<1>7. ASSUME NEW v \in Villages, VillageStep(v) \/ Connect(v) PROVE RowsTyped'
  BY <1>0, <1>7, VillageKeeps DEF Connect, registryVars, routerVars
<1>8. CASE UNCHANGED vars
  BY <1>0, <1>8 DEF vars, registryVars, routerVars
<1> QED BY <1>1, <1>2, <1>3, <1>4, <1>5, <1>6, <1>7, <1>8 DEF Next, S2s, Router, VillageStep

LEMMA ServerStep ==
    ASSUME Typed, TableInv, FirstInv, [Next]_vars
    PROVE  ServerTyped'
BY RecordStep, HoldsStep, RowsStep DEF ServerTyped, RowsTyped

\* What a village sends goes to the link it has, if that is not closed.
LEMMA ToServerIs ==
    ASSUME Typed, NEW v \in Villages, NEW m \in UpMessages, ToServer(v, m)
    PROVE  /\ up' \in [Links -> Seq(UpMessages)]
           /\ \A l \in Links :
                up'[l] = IF conn[v] = l /\ Alive(l) THEN Append(up[l], m) ELSE up[l]
<1>1. up \in [Links -> Seq(UpMessages)] /\ conn[v] \in Links \cup {0} /\ 0 \notin Links
  BY ClusterAssumption DEF Typed, LinksTyped, VillagesTyped, Links
<1>2. CASE conn[v] = 0
  BY <1>1, <1>2 DEF ToServer
<1>3. CASE conn[v] # 0
  <2>1. conn[v] \in Links /\ up' = Sent(up, conn[v], m)
    BY <1>1, <1>3 DEF ToServer
  <2> QED BY <1>1, <2>1, SentIs
<1> QED BY <1>2, <1>3

\* The answer to a Reserve.
LEMMA AckIs ==
    ASSUME Typed, NEW v \in Villages, Take(v), Head(down[conn[v]]).type = "Reserve"
    PROVE  /\ conn[v] \in Links /\ down[conn[v]] # <<>>
           /\ Head(down[conn[v]]) \in Msgs(down[conn[v]]) /\ Head(down[conn[v]]) \in DownMessages
           /\ [type |-> "ReserveAck", seq |-> Head(down[conn[v]]).seq, ok |-> ~drain[v]]
                \in UpMessages
<1>1. conn[v] \in Links /\ down[conn[v]] # <<>> /\ down[conn[v]] \in Seq(DownMessages)
      /\ drain[v] \in BOOLEAN
  BY DEF Typed, VillagesTyped, LinksTyped, Take
<1>2. Head(down[conn[v]]) \in Msgs(down[conn[v]]) /\ Head(down[conn[v]]) \in DownMessages
  <2> QED BY <1>1, QueueTail
<1> QED BY <1>1, <1>2, DownKinds, MessagesTyped

\* Messages to the server that a village sends by itself, and those that answer.
LEMMA VillageSends ==
    ASSUME Typed, NEW v \in Villages, VillageStep(v)
    PROVE  \/ up' = up
           \/ \E m \in UpMessages : ToServer(v, m) /\ m.type \notin {"Register", "ReserveAck"}
           \/ /\ Take(v) /\ Head(down[conn[v]]).type = "Reserve"
              /\ TakeReserve(v, Head(down[conn[v]]))
           \/ /\ Take(v) /\ Head(down[conn[v]]).type = "RegisterAck"
              /\ Alive(conn[v]) /\ conn[v] \in Links
              /\ up' = [up EXCEPT ![conn[v]] = @ \o FullSync(v)]
<1>0. kick \in [Villages -> [player : Players, seq : Nat, there : BOOLEAN] \cup {None}]
      /\ drain \in [Villages -> BOOLEAN] /\ conn \in [Villages -> Links \cup {0}]
      /\ down \in [Links -> Seq(DownMessages)]
  BY DEF Typed, VillagesTyped, LinksTyped
<1>1. CASE Disconnected(v)
  BY <1>1, SMTT(60) DEF Disconnected
<1>2. CASE Take(v)
  <2> DEFINE m == Head(down[conn[v]])
  <2>1. m \in DownMessages /\ conn[v] \in Links
    BY <1>0, <1>2, HeadTailProperties DEF Take
  <2>2. CASE m.type = "RegisterAck" /\ TakeRegisterAck(v, m.ok)
    BY <1>2, <2>1, <2>2 DEF TakeRegisterAck
  <2>3. CASE m.type = "Reserve" /\ TakeReserve(v, m)
    BY <1>2, <2>3
  <2>4. CASE TakeSetMode(v, m)
    BY <2>4 DEF TakeSetMode
  <2>5. CASE m.type = "Kick" /\ TakeKick(v, m)
    <3>1. KickAck(m.seq, FALSE) \in UpMessages /\ KickAck(m.seq, FALSE).type = "KickAck"
      BY <2>1, <2>5, DownKinds, MessagesTyped DEF KickAck
    <3> QED BY <2>5, <3>1 DEF TakeKick
  <2> QED BY <1>2, <2>2, <2>3, <2>4, <2>5 DEF Take
<1>3. CASE KickClose(v)
  <2>1. PICK kicked \in ClosedById(v) : ToServer(v, KickAck(kick[v].seq, kicked))
    BY <1>3 DEF KickClose
  <2>2. kicked \in BOOLEAN /\ kick[v].seq \in Nat
    BY <1>0, <1>3 DEF ClosedById, KickClose
  <2>3. KickAck(kick[v].seq, kicked) \in UpMessages /\ KickAck(kick[v].seq, kicked).type = "KickAck"
    BY <2>2, MessagesTyped DEF KickAck
  <2> QED BY <2>1, <2>3
<1>4. CASE Tick(v)
  BY <1>4, MessagesTyped DEF Tick
<1>5. CASE Quit(v)
  BY <1>5, MessagesTyped DEF Quit
<1>6. CASE Die(v) \/ Stop(v)
  BY <1>6 DEF Die, Stop, Ended
<1>7. ASSUME NEW p \in Players, Enter(v, p) \/ Close(v, p) \/ Leave(v, p)
      PROVE  up' = up \/ \E m \in UpMessages : ToServer(v, m) /\ m.type \notin {"Register", "ReserveAck"}
  BY <1>7, MessagesTyped DEF Enter, Close, Leave, Notify
<1> QED BY <1>1, <1>2, <1>3, <1>4, <1>5, <1>6, <1>7 DEF VillageStep

\* What a village does to its link: it may hang up, and takes messages off.
LEMMA VillageLinks ==
    ASSUME Typed, NEW v \in Villages, VillageStep(v)
    PROVE  /\ \/ conn' = conn
              \/ /\ conn' = [conn EXCEPT ![v] = 0]
                 /\ conn[v] # 0 => conn[v] \in lost' /\ down' = [down EXCEPT ![conn[v]] = <<>>]
           /\ \/ lost' = lost
              \/ conn[v] \in Links /\ lost' = lost \cup {conn[v]}
           /\ \/ down' = down
              \/ conn[v] \in Links /\ down' = [down EXCEPT ![conn[v]] = <<>>]
              \/ /\ conn[v] \in Links /\ down[conn[v]] # <<>>
                 /\ down' = [down EXCEPT ![conn[v]] = Tail(@)] /\ Take(v)
<1>0. conn \in [Villages -> Links \cup {0}]
  BY DEF Typed, VillagesTyped
<1>1. CASE Disconnected(v)
  BY <1>0, <1>1 DEF Disconnected, Unplugged, Alive
<1>2. CASE Take(v)
  <2> DEFINE m == Head(down[conn[v]])
  <2>1. conn[v] \in Links /\ down[conn[v]] # <<>>
    BY <1>0, <1>2 DEF Take
  <2>2. CASE m.type = "RegisterAck" /\ TakeRegisterAck(v, m.ok)
    BY <1>2, <2>1, <2>2 DEF TakeRegisterAck, Unplugged, Alive
  <2>3. CASE m.type # "RegisterAck"
    BY <1>2, <2>1, <2>3 DEF Take
  <2> QED BY <1>2, <2>2, <2>3 DEF Take
<1>3. CASE KickClose(v) \/ Tick(v) \/ Quit(v)
  BY <1>3 DEF KickClose, Tick, Quit
<1>4. CASE Die(v) \/ Stop(v)
  BY <1>0, <1>4 DEF Die, Stop, Ended, Alive
<1>5. CASE \E p \in Players : Enter(v, p) \/ Close(v, p) \/ Leave(v, p)
  BY <1>5 DEF Enter, Close, Leave
<1> QED BY <1>1, <1>2, <1>3, <1>4, <1>5 DEF VillageStep

\* What the server's own steps send.
ServerSends(l) ==
    \/ down' = down
    \/ \E m \in DownMessages : down' = Sent(down, l, m)
    \/ \E S \in SUBSET Players :
         Alive(l) /\ down' = [down EXCEPT ![l] = @ \o KickMessages(asked[l], SetToSeq(S))]

LEMMA RecvSends ==
    ASSUME Typed, NEW l \in Links, Recv(l)
    PROVE  ServerSends(l) /\ lost' \in {lost, lost \cup {l}}
<1> DEFINE m == Head(up[l])
<1>1. m \in UpMessages
  BY HeadTailProperties DEF Recv, Typed, LinksTyped
<1>2. CASE OnRegister(l, m.host)
  <2>1. PICK b \in BOOLEAN : Answer(l, b)
    BY <1>2 DEF OnRegister
  <2>2. [type |-> "RegisterAck", ok |-> b] \in DownMessages
    BY MessagesTyped
  <2>3. lost' = lost
    BY <1>2 DEF OnRegister
  <2> QED BY <2>1, <2>2, <2>3 DEF Answer, ServerSends
<1>3. CASE OnHeartbeat(l)
  BY <1>3 DEF OnHeartbeat, ServerSends
<1>4. CASE OnUnregister(l)
  BY <1>4 DEF OnUnregister, ServerSends
<1>5. CASE OnPlayer(l, m.player, m.type = "PlayerEnter")
  BY <1>5 DEF OnPlayer, ServerSends
<1>6. CASE m.type = "FullSync" /\ OnFullSync(l, m.first, m.ids)
  <2> DEFINE S == {p \in Conflicts(Cleared(IdOf(l), m.first), IdOf(l), m.ids) :
                     ~HasPendingKick(asked[l], p)}
  <2>1. S \in SUBSET Players
    BY <1>1, <1>6, UpKinds DEF Conflicts
  <2>2. /\ lost' = lost
        /\ \/ down' = down
           \/ Alive(l) /\ down' = [down EXCEPT ![l] = @ \o KickMessages(asked[l], SetToSeq(S))]
    BY <1>6 DEF OnFullSync
  <2> HIDE DEF S
  <2> QED BY <2>1, <2>2 DEF ServerSends
<1>7. CASE OnReserveAck(l, m.seq, m.ok)
  BY <1>7 DEF OnReserveAck, ServerSends
<1>8. CASE OnKickAck(l, m.seq, m.kicked)
  BY <1>8 DEF OnKickAck, ServerSends
<1> QED BY <1>2, <1>3, <1>4, <1>5, <1>6, <1>7, <1>8 DEF Recv

LEMMA ServerSendsIs ==
    ASSUME Typed, NEW l \in Links, ServerSends(l)
    PROVE  /\ down' \in [Links -> Seq(DownMessages)]
           /\ \A k \in Links : k # l => down'[k] = down[k]
           /\ ~Alive(l) => down' = down
<1>1. down \in [Links -> Seq(DownMessages)] /\ asked[l] \in Rows
  BY DEF Typed, LinksTyped, ServerTyped
<1>2. CASE down' = down
  BY <1>1, <1>2
<1>3. ASSUME NEW m \in DownMessages, down' = Sent(down, l, m)
      PROVE  /\ down' \in [Links -> Seq(DownMessages)]
             /\ \A k \in Links : k # l => down'[k] = down[k]
             /\ ~Alive(l) => down' = down
  <2>1. ~Alive(l) => down' = down
    BY <1>3 DEF Sent
  <2> QED BY <1>1, <1>3, <2>1, SentIs
<1>4. ASSUME NEW S \in SUBSET Players, Alive(l),
             down' = [down EXCEPT ![l] = @ \o KickMessages(asked[l], SetToSeq(S))]
      PROVE  /\ down' \in [Links -> Seq(DownMessages)]
             /\ \A k \in Links : k # l => down'[k] = down[k]
  <2> DEFINE f == KickMessages(asked[l], SetToSeq(S))
  <2>1. f \in Seq(DownMessages)
    BY <1>1, KicksAre
  <2> HIDE DEF f
  <2>2. down[l] \o f \in Seq(DownMessages)
    BY <1>1, <2>1, QueueConcat
  <2>3. down' = [down EXCEPT ![l] = down[l] \o f]
    BY <1>4 DEF f
  <2> QED BY <1>1, <2>2, <2>3
<1> QED BY <1>2, <1>3, <1>4 DEF ServerSends

\* The requests of the client side and of the operator.
LEMMA ClientSends ==
    ASSUME Typed, TableInv, (\E p \in Players : Login(p)) \/ \E e \in entries, d \in BOOLEAN : SetMode(e, d)
    PROVE  down' = down \/ \E l \in Links : ServerSends(l)
<1>0. /\ \A p \in Players : record[p] \in Nat
      /\ \A l \in Links : asked[l].next \in Nat
      /\ \A e \in entries : e.link \in Links \cup {0}
      /\ nextIssue \in Nat
  <2>1. \A l \in Links : asked[l] \in Rows
    BY DEF Typed, ServerTyped
  <2>2. \A l \in Links : asked[l].next \in Nat
    BY <2>1, RowIs
  <2> QED BY <2>2 DEF Typed, EntriesTyped, EntryRecords, ServerTyped
<1>1. ASSUME NEW p \in Players, Login(p) PROVE down' = down \/ \E l \in Links : ServerSends(l)
  <2>1. ASSUME NEW l \in Links, KickSent(l, p, record[p]) PROVE ServerSends(l)
    <3>1. [type |-> "Kick", player |-> p, seq |-> asked[l].next] \in DownMessages
      BY <1>0, MessagesTyped
    <3> QED BY <2>1, <3>1 DEF KickSent, ServerSends
  <2>2. ASSUME NEW l \in Links, NEW id, ReserveSent(l, p, id) PROVE ServerSends(l)
    <3>1. [type |-> "Reserve", player |-> p, seq |-> asked[l].next, issue |-> nextIssue]
            \in DownMessages
      BY <1>0, MessagesTyped
    <3> QED BY <2>2, <3>1 DEF ReserveSent, ServerSends
  <2>3. CASE \E e \in entries : e.link \in Links /\ KickSent(e.link, p, record[p])
    BY <2>1, <2>3
  <2>4. CASE \E e \in entries : e.link \in Links /\ ReserveSent(e.link, p, e.id)
    BY <2>2, <2>4
  <2>5. \/ down' = down
        \/ \E e \in entries : e.link \in Links /\ KickSent(e.link, p, record[p])
        \/ \E e \in entries : e.link \in Links /\ ReserveSent(e.link, p, e.id)
    BY <1>1, LoginHow
  <2> QED BY <2>3, <2>4, <2>5
<1>2. ASSUME NEW e \in entries, NEW d \in BOOLEAN, SetMode(e, d)
      PROVE  down' = down \/ \E l \in Links : ServerSends(l)
  <2>1. [type |-> "SetMode", drain |-> d] \in DownMessages
    BY MessagesTyped
  <2>2. \/ down' = down
        \/ (e.link \in Links /\ down' = Sent(down, e.link, [type |-> "SetMode", drain |-> d]))
    BY <1>0, <1>2 DEF SetMode
  <2> QED BY <2>1, <2>2 DEF ServerSends
<1> QED BY <1>1, <1>2

LEMMA LinksStep ==
    ASSUME Typed, TableInv, [Next]_vars
    PROVE  LinksTyped'
<1>0. /\ LinksTyped /\ conn \in [Villages -> Links \cup {0}] /\ UpMessages' = UpMessages
      /\ DownMessages' = DownMessages
  BY DEF Typed, VillagesTyped, UpMessages, DownMessages
<1> USE DEF LinksTyped
<1>1. CASE (\E p \in Players : Login(p)) \/ \E e \in entries, d \in BOOLEAN : SetMode(e, d)
  <2>1. UNCHANGED <<gone, lost, up>>
    BY <1>1 DEF Login, SetMode
  <2> QED BY <1>0, <1>1, <2>1, ClientSends, ServerSendsIs
<1>2. ASSUME NEW l \in Links, Recv(l) PROVE LinksTyped'
  <2>1. up' = [up EXCEPT ![l] = Tail(@)] /\ gone' = gone /\ up[l] # <<>>
    BY <1>2 DEF Recv, FromVillage, OnRegister, OnHeartbeat, OnUnregister, OnPlayer, OnFullSync,
                OnReserveAck, OnKickAck, Received
  <2>2. up' \in [Links -> Seq(UpMessages)]
    BY <1>0, <2>1, HeadTailProperties
  <2>3. down' \in [Links -> Seq(DownMessages)] /\ lost' \in {lost, lost \cup {l}}
    BY <1>2, RecvSends, ServerSendsIs
  <2> QED BY <1>0, <2>1, <2>2, <2>3
<1>3. ASSUME NEW l \in Links, Gone(l) PROVE LinksTyped'
  <2>1. <<>> \in Seq(UpMessages)
    BY EmptySeq
  <2> QED BY <1>0, <1>3, <2>1 DEF Gone
<1>4. ASSUME NEW l \in Links, Break(l) PROVE LinksTyped'
  BY <1>0, <1>4 DEF Break
<1>5. CASE Sweep
  BY <1>0, <1>5 DEF Sweep
<1>6. ASSUME NEW v \in Villages, Connect(v) PROVE LinksTyped'
  <2>1. PICK l \in Links : /\ lost' = lost \ {l} /\ gone' = gone \ {l}
                           /\ up' = [up EXCEPT ![l] = <<[type |-> "Register", host |-> v]>>]
    BY <1>6 DEF Connect
  <2>2. <<[type |-> "Register", host |-> v]>> \in Seq(UpMessages)
    BY MessagesTyped
  <2>3. down' = down
    BY <1>6 DEF Connect
  <2> QED BY <1>0, <2>1, <2>2, <2>3
<1>7. ASSUME NEW v \in Villages, VillageStep(v) PROVE LinksTyped'
  <2>1. up' \in [Links -> Seq(UpMessages)]
    <3>1. CASE up' = up
      BY <1>0, <3>1
    <3>2. CASE \E m \in UpMessages : ToServer(v, m)
      BY <3>2, ToServerIs
    <3>3. CASE conn[v] \in Links /\ up' = [up EXCEPT ![conn[v]] = @ \o FullSync(v)]
      <4>1. up[conn[v]] \o FullSync(v) \in Seq(UpMessages)
        BY <1>0, <3>3, FullSyncIs, ConcatProperties
      <4> QED BY <1>0, <3>3, <4>1
    <3>4. CASE TakeReserve(v, Head(down[conn[v]])) /\ Take(v)
               /\ Head(down[conn[v]]).type = "Reserve"
      BY <3>2, <3>4, AckIs DEF TakeReserve
    <3> QED BY <1>7, <3>1, <3>2, <3>3, <3>4, VillageSends
  <2>2. lost' = lost \/ (conn[v] \in Links /\ lost' = lost \cup {conn[v]})
    BY <1>7, VillageLinks
  <2>3. down' \in [Links -> Seq(DownMessages)]
    <3>1. <<>> \in Seq(DownMessages)
      BY EmptySeq
    <3>2. \A l \in Links : down[l] # <<>> => Tail(down[l]) \in Seq(DownMessages)
      BY <1>0, HeadTailProperties
    <3>3. CASE conn[v] \in Links /\ down' = [down EXCEPT ![conn[v]] = <<>>]
      BY <1>0, <3>1, <3>3
    <3>4. CASE /\ conn[v] \in Links /\ down[conn[v]] # <<>>
               /\ down' = [down EXCEPT ![conn[v]] = Tail(@)]
      BY <1>0, <3>2, <3>4
    <3>5. CASE down' = down
      BY <1>0, <3>5
    <3> QED BY <1>7, <3>3, <3>4, <3>5, VillageLinks
  <2>4. gone' = gone
    BY <1>7, VillageKeeps
  <2> QED BY <1>0, <2>1, <2>2, <2>3, <2>4
<1>8. CASE UNCHANGED vars
  BY <1>0, <1>8 DEF vars
<1> QED BY <1>1, <1>2, <1>3, <1>4, <1>5, <1>6, <1>7, <1>8 DEF Next, S2s, Router, VillageStep

\* The server's steps leave the villages alone, and what goes wrong on the way.
LEMMA ServerKeeps ==
    ASSUME Typed,
           \/ \E p \in Players : Login(p)
           \/ \E e \in entries, d \in BOOLEAN : SetMode(e, d)
           \/ \E l \in Links : Recv(l) \/ Gone(l) \/ Break(l)
           \/ Sweep
    PROVE  UNCHANGED <<conn, villageVars>>
BY DEF Login, SetMode, Recv, FromVillage, Gone, Break, Sweep

LEMMA VillagesStep ==
    ASSUME Typed, [Next]_vars
    PROVE  VillagesTyped'
<1>0. VillagesTyped /\ 0 \notin Links
  BY ClusterAssumption DEF Typed, Links
<1>1. CASE UNCHANGED <<conn, villageVars>>
  BY <1>0, <1>1 DEF VillagesTyped, villageVars
<1>2. ASSUME NEW v \in Villages, Connect(v) PROVE VillagesTyped'
  <2>1. PICK l \in Links : (\A w \in Villages : conn[w] # l) /\ conn' = [conn EXCEPT ![v] = l]
    BY <1>2 DEF Connect, Unused
  <2>2. UNCHANGED villageVars
    BY <1>2 DEF Connect
  <2> QED BY <1>0, <2>1, <2>2 DEF VillagesTyped, villageVars
<1>3. ASSUME NEW v \in Villages, VillageStep(v) PROVE VillagesTyped'
  <2>1. /\ conn' \in [Villages -> Links \cup {0}]
        /\ \A u, w \in Villages : u # w /\ conn'[u] = conn'[w] => conn'[u] = 0
    <3>1. conn' = conn \/ conn' = [conn EXCEPT ![v] = 0]
      BY <1>3, VillageLinks
    <3> QED BY <1>0, <3>1 DEF VillagesTyped
  <2>2. CASE Disconnected(v)
    BY <1>0, <2>1, <2>2 DEF VillagesTyped, Disconnected, Unplugged
  <2>3. CASE Take(v)
    <3> DEFINE m == Head(down[conn[v]])
    <3>1. m \in DownMessages /\ conn[v] \in Links
      BY <1>0, <2>3, HeadTailProperties DEF Take, Typed, LinksTyped, VillagesTyped
    <3>2. CASE m.type = "RegisterAck" /\ TakeRegisterAck(v, m.ok)
      BY <1>0, <2>1, <3>2 DEF VillagesTyped, TakeRegisterAck, Unplugged
    <3>3. CASE m.type = "Reserve" /\ TakeReserve(v, m) /\ UNCHANGED <<registered, roster>>
      <4>1. m.player \in Players
        BY <3>1, <3>3, DownKinds
      <4>2. seat' \in [Villages -> [Players -> BOOLEAN]]
        <5>1. [seat[v] EXCEPT ![m.player] = TRUE] \in [Players -> BOOLEAN]
          BY <1>0, <4>1 DEF VillagesTyped
        <5>2. seat' = seat \/ seat' = [seat EXCEPT ![v] = [seat[v] EXCEPT ![m.player] = TRUE]]
          BY <3>3 DEF TakeReserve
        <5> QED BY <1>0, <5>1, <5>2 DEF VillagesTyped
      <4> QED BY <1>0, <2>1, <3>3, <4>2 DEF VillagesTyped, TakeReserve
    <3>4. CASE m.type = "SetMode" /\ TakeSetMode(v, m) /\ UNCHANGED <<registered, roster>>
      <4>1. m.drain \in BOOLEAN
        BY <3>1, <3>4, DownKinds
      <4> QED BY <1>0, <2>1, <3>4, <4>1 DEF VillagesTyped, TakeSetMode
    <3>5. CASE m.type = "Kick" /\ TakeKick(v, m) /\ UNCHANGED <<registered, roster>>
      <4>1. [player |-> m.player, seq |-> m.seq, there |-> TRUE]
              \in [player : Players, seq : Nat, there : BOOLEAN]
        BY <3>1, <3>5, DownKinds
      <4>2. kick' \in [Villages -> [player : Players, seq : Nat, there : BOOLEAN] \cup {None}]
        BY <1>0, <3>5, <4>1 DEF VillagesTyped, TakeKick
      <4> QED BY <1>0, <2>1, <3>5, <4>2 DEF VillagesTyped, TakeKick
    <3> QED BY <2>3, <3>2, <3>3, <3>4, <3>5 DEF Take
  <2>4. CASE KickClose(v)
    <3>1. kick[v] \in [player : Players, seq : Nat, there : BOOLEAN]
      BY <1>0, <2>4 DEF VillagesTyped, KickClose
    <3>2. roster' \in [Villages -> [Players -> {"out", "in", "closing"}]]
      BY <1>0, <2>4, <3>1 DEF VillagesTyped, KickClose
    <3>3. kick' \in [Villages -> [player : Players, seq : Nat, there : BOOLEAN] \cup {None}]
      BY <1>0, <2>4 DEF VillagesTyped, KickClose
    <3> QED BY <1>0, <2>1, <2>4, <3>2, <3>3 DEF VillagesTyped, KickClose
  <2>5. CASE Tick(v)
    BY <1>0, <2>5 DEF VillagesTyped, Tick, villageVars
  <2>6. CASE Quit(v)
    BY <1>0, <2>6 DEF VillagesTyped, Quit
  <2>7. CASE Ended(v)
    BY <1>0, <2>1, <2>7 DEF VillagesTyped, Ended
  <2>8. ASSUME NEW p \in Players, Enter(v, p) PROVE VillagesTyped'
    <3>1. /\ [seat[v] EXCEPT ![p] = FALSE] \in [Players -> BOOLEAN]
          /\ [roster[v] EXCEPT ![p] = "in"] \in [Players -> {"out", "in", "closing"}]
      BY <1>0 DEF VillagesTyped
    <3>2. seat' = [seat EXCEPT ![v] = [seat[v] EXCEPT ![p] = FALSE]]
      BY <2>8 DEF Enter
    <3>3. roster' = roster \/ roster' = [roster EXCEPT ![v] = [roster[v] EXCEPT ![p] = "in"]]
      BY <2>8 DEF Enter
    <3>4. seat' \in [Villages -> [Players -> BOOLEAN]]
      BY <1>0, <3>1, <3>2 DEF VillagesTyped
    <3>5. roster' \in [Villages -> [Players -> {"out", "in", "closing"}]]
      BY <1>0, <3>1, <3>3 DEF VillagesTyped
    <3> QED BY <1>0, <2>8, <3>4, <3>5 DEF VillagesTyped, Enter
  <2>9. ASSUME NEW p \in Players, Close(v, p) PROVE VillagesTyped'
    BY <1>0, <2>9 DEF VillagesTyped, Close
  <2>10. ASSUME NEW p \in Players, Leave(v, p) PROVE VillagesTyped'
    <3>1. kick' \in [Villages -> [player : Players, seq : Nat, there : BOOLEAN] \cup {None}]
      <4>1. CASE kick' = kick
        BY <1>0, <4>1 DEF VillagesTyped
      <4>2. CASE kick[v] # None /\ kick' = [kick EXCEPT ![v].there = FALSE]
        <5>1. [kick[v] EXCEPT !.there = FALSE] \in [player : Players, seq : Nat, there : BOOLEAN]
          BY <1>0, <4>2 DEF VillagesTyped
        <5> QED BY <1>0, <4>2, <5>1 DEF VillagesTyped
      <4> QED BY <2>10, <4>1, <4>2 DEF Leave
    <3>2. roster' \in [Villages -> [Players -> {"out", "in", "closing"}]]
      BY <1>0, <2>10 DEF VillagesTyped, Leave
    <3> QED BY <1>0, <2>10, <3>1, <3>2 DEF VillagesTyped, Leave
  <2> QED BY <1>3, <2>2, <2>3, <2>4, <2>5, <2>6, <2>7, <2>8, <2>9, <2>10
      DEF VillageStep, Die, Stop
<1>4. CASE UNCHANGED vars
  BY <1>1, <1>4 DEF vars
<1> QED BY <1>1, <1>2, <1>3, <1>4, ServerKeeps DEF Next, S2s, Router, VillageStep

LEMMA TypedStep ==
    ASSUME Typed, TableInv, FirstInv, [Next]_vars
    PROVE  Typed'
BY EntriesStep, ServerStep, LinksStep, VillagesStep DEF Typed

-----------------------------------------------------------------------------
(* It begins so *)

LEMMA FirstLinks ==
    /\ Len(SettledAt) \in Nat /\ Len(SettledAt) <= Capacity /\ DOMAIN SettledAt = 1..Len(SettledAt)
    /\ DOMAIN SettledAt \subseteq Links
    /\ \A l \in DOMAIN SettledAt : SettledAt[l] \in Villages /\ ConnAtFirst(SettledAt[l]) = l
    /\ \A v \in Villages :
         /\ ConnAtFirst(v) \in DOMAIN SettledAt \cup {0}
         /\ v \in Settled => ConnAtFirst(v) \in DOMAIN SettledAt /\ SettledAt[ConnAtFirst(v)] = v
         /\ v \notin Settled => ConnAtFirst(v) = 0
<1>1. /\ SettledAt \in Seq(Settled) /\ Len(SettledAt) = Cardinality(Settled)
      /\ Cardinality(Settled) \in Nat
      /\ \A i, j \in 1..Cardinality(Settled) : SettledAt[i] = SettledAt[j] => i = j
      /\ \A x \in Settled : \E i \in 1..Cardinality(Settled) : SettledAt[i] = x
  BY ClusterAssumption, SetToSeqIs DEF SettledAt
<1>2. DOMAIN SettledAt = 1..Len(SettledAt) /\ \A i \in DOMAIN SettledAt : SettledAt[i] \in Settled
  BY <1>1, LenProperties, ElementOfSeq
<1> HIDE DEF SettledAt
<1>3. Len(SettledAt) <= Capacity /\ DOMAIN SettledAt \subseteq Links
  BY <1>1, <1>2, ClusterAssumption DEF Links
<1>4. \A l \in DOMAIN SettledAt : SettledAt[l] \in Villages
  BY <1>2, ClusterAssumption
<1>5. ASSUME NEW v \in Settled
      PROVE  ConnAtFirst(v) \in DOMAIN SettledAt /\ SettledAt[ConnAtFirst(v)] = v
  BY <1>1, <1>2 DEF ConnAtFirst
<1>6. ASSUME NEW v, v \notin Settled PROVE ConnAtFirst(v) = 0
  BY <1>6 DEF ConnAtFirst
<1>7. \A l \in DOMAIN SettledAt : ConnAtFirst(SettledAt[l]) = l
  BY <1>1, <1>2, <1>5
<1> QED BY <1>1, <1>2, <1>3, <1>4, <1>5, <1>6, <1>7

LEMMA InitTyped == Init => Typed /\ TableInv
<1> SUFFICES ASSUME Init PROVE Typed /\ TableInv
  OBVIOUS
<1> DEFINE D == DOMAIN SettledAt
           entry(l) == [id |-> l, host |-> SettledAt[l], conn |-> l, link |-> l, orphan |-> 0,
                        draining |-> FALSE]
<1>1. /\ Len(SettledAt) \in Nat /\ Len(SettledAt) <= Capacity /\ D = 1..Len(SettledAt)
      /\ D \subseteq Links /\ \A l \in D : SettledAt[l] \in Villages
  BY FirstLinks
<1>2. entries = {entry(l) : l \in D} /\ nextId = 1 + Len(SettledAt)
  BY DEF Init
<1>3. EntriesTyped
  <2> DEFINE f == [l \in D |-> entry(l)]
  <2>1. \A l \in D : entry(l) \in EntryRecords
    BY <1>1, <1>2 DEF EntryRecords
  <2>2. entries \subseteq EntryRecords /\ nextId \in Nat \ {0}
    BY <1>1, <1>2, <2>1
  <2>3. IsFiniteSet(D) /\ Cardinality(D) = Len(SettledAt)
    BY <1>1, FS_Interval, SMTT(60)
  <2>4. f \in Surjection(D, entries)
    BY <1>2 DEF Surjection
  <2>5. IsFiniteSet(entries) /\ Cardinality(entries) <= Cardinality(D)
    BY <2>3, <2>4, FS_Surjection
  <2>6. Cardinality(entries) \in Nat
    BY <2>5, FS_CardinalityType
  <2>7. Cardinality(entries) <= Capacity
    BY <1>1, <2>3, <2>5, <2>6, ClusterAssumption
  <2> QED BY <2>2, <2>5, <2>7 DEF EntriesTyped
<1>4. ServerTyped
  <2>1. NothingAsked \in Rows
    BY DEF NothingAsked, Rows
  <2>2. nextIssue = 1 /\ booking = [p \in Players |-> None] /\ parting = {}
        /\ record = [p \in Players |-> 0] /\ asked = [l \in Links |-> NothingAsked]
        /\ holds = [l \in Links |-> IF l \in D THEN 1 ELSE 0]
    BY DEF Init
  <2>3. nextId \in Nat \ {0}
    BY <1>1, <1>2
  <2> QED BY <2>1, <2>2, <2>3 DEF ServerTyped
<1>5. LinksTyped
  <2>1. <<>> \in Seq(UpMessages) /\ <<>> \in Seq(DownMessages)
    BY EmptySeq
  <2> QED BY <2>1 DEF Init, LinksTyped
<1>6. VillagesTyped
  <2>1. \A v \in Villages : ConnAtFirst(v) \in Links \cup {0}
    BY <1>1, FirstLinks
  <2>2. \A v, w \in Villages : v # w /\ ConnAtFirst(v) = ConnAtFirst(w) => ConnAtFirst(v) = 0
    BY FirstLinks
  <2>3. conn = [v \in Villages |-> ConnAtFirst(v)]
    BY DEF Init
  <2> QED BY <2>1, <2>2, <2>3 DEF Init, VillagesTyped
<1>7. TableInv
  <2>1. gone = Links \ D /\ record = [p \in Players |-> 0]
        /\ holds = [l \in Links |-> IF l \in D THEN 1 ELSE 0]
    BY DEF Init
  <2>2. \A e \in entries : e.conn \in D /\ e = entry(e.conn)
    BY <1>2
  <2>3. \A l \in D : entry(l) \in entries /\ entry(l).link = l
    BY <1>2
  <2>4. \A e \in entries : e.link = e.conn /\ e.id = e.conn
    BY <1>2
  <2> HIDE DEF entry, D
  <2>5. \A e, f \in entries : e # f => e.id # f.id /\ e.conn # f.conn
    BY <2>2, <2>4
  <2>6. \A l \in Links : (\E e \in entries : e.link = l) <=> l \in D
    BY <2>2, <2>3, <2>4
  <2>7. \A e \in entries : e.link \in {0, e.conn} /\ (e.conn \notin gone => e.link = e.conn)
    BY <2>4
  <2> QED BY <2>1, <2>5, <2>6, <2>7 DEF TableInv
<1> QED BY <1>3, <1>4, <1>5, <1>6, <1>7 DEF Typed

LEMMA InitLinks == Init => LinksInv /\ FirstInv
<1> SUFFICES ASSUME Init PROVE LinksInv /\ FirstInv
  OBVIOUS
<1>1. /\ up = [l \in Links |-> <<>>] /\ down = [l \in Links |-> <<>>]
      /\ lost = Links \ DOMAIN SettledAt /\ conn = [v \in Villages |-> ConnAtFirst(v)]
      /\ registered = [v \in Villages |-> v \in Settled]
  BY DEF Init
<1>2. \A l \in DOMAIN SettledAt : \E v \in Villages : conn[v] = l
  BY <1>1, FirstLinks
<1>3. \A v \in Villages : registered[v] => conn[v] # 0
  <2>1. \A v \in Settled : ConnAtFirst(v) \in Links /\ 0 \notin Links
    BY FirstLinks, ClusterAssumption DEF Links
  <2> QED BY <1>1, <2>1
<1>4. \A l \in Links : Msgs(up[l]) = {} /\ Later(up[l]) = {}
  BY <1>1, EmptyQueue
<1> QED BY <1>1, <1>2, <1>3, <1>4 DEF LinksInv, FirstInv, First, Has

\* A step of a village that registers it.
LEMMA RegisteredHow ==
    ASSUME Typed, NEW v \in Villages, VillageStep(v)
    PROVE  \A w \in Villages : registered'[w] =>
             registered[w] \/ (w = v /\ Take(v) /\ Head(down[conn[v]]).type = "RegisterAck")
<1>0. registered \in [Villages -> BOOLEAN]
  BY DEF Typed, VillagesTyped
<1>1. CASE Disconnected(v)
  BY <1>0, <1>1, SMTT(60) DEF Disconnected, Unplugged
<1>2. CASE Take(v)
  <2>1. CASE /\ Head(down[conn[v]]).type = "RegisterAck"
             /\ TakeRegisterAck(v, Head(down[conn[v]]).ok)
    BY <1>0, <1>2, <2>1 DEF TakeRegisterAck, Unplugged
  <2>2. CASE registered' = registered
    BY <2>2
  <2> QED BY <1>2, <2>1, <2>2 DEF Take
<1>3. CASE KickClose(v) \/ Tick(v) \/ Quit(v)
  BY <1>3 DEF KickClose, Tick, Quit, villageVars
<1>4. CASE Die(v) \/ Stop(v)
  BY <1>0, <1>4 DEF Die, Stop, Ended
<1>5. CASE \E p \in Players : Enter(v, p) \/ Close(v, p) \/ Leave(v, p)
  BY <1>5 DEF Enter, Close, Leave
<1> QED BY <1>1, <1>2, <1>3, <1>4, <1>5 DEF VillageStep

LEMMA TakesFromLink == \A v : Take(v) => conn[v] # 0
BY DEF Take

\* A village that hangs up is not registered.
LEMMA HungUp ==
    ASSUME Typed, NEW v \in Villages, VillageStep(v), registered'[v]
    PROVE  conn' = conn
<1>0. registered \in [Villages -> BOOLEAN]
  BY DEF Typed, VillagesTyped
<1>1. ~Disconnected(v) /\ ~Die(v) /\ ~Stop(v)
  BY <1>0 DEF Disconnected, Unplugged, Die, Stop, Ended
<1>2. CASE Take(v)
  <2>1. CASE TakeRegisterAck(v, Head(down[conn[v]]).ok)
    BY <1>0, <2>1 DEF TakeRegisterAck, Unplugged
  <2> QED BY <1>2, <2>1 DEF Take
<1>3. CASE KickClose(v) \/ Tick(v) \/ Quit(v)
  BY <1>3 DEF KickClose, Tick, Quit
<1>4. CASE \E p \in Players : Enter(v, p) \/ Close(v, p) \/ Leave(v, p)
  BY <1>4 DEF Enter, Close, Leave
<1> QED BY <1>1, <1>2, <1>3, <1>4 DEF VillageStep

LEMMA LinksInvStep ==
    ASSUME Typed, TableInv, LinksInv, [Next]_vars
    PROVE  LinksInv'
<1>0. /\ conn \in [Villages -> Links \cup {0}] /\ down \in [Links -> Seq(DownMessages)]
      /\ lost \subseteq Links /\ 0 \notin Links
      /\ \A u, w \in Villages : u # w /\ conn[u] = conn[w] => conn[u] = 0
  BY ClusterAssumption DEF Typed, LinksTyped, VillagesTyped, Links
<1>1. ASSUME UNCHANGED <<conn, registered>>, lost \subseteq lost',
             \A l \in lost : down'[l] = down[l]
      PROVE  LinksInv'
  BY <1>1 DEF LinksInv
<1>2. CASE (\E p \in Players : Login(p)) \/ \E e \in entries, d \in BOOLEAN : SetMode(e, d)
  <2>1. lost' = lost
    BY <1>2 DEF Login, SetMode
  <2>2. UNCHANGED <<conn, registered>>
    BY <1>2, ServerKeeps DEF villageVars
  <2>3. \A l \in lost : down'[l] = down[l]
    <3>1. CASE down' = down
      BY <3>1
    <3>2. CASE \E k \in Links : ServerSends(k)
      BY <1>0, <3>2, ServerSendsIs DEF Alive
    <3> QED BY <1>2, <3>1, <3>2, ClientSends
  <2> QED BY <1>1, <2>1, <2>2, <2>3
<1>3. ASSUME NEW k \in Links, Recv(k) PROVE LinksInv'
  <2>1. UNCHANGED <<conn, registered>>
    BY <1>3, ServerKeeps DEF villageVars
  <2>2. lost \subseteq lost' /\ ServerSends(k)
    BY <1>3, RecvSends
  <2>3. \A l \in lost : down'[l] = down[l]
    BY <1>0, <2>2, ServerSendsIs DEF Alive
  <2> QED BY <1>1, <2>1, <2>2, <2>3
<1>4. CASE Sweep \/ \E k \in Links : Gone(k) \/ Break(k)
  <2>1. UNCHANGED <<conn, registered>>
    BY <1>4, ServerKeeps DEF villageVars
  <2>2. down' = down /\ lost \subseteq lost'
    BY <1>4 DEF Sweep, Gone, Break
  <2> QED BY <1>1, <2>1, <2>2
<1>5. ASSUME NEW v \in Villages, Connect(v) PROVE LinksInv'
  <2>1. PICK k \in Links : conn' = [conn EXCEPT ![v] = k] /\ lost' = lost \ {k}
    BY <1>5 DEF Connect
  <2>2. conn[v] = 0 /\ UNCHANGED <<down, registered>>
    BY <1>5 DEF Connect, villageVars
  <2>3. \A l \in Links : (\A w \in Villages : conn'[w] # l) => l # k /\ \A w \in Villages : conn[w] # l
    BY <1>0, <2>1, <2>2
  <2>4. \A w \in Villages : registered'[w] => conn'[w] # 0
    BY <1>0, <2>1, <2>2 DEF LinksInv
  <2> QED BY <2>1, <2>2, <2>3, <2>4 DEF LinksInv
<1>6. ASSUME NEW v \in Villages, VillageStep(v) PROVE LinksInv'
  <2>1. lost' = lost \/ (conn[v] \in Links /\ lost' = lost \cup {conn[v]})
    BY <1>6, VillageLinks
  <2>2. \A l \in Links : conn[v] # l => down'[l] = down[l]
    BY <1>0, <1>6, VillageLinks
  <2>3. \/ conn' = conn
        \/ /\ conn' = [conn EXCEPT ![v] = 0]
           /\ conn[v] # 0 => conn[v] \in lost' /\ down' = [down EXCEPT ![conn[v]] = <<>>]
    BY <1>6, VillageLinks
  <2>4. ASSUME NEW l \in Links, \A w \in Villages : conn'[w] # l
        PROVE  l \in lost' /\ down'[l] = <<>>
    <3>1. CASE conn' = conn
      BY <2>1, <2>2, <2>4, <3>1 DEF LinksInv
    <3>2. CASE /\ conn' = [conn EXCEPT ![v] = 0]
               /\ conn[v] # 0 => conn[v] \in lost' /\ down' = [down EXCEPT ![conn[v]] = <<>>]
      <4>1. CASE conn[v] = l
        BY <1>0, <3>2, <4>1
      <4>2. CASE conn[v] # l
        <5>1. \A w \in Villages : conn[w] # l
          BY <1>0, <2>4, <3>2, <4>2
        <5> QED BY <2>1, <2>2, <4>2, <5>1 DEF LinksInv
      <4> QED BY <4>1, <4>2
    <3> QED BY <2>3, <3>1, <3>2
  <2>5. ASSUME NEW w \in Villages, registered'[w] PROVE conn'[w] # 0
    <3>1. conn[w] # 0
      BY <1>0, <1>6, <2>5, RegisteredHow, TakesFromLink DEF LinksInv
    <3>2. conn' = conn \/ w # v
      BY <1>6, <2>5, HungUp
    <3> QED BY <1>0, <2>3, <3>1, <3>2
  <2> QED BY <2>4, <2>5 DEF LinksInv
<1>7. CASE UNCHANGED vars
  BY <1>1, <1>7 DEF vars, villageVars
<1> QED BY <1>2, <1>3, <1>4, <1>5, <1>6, <1>7 DEF Next, S2s, Router, VillageStep

-----------------------------------------------------------------------------
(* A Register is the first message of a connection *)

\* A message that is sent is put behind the others.
LEMMA SentMessages ==
    ASSUME Typed, NEW l \in Links, NEW m \in DownMessages, down' = Sent(down, l, m), NEW k \in Links
    PROVE  \A x \in Msgs(down'[k]) : x \in Msgs(down[k]) \/ (k = l /\ x = m)
<1>1. down \in [Links -> Seq(DownMessages)]
  BY DEF Typed, LinksTyped
<1>2. down'[k] = IF k = l /\ Alive(l) THEN Append(down[l], m) ELSE down[k]
  <2> QED BY <1>1, SentIs
<1>3. Msgs(Append(down[l], m)) = Msgs(down[l]) \cup {m}
  <2> QED BY <1>1, QueueAppend
<1> QED BY <1>2, <1>3

\* Entries get a connection when it registers, and only then.
LEMMA ConnsStep ==
    ASSUME Typed, TableInv, [Next]_vars, NEW l \in Links, ByConn(l) = {},
           \A host \in Villages : ~Registers(l, host)
    PROVE  ByConn(l)' = {}
<1>0. \A e \in entries : e.conn # l
  BY DEF ByConn
<1> SUFFICES \A e \in entries' : e.conn # l
  BY DEF ByConn
<1>1. CASE QuietTable
  BY <1>0, <1>1 DEF QuietTable, Relabels
<1>2. CASE \E v \in Villages : Connect(v)
  BY <1>0, <1>2 DEF Connect, registryVars
<1>3. CASE \E k \in Links : Unregisters(k)
  BY <1>0, <1>3 DEF Unregisters, OnUnregister, Unregistered
<1>4. CASE \E k \in Links : Gone(k)
  BY <1>0, <1>4, GoneDetaches DEF Relabels
<1>5. CASE \E e \in entries : SweepsOrphan(e)
  BY <1>0, <1>5 DEF SweepsOrphan, SweepOrphan
<1>6. ASSUME NEW k \in Links, NEW host \in Villages, Registers(k, host)
      PROVE  \A e \in entries' : e.conn # l
  <2>1. k # l
    BY <1>6
  <2>2. \A e \in entries : [e EXCEPT !.conn = k, !.link = k, !.orphan = 0].conn = k
    BY DEF Typed, EntriesTyped, EntryRecords
  <2>3. NewEntry(k, host).conn = k
    BY DEF NewEntry
  <2>4. \A e \in entries' : e \in entries \/ e.conn = k
    <3>1. CASE entries' = entries
      BY <3>1
    <3>2. CASE \E e \in entries :
                 entries' = Updated(e, [e EXCEPT !.conn = k, !.link = k, !.orphan = 0])
      BY <2>2, <3>2 DEF Updated
    <3>3. CASE entries' = entries \cup {NewEntry(k, host)}
      BY <2>3, <3>3
    <3> QED BY <1>6, <3>1, <3>2, <3>3, RegistersHow
  <2> QED BY <1>0, <2>1, <2>4
<1> QED BY <1>1, <1>2, <1>3, <1>4, <1>5, <1>6, TableMoves

\* Where no Register is, there is nothing to say.
LEMMA NoRegister ==
    ASSUME NEW l, \A m \in Msgs(up[l])' : m.type # "Register", Later(up[l])' \subseteq Msgs(up[l])'
    PROVE  First(l)'
BY DEF First, Has

\* What keeps a Register first: nothing but others is put behind it, and nothing
\* comes of the connection.
LEMMA StaysFirst ==
    ASSUME NEW l \in Links, First(l),
           \A m \in Msgs(up[l])' : m \in Msgs(up[l]) \/ m.type # "Register",
           \A m \in Later(up[l])' : m \in Later(up[l]) \/ m.type # "Register",
           Has(up[l], {"Register"}) =>
             /\ \A m \in Msgs(up[l])' : m \in Msgs(up[l]) \/ m.type # "ReserveAck"
             /\ \A m \in Msgs(down[l])' :
                   m \in Msgs(down[l]) \/ m.type \notin {"RegisterAck", "Reserve"}
             /\ ByConn(l)' = {}
             /\ \A v \in Villages : conn'[v] = l /\ registered'[v] => conn[v] = l /\ registered[v]
    PROVE  First(l)'
BY DEF First, Has

LEMMA RegisterTaken ==
    ASSUME Typed, NEW l \in Links, up'[l] = up[l]
    PROVE  \A host \in Villages : ~Registers(l, host)
<1> SUFFICES ASSUME NEW host \in Villages, Registers(l, host) PROVE FALSE
  OBVIOUS
<1>0. up \in [Links -> Seq(UpMessages)]
  BY DEF Typed, LinksTyped
<1>1. up' = [up EXCEPT ![l] = Tail(@)] /\ up[l] # <<>>
  BY DEF Registers, OnRegister, Received
<1>2. up[l] \in Seq(UpMessages) /\ up'[l] = Tail(up[l])
  BY <1>0, <1>1
<1>3. Len(Tail(up[l])) = Len(up[l]) - 1 /\ Len(up[l]) \in Nat
  BY <1>1, <1>2, HeadTailProperties, EmptySeq
<1>4. Tail(up[l]) = up[l]
  BY <1>2
<1>5. Len(up[l]) = Len(up[l]) - 1
  BY <1>3, <1>4, Zenon
<1> QED BY <1>3, <1>5

\* A Reserve goes out over the link of an entry, and no RegisterAck by itself.
LEMMA RequestsAre ==
    ASSUME Typed, TableInv, NEW l \in Links, \A e \in entries : e.link # l,
           (\E p \in Players : Login(p)) \/ \E e \in entries, d \in BOOLEAN : SetMode(e, d)
    PROVE  \A m \in Msgs(down'[l]) :
             m \in Msgs(down[l]) \/ m.type \notin {"RegisterAck", "Reserve"}
<1>0. /\ \A p \in Players : record[p] \in Nat
      /\ \A k \in Links : asked[k].next \in Nat
      /\ \A e \in entries : e.link \in Links \cup {0}
      /\ nextIssue \in Nat
  <2>1. \A k \in Links : asked[k] \in Rows
    BY DEF Typed, ServerTyped
  <2>2. \A k \in Links : asked[k].next \in Nat
    BY <2>1, RowIs
  <2> QED BY <2>2 DEF Typed, EntriesTyped, EntryRecords, ServerTyped
<1> DEFINE Goal == \A m \in Msgs(down'[l]) :
                     m \in Msgs(down[l]) \/ m.type \notin {"RegisterAck", "Reserve"}
<1>1. ASSUME NEW p \in Players, Login(p) PROVE Goal
  <2>1. ASSUME NEW e \in entries, e.link \in Links, KickSent(e.link, p, record[p]) PROVE Goal
    <3>1. [type |-> "Kick", player |-> p, seq |-> asked[e.link].next] \in DownMessages
      BY <1>0, <2>1, MessagesTyped
    <3>2. \A x \in Msgs(down'[l]) : x \in Msgs(down[l])
             \/ x = [type |-> "Kick", player |-> p, seq |-> asked[e.link].next]
      BY <2>1, <3>1, SentMessages DEF KickSent
    <3> QED BY <3>2
  <2>2. ASSUME NEW e \in entries, e.link \in Links, ReserveSent(e.link, p, e.id) PROVE Goal
    <3>1. [type |-> "Reserve", player |-> p, seq |-> asked[e.link].next, issue |-> nextIssue]
            \in DownMessages
      BY <1>0, <2>2, MessagesTyped
    <3>2. \A x \in Msgs(down'[l]) : x \in Msgs(down[l])
      BY <2>2, <3>1, SentMessages DEF ReserveSent
    <3> QED BY <3>2
  <2>3. CASE down' = down
    BY <2>3
  <2>4. CASE \E e \in entries : e.link \in Links /\ KickSent(e.link, p, record[p])
    BY <2>1, <2>4
  <2>5. CASE \E e \in entries : e.link \in Links /\ ReserveSent(e.link, p, e.id)
    BY <2>2, <2>5
  <2>6. \/ down' = down
        \/ \E e \in entries : e.link \in Links /\ KickSent(e.link, p, record[p])
        \/ \E e \in entries : e.link \in Links /\ ReserveSent(e.link, p, e.id)
    BY <1>1, LoginHow
  <2> QED BY <2>3, <2>4, <2>5, <2>6
<1>2. ASSUME NEW e \in entries, NEW d \in BOOLEAN, SetMode(e, d) PROVE Goal
  <2>1. [type |-> "SetMode", drain |-> d] \in DownMessages
    BY MessagesTyped
  <2>2. \/ down' = down
        \/ (e.link \in Links /\ down' = Sent(down, e.link, [type |-> "SetMode", drain |-> d]))
    BY <1>0, <1>2 DEF SetMode
  <2>3. \A x \in Msgs(down'[l]) : x \in Msgs(down[l]) \/ x = [type |-> "SetMode", drain |-> d]
    BY <2>1, <2>2, SentMessages
  <2> QED BY <2>3
<1> QED BY <1>1, <1>2

LEMMA TakenOff ==
    ASSUME Typed, NEW l \in Links, NEW v \in Villages, VillageStep(v)
    PROVE  down'[l] \in {down[l], <<>>} \/ (down[l] # <<>> /\ down'[l] = Tail(down[l]))
<1>0. down \in [Links -> Seq(DownMessages)]
  BY DEF Typed, LinksTyped
<1>1. CASE conn[v] \in Links /\ down' = [down EXCEPT ![conn[v]] = <<>>]
  BY <1>0, <1>1
<1>2. CASE conn[v] \in Links /\ down[conn[v]] # <<>> /\ down' = [down EXCEPT ![conn[v]] = Tail(@)]
  BY <1>0, <1>2
<1>3. CASE down' = down
  BY <1>3
<1> QED BY <1>1, <1>2, <1>3, VillageLinks

LEMMA FirstStep ==
    ASSUME Typed, TableInv, LinksInv, FirstInv, [Next]_vars
    PROVE  FirstInv'
<1> SUFFICES ASSUME NEW l \in Links PROVE First(l)'
  BY DEF FirstInv
<1>0. /\ First(l) /\ up \in [Links -> Seq(UpMessages)] /\ down \in [Links -> Seq(DownMessages)]
      /\ conn \in [Villages -> Links \cup {0}] /\ 0 \notin Links
      /\ \A v, w \in Villages : v # w /\ conn[v] = conn[w] => conn[v] = 0
  BY ClusterAssumption DEF FirstInv, Typed, LinksTyped, VillagesTyped, Links
<1>1. \A k \in Links, host \in Villages : Registers(k, host) => Recv(k)
  BY UpKinds, HeadTailProperties DEF Registers, Recv
<1>2. ASSUME (\E p \in Players : Login(p)) \/ \E e \in entries, d \in BOOLEAN : SetMode(e, d)
      PROVE  First(l)'
  <2>1. up' = up
    BY <1>2 DEF Login, SetMode
  <2>2. UNCHANGED <<conn, registered>>
    BY <1>2, ServerKeeps DEF villageVars
  <2>3. \A host \in Villages : ~Registers(l, host)
    BY <2>1, RegisterTaken
  <2>4. ASSUME Has(up[l], {"Register"})
        PROVE  /\ ByConn(l)' = {}
               /\ \A m \in Msgs(down[l])' :
                     m \in Msgs(down[l]) \/ m.type \notin {"RegisterAck", "Reserve"}
    <3>1. ByConn(l) = {}
      BY <1>0, <2>4 DEF First
    <3>2. ByConn(l)' = {}
      BY <2>3, <3>1, ConnsStep
    <3>3. \A e \in entries : e.conn # l
      BY <3>1 DEF ByConn
    <3>4. l # 0 /\ \A e \in entries : e.link \in {0, e.conn}
      BY <1>0 DEF TableInv
    <3>5. \A e \in entries : e.link # l
      BY <3>3, <3>4
    <3> QED BY <1>2, <3>2, <3>5, RequestsAre
  <2> QED BY <1>0, <2>1, <2>2, <2>4, StaysFirst
<1>3. ASSUME NEW k \in Links, Recv(k) PROVE First(l)'
  <2>1. up' = [up EXCEPT ![k] = Tail(@)] /\ up[k] # <<>>
    BY <1>3 DEF Recv, FromVillage, OnRegister, OnHeartbeat, OnUnregister, OnPlayer, OnFullSync,
                OnReserveAck, OnKickAck, Received
  <2>2. UNCHANGED <<conn, registered>>
    BY <1>3, ServerKeeps DEF villageVars
  <2>3. CASE k = l
    <3>1. /\ Msgs(Tail(up[l])) = Later(up[l]) /\ Later(Tail(up[l])) \subseteq Later(up[l])
      BY <1>0, <2>1, <2>3, QueueTail
    <3>2. up'[l] = Tail(up[l])
      BY <1>0, <2>1, <2>3
    <3>3. \A m \in Msgs(up'[l]) : m.type # "Register"
      BY <1>0, <3>1, <3>2 DEF First
    <3>4. Later(up'[l]) \subseteq Msgs(up'[l])
      BY <3>1, <3>2
    <3> QED BY <3>3, <3>4, NoRegister DEF Msgs, Later
  <2>4. CASE k # l
    <3>1. up'[l] = up[l]
      BY <1>0, <2>1, <2>4
    <3>2. down'[l] = down[l]
      BY <1>3, <2>4, RecvSends, ServerSendsIs
    <3>3. \A host \in Villages : ~Registers(l, host)
      BY <3>1, RegisterTaken
    <3>4. Has(up[l], {"Register"}) => ByConn(l)' = {}
      BY <1>0, <3>3, ConnsStep DEF First
    <3> QED BY <1>0, <2>2, <3>1, <3>2, <3>4, StaysFirst
  <2> QED BY <2>3, <2>4, SMTT(60)
<1>4. ASSUME NEW k \in Links, Gone(k) PROVE First(l)'
  <2>1. UNCHANGED <<conn, registered, down>>
    BY <1>4 DEF Gone, villageVars
  <2>2. CASE up' = up
    <3>1. \A host \in Villages : ~Registers(l, host)
      BY <2>2, RegisterTaken
    <3>2. Has(up[l], {"Register"}) => ByConn(l)' = {}
      BY <1>0, <3>1, ConnsStep DEF First
    <3> QED BY <1>0, <2>1, <2>2, <3>2, StaysFirst
  <2>3. CASE up' = [up EXCEPT ![k] = <<>>]
    <3>1. CASE k = l
      <4>1. up'[l] = <<>>
        BY <1>0, <2>3, <3>1
      <4> QED BY <4>1, EmptyQueue, NoRegister
    <3>2. CASE k # l
      <4>1. up'[l] = up[l]
        BY <1>0, <2>3, <3>2
      <4>2. \A host \in Villages : ~Registers(l, host)
        BY <4>1, RegisterTaken
      <4>3. Has(up[l], {"Register"}) => ByConn(l)' = {}
        BY <1>0, <4>2, ConnsStep DEF First
      <4> QED BY <1>0, <2>1, <4>1, <4>3, StaysFirst
    <3> QED BY <3>1, <3>2
  <2> QED BY <1>4, <2>2, <2>3 DEF Gone
<1>5. CASE UNCHANGED vars \/ Sweep \/ \E k \in Links : Break(k)
  <2>1. UNCHANGED <<conn, registered, up, down>>
    BY <1>5 DEF vars, villageVars, Sweep, Break
  <2>2. \A host \in Villages : ~Registers(l, host)
    BY <2>1, RegisterTaken
  <2>3. Has(up[l], {"Register"}) => ByConn(l)' = {}
    BY <1>0, <2>2, ConnsStep DEF First
  <2> QED BY <1>0, <2>1, <2>3, StaysFirst
<1>6. ASSUME NEW v \in Villages, Connect(v) PROVE First(l)'
  <2>1. PICK k \in Links : /\ Unused(k) /\ conn' = [conn EXCEPT ![v] = k]
                           /\ up' = [up EXCEPT ![k] = <<[type |-> "Register", host |-> v]>>]
    BY <1>6 DEF Connect
  <2>2. conn[v] = 0 /\ UNCHANGED <<entries, down, registered>>
    BY <1>6 DEF Connect, registryVars, villageVars
  <2>3. CASE k = l
    <3>1. up'[l] = <<[type |-> "Register", host |-> v]>>
      BY <1>0, <2>1, <2>3
    <3>2. Msgs(up'[l]) = {[type |-> "Register", host |-> v]} /\ Later(up'[l]) = {}
      BY <3>1, OneMessage
    <3>3. down[l] = <<>> /\ ByConn(l)' = {}
      BY <2>1, <2>2, <2>3 DEF Unused, LinksInv, ByConn
    <3>4. ~registered[v] /\ \A w \in Villages : w # v => conn'[w] # l
      BY <1>0, <2>1, <2>2, <2>3 DEF LinksInv, Unused
    <3>5. Msgs(down'[l]) = {}
      BY <2>2, <3>3, EmptyQueue
    <3> QED BY <2>2, <3>2, <3>3, <3>4, <3>5 DEF First, Has
  <2>4. CASE k # l
    <3>1. up'[l] = up[l] /\ ByConn(l)' = ByConn(l)
      BY <1>0, <2>1, <2>2, <2>4 DEF ByConn
    <3>2. \A w \in Villages : conn'[w] = l => conn[w] = l
      BY <1>0, <2>1, <2>4
    <3> QED BY <1>0, <2>2, <3>1, <3>2, StaysFirst DEF First
  <2> QED BY <2>3, <2>4
<1>7. ASSUME NEW v \in Villages, VillageStep(v) PROVE First(l)'
  <2>1. ByConn(l)' = ByConn(l)
    BY <1>7, VillageKeeps DEF registryVars, ByConn
  <2>2. \A w \in Villages : conn'[w] = l => conn[w] = l
    <3>1. conn' = conn \/ conn' = [conn EXCEPT ![v] = 0]
      BY <1>7, VillageLinks
    <3> QED BY <1>0, <3>1
  <2>3. /\ \A m \in Msgs(down[l])' : m \in Msgs(down[l])
    <3>1. down'[l] \in {down[l], <<>>} \/ (down[l] # <<>> /\ down'[l] = Tail(down[l]))
      BY <1>7, TakenOff
    <3>2. down[l] # <<>> => Msgs(Tail(down[l])) \subseteq Msgs(down[l])
      <4> QED BY <1>0, QueueTail
    <3> QED BY <3>1, <3>2, EmptyQueue
  <2>4. ASSUME NEW t, t = Head(down[l]).type, Take(v), conn[v] = l
        PROVE  Has(down[l], {t}) /\ down[l] # <<>>
    <3>1. down[l] # <<>>
      BY <2>4 DEF Take
    <3> QED BY <1>0, <2>4, <3>1, QueueTail DEF Has
  <2>5. Has(up[l], {"Register"}) =>
          \A w \in Villages : conn'[w] = l /\ registered'[w] => conn[w] = l /\ registered[w]
    BY <1>0, <1>7, <2>2, <2>4, RegisteredHow DEF First, Has
  <2>6. CASE up'[l] = up[l]
    BY <1>0, <2>1, <2>3, <2>5, <2>6, StaysFirst DEF First
  <2>7. ASSUME NEW m \in UpMessages, m.type # "Register", up'[l] = Append(up[l], m),
               m.type = "ReserveAck" => ~Has(up[l], {"Register"})
        PROVE  First(l)'
    <3>1. /\ Msgs(up'[l]) = Msgs(up[l]) \cup {m}
          /\ Later(up'[l]) \subseteq Later(up[l]) \cup {m}
      <4> QED BY <1>0, <2>7, QueueAppend
    <3> QED BY <1>0, <2>1, <2>3, <2>5, <2>7, <3>1, StaysFirst DEF First
  <2>8. CASE \E m \in UpMessages : ToServer(v, m) /\ m.type \notin {"Register", "ReserveAck"}
    <3>1. PICK m \in UpMessages : ToServer(v, m) /\ m.type \notin {"Register", "ReserveAck"}
      BY <2>8
    <3>2. up'[l] \in {up[l], Append(up[l], m)}
      BY <3>1, ToServerIs
    <3> QED BY <2>6, <2>7, <3>1, <3>2
  <2>9. CASE /\ Take(v) /\ Head(down[conn[v]]).type = "Reserve"
             /\ TakeReserve(v, Head(down[conn[v]]))
    <3> DEFINE m == [type |-> "ReserveAck", seq |-> Head(down[conn[v]]).seq, ok |-> ~drain[v]]
    <3>1. m \in UpMessages /\ ToServer(v, m)
      BY <2>9, AckIs DEF TakeReserve
    <3>2. m.type = "ReserveAck"
      OBVIOUS
    <3> HIDE DEF m
    <3>3. CASE conn[v] # l
      <4>1. up'[l] = up[l]
        BY <3>1, <3>3, ToServerIs
      <4> QED BY <2>6, <4>1
    <3>4. CASE conn[v] = l
      <4>1. up'[l] \in {up[l], Append(up[l], m)}
        BY <3>1, ToServerIs
      <4>2. ~Has(up[l], {"Register"})
        BY <1>0, <2>4, <2>9, <3>4 DEF First, Has
      <4> QED BY <2>6, <2>7, <3>1, <3>2, <4>1, <4>2
    <3> QED BY <3>3, <3>4
  <2>10. CASE conn[v] \in Links /\ up' = [up EXCEPT ![conn[v]] = @ \o FullSync(v)]
    <3>1. CASE conn[v] # l
      <4>1. up'[l] = up[l]
        BY <1>0, <2>10, <3>1
      <4> QED BY <2>6, <4>1
    <3>2. CASE conn[v] = l
      <4>1. up'[l] = up[l] \o FullSync(v)
        BY <1>0, <2>10, <3>2
      <4>2. FullSync(v) \in Seq(UpMessages) /\ \A m \in Msgs(FullSync(v)) : m.type = "FullSync"
        BY FullSyncIs
      <4>3. /\ Msgs(up'[l]) = Msgs(up[l]) \cup Msgs(FullSync(v))
            /\ Later(up'[l]) \subseteq Later(up[l]) \cup Msgs(FullSync(v))
        <5> QED BY <1>0, <4>1, <4>2, QueueConcat
      <4> QED BY <1>0, <2>1, <2>3, <2>5, <4>2, <4>3, StaysFirst DEF First
    <3> QED BY <3>1, <3>2
  <2> QED BY <1>7, <2>6, <2>8, <2>9, <2>10, VillageSends
<1> QED BY <1>2, <1>3, <1>4, <1>5, <1>6, <1>7 DEF Next, S2s, Router, VillageStep

-----------------------------------------------------------------------------
(* Ghosts *)

LEMMA InitGhost == Init => GhostInv
<1> SUFFICES ASSUME Init, NEW v \in Villages, NEW p \in Players, Linked(v) PROVE Awaited(v, p)
  BY DEF GhostInv
<1>1. conn[v] \in Links /\ up[conn[v]] = <<>>
  <2>1. conn[v] \in Links
    BY InitTyped DEF Typed, VillagesTyped, Linked
  <2> QED BY <2>1 DEF Init
<1>2. \A e \in entries : e.id \in Nat \ {0} /\ record[p] = 0
  <2>1. record[p] = 0
    BY DEF Init
  <2> QED BY <2>1, InitTyped DEF Typed, EntriesTyped, EntryRecords
<1> QED BY <1>1, <1>2, EmptyQueue DEF Awaited, ByConn

\* What a message does to the record of a player.
LEMMA RecvRecord ==
    ASSUME Typed, TableInv, NEW l \in Links, Recv(l), NEW p \in Players, record'[p] # 0
    PROVE  /\ Adds(Head(up[l]), p) \/ record'[p] = record[p]
           /\ Clears(Head(up[l]), p) => IdOf(l) = 0 \/ record'[p] # IdOf(l)
           /\ record'[p] \in {record[p], IdOf(l)}
<1> DEFINE m == Head(up[l])
<1>0. /\ m \in UpMessages /\ record \in [Players -> Nat]
      /\ up[l] # <<>> /\ IdOf(l) \in Nat
  <2>1. m \in UpMessages /\ up[l] # <<>>
    BY HeadTailProperties DEF Recv, Typed, LinksTyped
  <2>2. IdOf(l) \in Nat /\ record \in [Players -> Nat]
    BY TheEntry DEF Typed, EntriesTyped, ServerTyped
  <2> QED BY <2>1, <2>2
<1>1. CASE m.type \in {"Register", "Heartbeat", "ReserveAck"} /\ record' = record
  BY <1>1 DEF Clears
<1>2. CASE m.type = "Unregister" /\ OnUnregister(l)
  <2>1. record' = record \/ record' = Forget(IdOf(l))
    BY <1>2 DEF OnUnregister, Unregistered
  <2> QED BY <1>2, <2>1 DEF Clears, Forget
<1>3. CASE m.type \in {"PlayerEnter", "PlayerLeave"} /\ OnPlayer(l, m.player, m.type = "PlayerEnter")
  <2>1. \/ record' = record /\ IdOf(l) = 0
        \/ record' = [record EXCEPT ![m.player] = PlayerRecord(m.player, IdOf(l), m.type = "PlayerEnter")]
    BY <1>3 DEF OnPlayer
  <2>2. CASE record' = record /\ IdOf(l) = 0
    BY <2>2
  <2>3. CASE m.player # p
    <3>1. record'[p] = record[p] /\ ~Clears(m, p)
      BY <1>0, <1>3, <2>1, <2>3 DEF Clears
    <3> QED BY <3>1
  <2>4. CASE m.type = "PlayerEnter" /\ m.player = p
            /\ record' = [record EXCEPT ![p] = PlayerRecord(p, IdOf(l), TRUE)]
    <3>1. record'[p] = IdOf(l) /\ Adds(m, p) /\ ~Clears(m, p)
      BY <1>0, <2>4 DEF PlayerRecord, Adds, Clears
    <3> QED BY <3>1
  <2>5. CASE m.type = "PlayerLeave" /\ m.player = p
            /\ record' = [record EXCEPT ![p] = PlayerRecord(p, IdOf(l), FALSE)]
    <3>1. record'[p] = record[p] /\ record[p] # IdOf(l)
      BY <1>0, <2>5 DEF PlayerRecord
    <3> QED BY <3>1
  <2>6. m.type = "PlayerEnter" => (m.type = "PlayerEnter") = TRUE
    OBVIOUS
  <2>7. m.type = "PlayerLeave" => (m.type = "PlayerEnter") = FALSE
    OBVIOUS
  <2> QED BY <1>3, <2>1, <2>2, <2>3, <2>4, <2>5, <2>6, <2>7
<1>4. CASE m.type = "FullSync" /\ OnFullSync(l, m.first, m.ids)
  <2> DEFINE base == Cleared(IdOf(l), m.first)
  <2>1. \/ record' = record /\ IdOf(l) = 0
        \/ record' = Synced(base, IdOf(l), m.ids)
    BY <1>4 DEF OnFullSync
  <2>2. base[p] = IF m.first /\ record[p] = IdOf(l) THEN 0 ELSE record[p]
    <3>1. m.first \in BOOLEAN
      BY <1>0, <1>4, UpKinds
    <3>2. CASE m.first
      BY <1>0, <3>2 DEF Cleared, Forget
    <3>3. CASE ~m.first
      BY <1>0, <3>3 DEF Cleared
    <3> QED BY <3>1, <3>2, <3>3
  <2> HIDE DEF base
  <2>3. CASE record' = record /\ IdOf(l) = 0
    BY <2>3
  <2>4. CASE record'[p] = IdOf(l) /\ p \in m.ids
    BY <1>4, <2>4 DEF Adds, Clears
  <2>5. CASE record'[p] = base[p]
    <3>1. record'[p] = record[p]
      BY <2>2, <2>5
    <3>2. m.first => record[p] # IdOf(l)
      BY <2>2, <2>5
    <3> QED BY <1>4, <3>1, <3>2 DEF Clears
  <2> QED BY <2>1, <2>3, <2>4, <2>5 DEF Synced
<1>5. CASE m.type = "KickAck" /\ OnKickAck(l, m.seq, m.kicked)
  BY <1>5 DEF OnKickAck, Clears
<1>6. m.type = "Register" /\ OnRegister(l, m.host) => record' = record
  BY DEF OnRegister
<1>7. m.type = "Heartbeat" /\ OnHeartbeat(l) => record' = record
  BY DEF OnHeartbeat
<1>8. m.type = "ReserveAck" /\ OnReserveAck(l, m.seq, m.ok) => record' = record
  BY DEF OnReserveAck
<1> QED BY <1>1, <1>2, <1>3, <1>4, <1>5, <1>6, <1>7, <1>8 DEF Recv

\* Who is on record for the entry of a connection was so before.
LEMMA OnRecordBefore ==
    ASSUME Typed, TableInv, [Next]_vars, NEW l \in Links, NEW p \in Players,
           NEW e \in ByConn(l)', record'[p] = e.id, \A host \in Villages : ~Registers(l, host)
    PROVE  \E d \in ByConn(l) : d.id = e.id /\ (record[p] = e.id \/ Recv(l))
<1>0. e \in entries' /\ e.conn = l /\ nextId \in Nat \ {0}
      /\ \A d \in entries : d.conn \in Links /\ d.id \in 1..nextId - 1
  BY DEF ByConn, Typed, EntriesTyped, EntryRecords
<1>1. \E d \in ByConn(l) : d.id = e.id
  <2>1. CASE QuietTable
    BY <1>0, <2>1 DEF QuietTable, Relabels, ByConn
  <2>2. CASE \E v \in Villages : Connect(v)
    BY <1>0, <2>2 DEF Connect, registryVars, ByConn
  <2>3. CASE \E k \in Links : Unregisters(k)
    BY <1>0, <2>3 DEF Unregisters, OnUnregister, Unregistered, ByConn
  <2>4. CASE \E k \in Links : Gone(k)
    BY <1>0, <2>4, GoneDetaches DEF Relabels, ByConn
  <2>5. CASE \E d \in entries : SweepsOrphan(d)
    BY <1>0, <2>5 DEF SweepsOrphan, SweepOrphan, ByConn
  <2>6. ASSUME NEW k \in Links, NEW host \in Villages, Registers(k, host)
        PROVE  \E d \in ByConn(l) : d.id = e.id
    <3>1. k # l
      BY <2>6
    <3>2. \A d \in entries : [d EXCEPT !.conn = k, !.link = k, !.orphan = 0].conn = k
      BY DEF Typed, EntriesTyped, EntryRecords
    <3>3. NewEntry(k, host).conn = k
      BY DEF NewEntry
    <3>4. e \in entries
      <4>1. CASE entries' = entries
        BY <1>0, <4>1
      <4>2. CASE \E d \in entries :
                   entries' = Updated(d, [d EXCEPT !.conn = k, !.link = k, !.orphan = 0])
        BY <1>0, <3>1, <3>2, <4>2 DEF Updated
      <4>3. CASE entries' = entries \cup {NewEntry(k, host)}
        BY <1>0, <3>1, <3>3, <4>3
      <4> QED BY <2>6, <4>1, <4>2, <4>3, RegistersHow
    <3> QED BY <1>0, <3>4 DEF ByConn
  <2> QED BY <2>1, <2>2, <2>3, <2>4, <2>5, <2>6, TableMoves
<1>2. e.id # 0
  BY <1>0, <1>1 DEF ByConn
<1>3. record[p] = e.id \/ Recv(l)
  <2>1. CASE record' = record
    BY <2>1
  <2>2. ASSUME NEW k \in Links, Recv(k) PROVE record[p] = e.id \/ Recv(l)
    <3>1. CASE k = l
      BY <2>2, <3>1
    <3>2. CASE k # l
      <4>1. record'[p] \in {record[p], IdOf(k)}
        BY <1>2, <2>2, RecvRecord
      <4>2. IdOf(k) # e.id
        <5>1. PICK d \in ByConn(l) : d.id = e.id
          BY <1>1
        <5>2. CASE ByConn(k) = {}
          BY <1>2, <5>2, TheEntry
        <5>3. ASSUME NEW c \in ByConn(k) PROVE IdOf(k) # e.id
          <6>1. IdOf(k) = c.id /\ c \in entries /\ c.conn = k /\ d \in entries /\ d.conn = l
            BY <5>1, TheEntry DEF ByConn
          <6> QED BY <3>2, <5>1, <6>1 DEF TableInv
        <5> QED BY <5>2, <5>3
      <4> QED BY <4>1, <4>2
    <3> QED BY <3>1, <3>2
  <2>3. CASE Sweep
    <3>1. record' = record \/ \E d \in entries : record' = Forget(d.id)
      BY <2>3 DEF Sweep, SweepOrphan, SweepAsked, SweepParting
    <3> QED BY <1>2, <3>1 DEF Forget
  <2>4. CASE \E q \in Players : Login(q)
    BY <2>1, <2>4 DEF Login
  <2>5. CASE \E d \in entries, b \in BOOLEAN : SetMode(d, b)
    BY <2>1, <2>5 DEF SetMode
  <2>6. CASE \E k \in Links : Gone(k) \/ Break(k)
    BY <2>1, <2>6 DEF Gone, Break, registryVars
  <2>7. CASE \E v \in Villages : Connect(v) \/ VillageStep(v)
    BY <2>1, <2>7, VillageKeeps DEF Connect, registryVars
  <2>8. CASE UNCHANGED vars
    BY <2>1, <2>8 DEF vars, registryVars
  <2> QED BY <2>2, <2>3, <2>4, <2>5, <2>6, <2>7, <2>8 DEF Next, S2s, Router, VillageStep
<1> QED BY <1>1, <1>3

\* A message of a village leaves what is awaited of the server as it is, or is it.
LEMMA AwaitedStill ==
    ASSUME Typed, NEW v \in Villages, NEW p \in Players, NEW m \in UpMessages, ToServer(v, m),
           conn[v] \in Links, Alive(conn[v]), UNCHANGED <<conn, entries, record>>,
           Clears(m, p) \/ (~Adds(m, p) /\ Awaited(v, p))
    PROVE  Awaited(v, p)'
<1>1. up[conn[v]] \in Seq(UpMessages) /\ up'[conn[v]] = Append(up[conn[v]], m)
  BY ToServerIs DEF Typed, LinksTyped
<1>2. /\ ClearedLast(up'[conn[v]], p)
      /\ Clears(m, p) \/ ClearedIn(up[conn[v]], p) => ClearedIn(up'[conn[v]], p)
  BY <1>1, QueueAppend DEF Awaited
<1> QED BY <1>2 DEF Awaited, ByConn

\* A step of its own village.
LEMMA GhostByVillage ==
    ASSUME Typed, LinksInv, GhostInv, NEW v \in Villages, VillageStep(v), NEW p \in Players,
           Linked(v)', roster'[v][p] = "out"
    PROVE  Awaited(v, p)'
<1>1. conn' = conn
  BY HungUp DEF Linked
<1>2. conn[v] \in Links /\ 0 \notin Links
  BY <1>1, ClusterAssumption DEF Linked, Typed, VillagesTyped, Links
<1>3. Alive(conn[v])
  <2>1. lost \subseteq lost'
    BY VillageLinks
  <2> QED BY <1>1, <2>1 DEF Linked, Alive
<1>4. UNCHANGED <<entries, record>>
  BY VillageKeeps DEF registryVars
<1>5. roster \in [Villages -> [Players -> {"out", "in", "closing"}]]
      /\ kick \in [Villages -> [player : Players, seq : Nat, there : BOOLEAN] \cup {None}]
      /\ up \in [Links -> Seq(UpMessages)] /\ down \in [Links -> Seq(DownMessages)]
      /\ registered \in [Villages -> BOOLEAN] /\ drain \in [Villages -> BOOLEAN]
  BY DEF Typed, VillagesTyped, LinksTyped
<1>6. ASSUME registered[v], roster[v][p] = "out" PROVE Awaited(v, p)
  BY <1>1, <1>2, <1>3, <1>6 DEF GhostInv, Linked
<1>7. ASSUME registered[v], roster[v][p] = "out", up' = up PROVE Awaited(v, p)'
  BY <1>1, <1>4, <1>6, <1>7 DEF Awaited, ByConn
<1>8. ASSUME registered[v], roster[v][p] = "out", NEW m \in UpMessages, ToServer(v, m), ~Adds(m, p)
      PROVE  Awaited(v, p)'
  BY <1>1, <1>2, <1>3, <1>4, <1>6, <1>8, AwaitedStill
<1>9. ~Disconnected(v) /\ ~Die(v) /\ ~Stop(v)
  BY <1>5 DEF Linked, Disconnected, Unplugged, Die, Stop, Ended
<1>10. CASE Take(v)
  <2> DEFINE m == Head(down[conn[v]])
  <2>1. m \in DownMessages
    BY <1>2, <1>5, <1>10, HeadTailProperties DEF Take
  <2>2. CASE m.type = "RegisterAck" /\ TakeRegisterAck(v, m.ok)
    <3>1. up' = [up EXCEPT ![conn[v]] = @ \o FullSync(v)] /\ roster' = roster
      BY <1>1, <1>2, <1>3, <1>5, <2>2 DEF TakeRegisterAck, Unplugged, Linked
    <3> DEFINE f == FullSync(v)
    <3>2. /\ f \in Seq(UpMessages) /\ f # <<>> /\ Clears(f[1], p)
          /\ \A x \in Msgs(f) : ~Adds(x, p)
      <4>1. /\ f \in Seq(UpMessages) /\ f # <<>>
            /\ f[1].type = "FullSync" /\ f[1].first /\ f[1] \in Msgs(f)
            /\ \A x \in Msgs(f) : x.type = "FullSync" /\ p \notin x.ids
        BY <3>1, FullSyncIs
      <4> HIDE DEF f
      <4>2. \A x \in Msgs(f) : ~Adds(x, p)
        BY <4>1 DEF Adds
      <4>3. Clears(f[1], p)
        BY <4>1 DEF Clears
      <4> QED BY <4>1, <4>2, <4>3
    <3>3. up'[conn[v]] = up[conn[v]] \o f
      BY <1>2, <1>5, <3>1
    <3> HIDE DEF f
    <3>4. ClearedLast(up'[conn[v]], p) /\ ClearedIn(up'[conn[v]], p)
      BY <1>2, <1>5, <3>2, <3>3, QueueConcat
    <3> QED BY <1>1, <3>4 DEF Awaited
  <2>3. CASE m.type = "Reserve" /\ TakeReserve(v, m) /\ UNCHANGED <<registered, roster>>
    <3> DEFINE a == [type |-> "ReserveAck", seq |-> m.seq, ok |-> ~drain[v]]
    <3>1. a \in UpMessages /\ ToServer(v, a)
      BY <1>10, <2>3, AckIs DEF TakeReserve
    <3>2. ~Adds(a, p)
      BY DEF Adds
    <3> HIDE DEF a
    <3> QED BY <1>8, <2>3, <3>1, <3>2 DEF Linked
  <2>4. CASE TakeSetMode(v, m) /\ UNCHANGED <<registered, roster>>
    BY <1>7, <2>4 DEF TakeSetMode, Linked
  <2>5. CASE m.type = "Kick" /\ TakeKick(v, m) /\ UNCHANGED <<registered, roster>>
    <3>1. KickAck(m.seq, FALSE) \in UpMessages /\ ~Adds(KickAck(m.seq, FALSE), p)
      BY <2>1, <2>5, DownKinds, MessagesTyped DEF KickAck, Adds
    <3>2. up' = up \/ ToServer(v, KickAck(m.seq, FALSE))
      BY <2>5 DEF TakeKick
    <3> QED BY <1>7, <1>8, <2>5, <3>1, <3>2 DEF Linked
  <2> QED BY <1>10, <2>2, <2>3, <2>4, <2>5 DEF Take
<1>11. CASE KickClose(v)
  <2>1. kick[v] \in [player : Players, seq : Nat, there : BOOLEAN]
    BY <1>5, <1>11 DEF KickClose
  <2>2. PICK kicked \in ClosedById(v) : ToServer(v, KickAck(kick[v].seq, kicked))
    BY <1>11 DEF KickClose
  <2>3. kicked \in BOOLEAN /\ kick[v].seq \in Nat /\ kick[v].player \in Players
    BY <2>1 DEF ClosedById
  <2>4. KickAck(kick[v].seq, kicked) \in UpMessages /\ ~Adds(KickAck(kick[v].seq, kicked), p)
    BY <2>3, MessagesTyped DEF KickAck, Adds
  <2>5. registered[v] /\ roster[v][p] = "out"
    <3>1. registered' = registered
          /\ (roster' = roster \/ roster' = [roster EXCEPT ![v][kick[v].player] = "closing"])
      BY <1>11 DEF KickClose
    <3> QED BY <1>5, <2>3, <3>1 DEF Linked
  <2> QED BY <1>8, <2>2, <2>4, <2>5
<1>12. CASE Tick(v)
  <2>1. [type |-> "Heartbeat"] \in UpMessages /\ ~Adds([type |-> "Heartbeat"], p)
    BY MessagesTyped DEF Adds
  <2> QED BY <1>8, <1>12, <2>1 DEF Tick, Linked, villageVars
<1>13. CASE Quit(v)
  <2>1. [type |-> "Unregister"] \in UpMessages /\ ~Adds([type |-> "Unregister"], p)
    BY MessagesTyped DEF Adds
  <2> QED BY <1>8, <1>13, <2>1 DEF Quit, Linked
<1>14. ASSUME NEW q \in Players, Enter(v, q) PROVE Awaited(v, p)'
  <2>1. registered[v]
    BY <1>14 DEF Enter, Linked
  <2>2. CASE UNCHANGED <<roster, up>>
    BY <1>7, <2>1, <2>2
  <2>3. CASE roster' = [roster EXCEPT ![v][q] = "in"] /\ Notify(v, q, TRUE)
    <3>1. q # p /\ roster[v][p] = "out"
      BY <1>5, <2>3
    <3>2. [type |-> "PlayerEnter", player |-> q] \in UpMessages
          /\ ~Adds([type |-> "PlayerEnter", player |-> q], p)
      BY <3>1, MessagesTyped DEF Adds
    <3> QED BY <1>8, <2>1, <2>3, <3>1, <3>2 DEF Notify
  <2> QED BY <1>14, <2>2, <2>3 DEF Enter
<1>15. ASSUME NEW q \in Players, Close(v, q) PROVE Awaited(v, p)'
  <2>1. registered[v] /\ up' = up
    BY <1>15 DEF Close, Linked
  <2>2. roster[v][p] = "out"
    BY <1>5, <1>15 DEF Close
  <2> QED BY <1>7, <2>1, <2>2
<1>16. ASSUME NEW q \in Players, Leave(v, q) PROVE Awaited(v, p)'
  <2> DEFINE m == [type |-> "PlayerLeave", player |-> q]
  <2>1. registered[v] /\ m \in UpMessages /\ ToServer(v, m)
    BY <1>16, MessagesTyped DEF Leave, Linked, Notify
  <2>2. CASE q = p
    <3>1. Clears(m, p)
      BY <2>2 DEF Clears
    <3> HIDE DEF m
    <3> QED BY <1>1, <1>2, <1>3, <1>4, <2>1, <3>1, AwaitedStill
  <2>3. CASE q # p
    <3>1. roster[v][p] = "out"
      BY <1>5, <1>16, <2>3 DEF Leave
    <3>2. ~Adds(m, p)
      BY DEF Adds
    <3> HIDE DEF m
    <3> QED BY <1>8, <2>1, <3>1, <3>2
  <2> QED BY <2>2, <2>3
<1> QED BY <1>9, <1>10, <1>11, <1>12, <1>13, <1>14, <1>15, <1>16 DEF VillageStep

\* What a village does is its own.
LEMMA OthersStay ==
    ASSUME Typed, NEW w \in Villages, VillageStep(w), NEW v \in Villages, v # w
    PROVE  registered'[v] = registered[v] /\ roster'[v] = roster[v]
<1>0. roster \in [Villages -> [Players -> {"out", "in", "closing"}]]
      /\ registered \in [Villages -> BOOLEAN]
  BY DEF Typed, VillagesTyped
<1>1. CASE Disconnected(w)
  BY <1>0, <1>1 DEF Disconnected, Unplugged
<1>2. CASE Take(w)
  <2>1. CASE TakeRegisterAck(w, Head(down[conn[w]]).ok)
    BY <1>0, <2>1 DEF TakeRegisterAck, Unplugged
  <2> QED BY <1>2, <2>1 DEF Take
<1>3. CASE KickClose(w)
  <2>1. registered' = registered
        /\ (roster' = roster \/ roster' = [roster EXCEPT ![w][kick[w].player] = "closing"])
    BY <1>3 DEF KickClose
  <2> QED BY <1>0, <2>1
<1>4. CASE Tick(w) \/ Quit(w)
  BY <1>4 DEF Tick, Quit, villageVars
<1>5. CASE Die(w) \/ Stop(w)
  BY <1>0, <1>5 DEF Die, Stop, Ended
<1>6. ASSUME NEW p \in Players, Enter(w, p) \/ Close(w, p) \/ Leave(w, p)
      PROVE  registered' = registered /\ roster'[v] = roster[v]
  <2>1. /\ registered' = registered
        /\ \/ roster' = roster
           \/ \E x : roster' = [roster EXCEPT ![w][p] = x]
    BY <1>6 DEF Enter, Close, Leave
  <2> QED BY <1>0, <2>1
<1> QED BY <1>1, <1>2, <1>3, <1>4, <1>5, <1>6 DEF VillageStep

\* A message that is handled is gone.
LEMMA RecvTakes ==
    ASSUME Typed, NEW l \in Links, Recv(l)
    PROVE  up' = [up EXCEPT ![l] = Tail(@)] /\ up[l] # <<>> /\ up'[l] # up[l]
<1>1. up' = [up EXCEPT ![l] = Tail(@)] /\ up[l] # <<>>
  BY DEF Recv, FromVillage, OnRegister, OnHeartbeat, OnUnregister, OnPlayer, OnFullSync,
         OnReserveAck, OnKickAck, Received
<1>2. up[l] \in Seq(UpMessages) /\ up'[l] = Tail(up[l])
  BY <1>1 DEF Typed, LinksTyped
<1>3. Len(Tail(up[l])) = Len(up[l]) - 1 /\ Len(up[l]) \in Nat
  BY <1>1, <1>2, HeadTailProperties, EmptySeq
<1>4. Len(Tail(up[l])) # Len(up[l])
  BY <1>3
<1>5. Tail(up[l]) # up[l]
  BY <1>4, Zenon
<1> QED BY <1>1, <1>2, <1>5

LEMMA GhostStep ==
    ASSUME Typed, TableInv, LinksInv, FirstInv, GhostInv, [Next]_vars
    PROVE  GhostInv'
<1> SUFFICES ASSUME NEW v \in Villages, NEW p \in Players, Linked(v)', roster'[v][p] = "out"
             PROVE  Awaited(v, p)'
  BY DEF GhostInv
<1> DEFINE l == conn'[v]
<1>0. /\ conn \in [Villages -> Links \cup {0}] /\ 0 \notin Links
      /\ up \in [Links -> Seq(UpMessages)] /\ registered \in [Villages -> BOOLEAN]
      /\ \A u, w \in Villages : u # w /\ conn[u] = conn[w] => conn[u] = 0
  BY ClusterAssumption DEF Typed, LinksTyped, VillagesTyped, Links
\* The others' steps, and the server's on other links.
<1>1. ASSUME conn'[v] = conn[v], registered'[v] = registered[v], roster'[v][p] = roster[v][p],
             lost \subseteq lost' \/ (conn[v] \in lost => conn[v] \in lost'),
             ~Recv(conn[v]), up'[conn[v]] = up[conn[v]]
      PROVE  Awaited(v, p)'
  <2>1. Awaited(v, p) /\ conn[v] \in Links
    BY <1>0, <1>1 DEF GhostInv, Linked, Alive
  <2>2. \A host \in Villages : ~Registers(conn[v], host)
    BY <1>1, <2>1, RegisterTaken
  <2>3. ASSUME NEW e \in ByConn(conn[v])', record'[p] = e.id PROVE ClearedIn(up'[conn[v]], p)
    <3>1. \E d \in ByConn(conn[v]) : d.id = e.id /\ record[p] = e.id
      BY <1>1, <2>1, <2>2, <2>3, OnRecordBefore
    <3> QED BY <1>1, <2>1, <3>1 DEF Awaited
  <2> QED BY <1>1, <2>1, <2>3 DEF Awaited, ByConn
<1>2. CASE (\E q \in Players : Login(q)) \/ (\E e \in entries, d \in BOOLEAN : SetMode(e, d)) \/ Sweep
           \/ \E k \in Links : Break(k)
  <2>1. UNCHANGED <<conn, registered, roster>>
    BY <1>2, ServerKeeps DEF villageVars
  <2>2. up' = up /\ lost \subseteq lost'
    BY <1>2 DEF Login, SetMode, Sweep, Break
  <2>3. ~Recv(conn[v])
    <3>1. conn[v] \in Links
      BY <1>0, <2>1 DEF Linked
    <3> QED BY <2>2, <3>1, RecvTakes
  <2> QED BY <1>1, <2>1, <2>2, <2>3
<1>3. ASSUME NEW k \in Links, Recv(k) PROVE Awaited(v, p)'
  <2>1. UNCHANGED <<conn, registered, roster>>
    BY <1>3, ServerKeeps DEF villageVars
  <2>2. lost \subseteq lost' /\ conn[v] \in Links
    BY <1>0, <1>3, <2>1, RecvSends DEF Linked
  <2>3. up' = [up EXCEPT ![k] = Tail(@)] /\ up[k] # <<>>
    BY <1>3, RecvTakes
  <2>4. CASE k # conn[v]
    <3>1. up'[conn[v]] = up[conn[v]]
      BY <1>0, <2>2, <2>3, <2>4
    <3>2. ~Recv(conn[v])
      BY <2>2, <3>1, RecvTakes
    <3> QED BY <1>1, <2>1, <2>2, <3>1, <3>2
  <2>5. CASE k = conn[v]
    <3> DEFINE q == up[k]
    <3>1. up'[k] = Tail(q) /\ q \in Seq(UpMessages) /\ q # <<>>
      BY <1>0, <2>3
    <3>2. Awaited(v, p)
      BY <2>1, <2>2 DEF GhostInv, Linked, Alive
    <3>3. ClearedLast(q, p)
      BY <2>5, <3>2 DEF Awaited
    <3>4. /\ ClearedLast(Tail(q), p)
          /\ Adds(Head(q), p) => ClearedIn(Tail(q), p)
          /\ ClearedIn(q, p) => Clears(Head(q), p) \/ ClearedIn(Tail(q), p)
          /\ Head(q) \in Msgs(q)
      BY <3>1, <3>3, QueueTail
    <3>5. \A host \in Villages : ~Registers(k, host)
      BY <2>1, <2>5, <3>4 DEF FirstInv, First, Has, Registers, Linked
    <3>6. ASSUME NEW e \in ByConn(k)', record'[p] = e.id PROVE ClearedIn(Tail(q), p)
      <4>1. PICK d \in ByConn(k) : d.id = e.id
        BY <3>5, <3>6, OnRecordBefore
      <4>2. IdOf(k) = d.id /\ d.id # 0
        BY <4>1, TheEntry
      <4>3. /\ Adds(Head(q), p) \/ record'[p] = record[p]
            /\ ~Clears(Head(q), p)
        BY <1>3, <3>6, <4>1, <4>2, RecvRecord
      <4>4. CASE Adds(Head(q), p)
        BY <3>4, <4>4
      <4>5. CASE record'[p] = record[p]
        <5>1. ClearedIn(q, p)
          BY <2>5, <3>2, <3>6, <4>1, <4>5 DEF Awaited
        <5> QED BY <3>4, <4>3, <5>1
      <4> QED BY <4>3, <4>4, <4>5
    <3> QED BY <2>1, <2>5, <3>1, <3>4, <3>6 DEF Awaited, ByConn
  <2> QED BY <2>4, <2>5
<1>4. ASSUME NEW k \in Links, Gone(k) PROVE Awaited(v, p)'
  <2>1. UNCHANGED <<conn, registered, roster>>
    BY <1>4, ServerKeeps DEF villageVars
  <2>2. lost' = lost /\ k \in lost /\ up' \in {up, [up EXCEPT ![k] = <<>>]}
    BY <1>4 DEF Gone
  <2>3. conn[v] # k /\ conn[v] \in Links
    BY <1>0, <2>1, <2>2 DEF Linked, Alive
  <2>4. up'[conn[v]] = up[conn[v]]
    BY <1>0, <2>2, <2>3
  <2>5. ~Recv(conn[v])
    BY <2>3, <2>4, RecvTakes
  <2> QED BY <1>1, <2>1, <2>2, <2>4, <2>5
<1>5. ASSUME NEW w \in Villages, Connect(w) PROVE Awaited(v, p)'
  <2>1. PICK k \in Links : /\ Unused(k) /\ conn' = [conn EXCEPT ![w] = k] /\ lost' = lost \ {k}
                           /\ up' = [up EXCEPT ![k] = <<[type |-> "Register", host |-> w]>>]
    BY <1>5 DEF Connect
  <2>2. conn[w] = 0 /\ UNCHANGED <<registered, roster>>
    BY <1>5 DEF Connect, villageVars
  <2>3. w # v
    BY <2>2 DEF LinksInv, Linked
  <2>4. conn'[v] = conn[v] /\ conn[v] # k /\ conn[v] \in Links
    BY <1>0, <2>1, <2>3 DEF Unused, Linked
  <2>5. up'[conn[v]] = up[conn[v]]
    BY <1>0, <2>1, <2>4
  <2>6. ~Recv(conn[v])
    BY <2>4, <2>5, RecvTakes
  <2> QED BY <1>1, <2>1, <2>2, <2>4, <2>5, <2>6
<1>6. ASSUME NEW w \in Villages, VillageStep(w) PROVE Awaited(v, p)'
  <2>1. CASE w = v
    BY <1>6, <2>1, GhostByVillage
  <2>2. CASE w # v
    <3>1. conn'[v] = conn[v]
      <4>1. conn' = conn \/ conn' = [conn EXCEPT ![w] = 0]
        BY <1>6, VillageLinks
      <4> QED BY <1>0, <2>2, <4>1
    <3>2. conn[v] \in Links /\ conn[w] # conn[v]
      BY <1>0, <2>2, <3>1 DEF Linked
    <3>3. lost \subseteq lost'
      BY <1>6, VillageLinks
    <3>4. registered'[v] = registered[v] /\ roster'[v][p] = roster[v][p]
      BY <1>6, <2>2, OthersStay
    <3>5. up'[conn[v]] = up[conn[v]]
      <4>1. CASE up' = up
        BY <4>1
      <4>2. CASE \E m \in UpMessages : ToServer(w, m)
        BY <3>2, <4>2, ToServerIs
      <4>3. CASE TakeReserve(w, Head(down[conn[w]])) /\ Take(w)
                 /\ Head(down[conn[w]]).type = "Reserve"
        BY <4>2, <4>3, AckIs DEF TakeReserve
      <4>4. CASE conn[w] \in Links /\ up' = [up EXCEPT ![conn[w]] = @ \o FullSync(w)]
        BY <1>0, <3>2, <4>4
      <4> QED BY <1>6, <4>1, <4>2, <4>3, <4>4, VillageSends
    <3>6. ~Recv(conn[v])
      BY <3>2, <3>5, RecvTakes
    <3> QED BY <1>1, <3>1, <3>3, <3>4, <3>5, <3>6
  <2> QED BY <2>1, <2>2
<1>7. CASE UNCHANGED vars
  <2>1. UNCHANGED <<conn, registered, roster, up, lost>>
    BY <1>7 DEF vars, villageVars
  <2>2. ~Recv(conn[v])
    <3>1. conn[v] \in Links
      BY <1>0, <2>1 DEF Linked
    <3> QED BY <2>1, <3>1, RecvTakes
  <2> QED BY <1>1, <2>1, <2>2
<1> QED BY <1>2, <1>3, <1>4, <1>5, <1>6, <1>7 DEF Next, S2s, Router, VillageStep

-----------------------------------------------------------------------------
(* Answers *)

LEMMA InitAnswers == Init => AnswersInv
<1> SUFFICES ASSUME Init, NEW l \in Links PROVE Answers(l)
  BY DEF AnswersInv
<1>1. up[l] = <<>> /\ down[l] = <<>> /\ asked[l].reserves = {}
  BY DEF Init, NothingAsked
<1> QED BY <1>1, EmptyQueue DEF Answers, Quiet, Matched, Has

\* What a step does to the requests of a link: there is no new Reserve, or there is
\* one, for an entry with that link.
NoReserve(l) ==
    /\ asked'[l].reserves \subseteq asked[l].reserves /\ asked'[l].next >= asked[l].next
    /\ \A m \in Msgs(down'[l]) : m \in Msgs(down[l]) \/ m.type # "Reserve"
NewReserve(l) ==
    \E r \in Reserves :
        /\ r.seq = asked[l].next /\ asked'[l].reserves = asked[l].reserves \cup {r}
        /\ asked'[l].next = asked[l].next + 1
        /\ \A m \in Msgs(down'[l]) :
             m \in Msgs(down[l]) \/ (Alive(l) /\ m.seq = r.seq /\ m.issue = r.issue)
        /\ \E e \in entries : e.link = l

LEMMA AskedHow ==
    ASSUME Typed, TableInv, [Next]_vars, NEW l \in Links, ~Gone(l)
    PROVE  NoReserve(l) \/ NewReserve(l)
<1>0. /\ asked \in [Links -> Rows] /\ asked[l] \in Rows /\ asked[l].next \in Nat
      /\ down \in [Links -> Seq(DownMessages)] /\ nextIssue \in Nat
      /\ \A k \in Links : asked[k].next \in Nat
      /\ \A p \in Players : record[p] \in Nat
      /\ \A e \in entries : e.link \in Links \cup {0} /\ e.id \in Nat
  <2>1. asked \in [Links -> Rows]
    BY DEF Typed, ServerTyped
  <2>2. \A k \in Links : asked[k].next \in Nat
    BY <2>1, RowIs
  <2> QED BY <2>1, <2>2 DEF Typed, EntriesTyped, EntryRecords, ServerTyped, LinksTyped
<1>1. ASSUME asked'[l] = asked[l], \A m \in Msgs(down'[l]) : m \in Msgs(down[l]) PROVE NoReserve(l)
  BY <1>0, <1>1 DEF NoReserve
<1>2. ASSUME NEW p \in Players, Login(p) PROVE NoReserve(l) \/ NewReserve(l)
  <2>1. ASSUME NEW e \in entries, e.link \in Links, KickSent(e.link, p, record[p])
        PROVE  NoReserve(l)
    <3> DEFINE k == [seq |-> asked[e.link].next, player |-> p, server |-> record[p]]
               m == [type |-> "Kick", player |-> p, seq |-> asked[e.link].next]
    <3>1. m \in DownMessages /\ k \in Kicks
      BY <1>0, <2>1, MessagesTyped DEF Kicks
    <3>2. \A x \in Msgs(down'[l]) : x \in Msgs(down[l]) \/ x = m
      BY <2>1, <3>1, SentMessages DEF KickSent
    <3>3. CASE l # e.link
      BY <1>0, <2>1, <3>2, <3>3 DEF KickSent, NoReserve
    <3>4. CASE l = e.link
      <4>1. asked'[l] = AsksKick(asked[l], k)
        BY <1>0, <2>1, <3>4 DEF KickSent
      <4>2. AsksKick(asked[l], k).reserves = asked[l].reserves
            /\ AsksKick(asked[l], k).next = asked[l].next + 1
        BY <1>0, <3>1, AsksIs
      <4> HIDE DEF k
      <4> QED BY <1>0, <3>2, <4>1, <4>2 DEF NoReserve
    <3> QED BY <3>3, <3>4
  <2>2. ASSUME NEW e \in entries, e.link \in Links, ReserveSent(e.link, p, e.id)
        PROVE  NoReserve(l) \/ NewReserve(l)
    <3> DEFINE r == [seq |-> asked[e.link].next, player |-> p, server |-> e.id, issue |-> nextIssue]
               m == [type |-> "Reserve", player |-> p, seq |-> asked[e.link].next,
                     issue |-> nextIssue]
    <3>1. m \in DownMessages /\ r \in Reserves
      BY <1>0, <2>2, MessagesTyped DEF Reserves
    <3>2. \A x \in Msgs(down'[l]) : x \in Msgs(down[l]) \/ (e.link = l /\ x = m)
      BY <2>2, <3>1, SentMessages DEF ReserveSent
    <3>3. CASE l # e.link
      <4>1. asked'[l] = asked[l]
        BY <1>0, <2>2, <3>3 DEF ReserveSent
      <4> QED BY <1>1, <3>2, <3>3, <4>1
    <3>4. CASE l = e.link
      <4>1. asked'[l] = AsksReserve(asked[l], r) /\ (~Alive(l) => down' = down)
        BY <1>0, <2>2, <3>4 DEF ReserveSent, Sent
      <4>2. AsksReserve(asked[l], r).reserves = asked[l].reserves \cup {r}
            /\ AsksReserve(asked[l], r).next = asked[l].next + 1
        BY <1>0, <3>1, AsksIs
      <4>3. r.seq = asked[l].next /\ m.seq = r.seq /\ m.issue = r.issue
        BY <3>4
      <4> HIDE DEF r, m
      <4> QED BY <3>1, <3>2, <3>4, <4>1, <4>2, <4>3 DEF NewReserve
    <3> QED BY <3>3, <3>4
  <2>3. CASE UNCHANGED <<asked, down>>
    BY <1>1, <2>3
  <2>4. CASE \E e \in entries : e.link \in Links /\ KickSent(e.link, p, record[p])
    BY <2>1, <2>4
  <2>5. CASE \E e \in entries : e.link \in Links /\ ReserveSent(e.link, p, e.id)
    BY <2>2, <2>5
  <2>6. \/ UNCHANGED <<asked, down>>
        \/ \E e \in entries : e.link \in Links /\ KickSent(e.link, p, record[p])
        \/ \E e \in entries : e.link \in Links /\ ReserveSent(e.link, p, e.id)
    BY <1>2, LoginHow
  <2> QED BY <2>3, <2>4, <2>5, <2>6
<1>3. ASSUME NEW e \in entries, NEW d \in BOOLEAN, SetMode(e, d) PROVE NoReserve(l)
  <2>1. [type |-> "SetMode", drain |-> d] \in DownMessages
    BY MessagesTyped
  <2>2. \/ UNCHANGED <<asked, down>>
        \/ /\ e.link \in Links /\ asked' = [asked EXCEPT ![e.link].next = @ + 1]
           /\ down' = Sent(down, e.link, [type |-> "SetMode", drain |-> d])
    BY <1>0, <1>3 DEF SetMode
  <2>3. \A x \in Msgs(down'[l]) : x \in Msgs(down[l]) \/ x = [type |-> "SetMode", drain |-> d]
    BY <2>1, <2>2, SentMessages, SMTT(60)
  <2>4. asked'[l] = asked[l] \/ asked'[l] = [asked[l] EXCEPT !.next = @ + 1]
    BY <1>0, <2>2
  <2>5. asked'[l].reserves = asked[l].reserves /\ asked'[l].next >= asked[l].next
    BY <1>0, <2>4 DEF Rows
  <2> QED BY <2>3, <2>5 DEF NoReserve
<1>4. ASSUME NEW k \in Links, Recv(k) PROVE NoReserve(l)
  <2> DEFINE m == Head(up[k])
  <2>0. m \in UpMessages
    BY <1>4, HeadTailProperties DEF Recv, Typed, LinksTyped
  <2>1. CASE asked' = asked /\ m.type = "Register" /\ OnRegister(k, m.host)
    <3>1. PICK b \in BOOLEAN : Answer(k, b)
      BY <2>1 DEF OnRegister
    <3>2. [type |-> "RegisterAck", ok |-> b] \in DownMessages
      BY MessagesTyped
    <3>3. \A x \in Msgs(down'[l]) : x \in Msgs(down[l]) \/ x = [type |-> "RegisterAck", ok |-> b]
      BY <3>1, <3>2, SentMessages DEF Answer
    <3> QED BY <1>0, <2>1, <3>3 DEF NoReserve
  <2>2. CASE m.type = "FullSync" /\ OnFullSync(k, m.first, m.ids)
    <3> DEFINE S == {p \in Conflicts(Cleared(IdOf(k), m.first), IdOf(k), m.ids) :
                       ~HasPendingKick(asked[k], p)}
    <3>1. S \in SUBSET Players
      BY <2>0, <2>2, UpKinds DEF Conflicts
    <3>2. \/ UNCHANGED <<asked, down>>
          \/ /\ asked' = [asked EXCEPT ![k] = KicksAsked(@, SetToSeq(S), IdOf(k))]
             /\ down' \in {down, [down EXCEPT ![k] = @ \o KickMessages(asked[k], SetToSeq(S))]}
      BY <2>2 DEF OnFullSync
    <3> HIDE DEF S
    <3>3. IdOf(k) \in Nat
      BY TheEntry DEF Typed, EntriesTyped
    <3>4. /\ KicksAsked(asked[k], SetToSeq(S), IdOf(k)).reserves = asked[k].reserves
          /\ KicksAsked(asked[k], SetToSeq(S), IdOf(k)).next >= asked[k].next
          /\ KickMessages(asked[k], SetToSeq(S)) \in Seq(DownMessages)
          /\ \A x \in Msgs(KickMessages(asked[k], SetToSeq(S))) : x.type = "Kick"
      BY <1>0, <3>1, <3>3, KicksAre
    <3>5. CASE UNCHANGED <<asked, down>>
      BY <1>1, <3>5
    <3>6. CASE k # l /\ asked'[l] = asked[l] /\ down'[l] = down[l]
      BY <1>1, <3>6
    <3>7. ASSUME k = l, asked'[l] = KicksAsked(asked[k], SetToSeq(S), IdOf(k)),
                 down'[l] \in {down[l], down[l] \o KickMessages(asked[k], SetToSeq(S))}
          PROVE  NoReserve(l)
      <4> DEFINE f == KickMessages(asked[k], SetToSeq(S))
      <4>1. f \in Seq(DownMessages) /\ \A x \in Msgs(f) : x.type = "Kick"
        BY <3>4
      <4>2. down'[l] = down[l] \/ down'[l] = down[l] \o f
        BY <3>7
      <4> HIDE DEF f
      <4>3. Msgs(down[l] \o f) = Msgs(down[l]) \cup Msgs(f)
        BY <1>0, <4>1, QueueConcat
      <4>4. \A x \in Msgs(down'[l]) : x \in Msgs(down[l]) \/ x.type # "Reserve"
        BY <4>1, <4>2, <4>3
      <4> QED BY <3>4, <3>7, <4>4 DEF NoReserve
    <3> QED BY <1>0, <3>2, <3>5, <3>6, <3>7
  <2>3. CASE m.type = "ReserveAck" /\ OnReserveAck(k, m.seq, m.ok)
    <3>1. PICK S : asked' = [asked EXCEPT ![k].reserves = @ \ S]
      BY <2>3 DEF OnReserveAck
    <3>2. asked'[l] = asked[l] \/ asked'[l] = [asked[l] EXCEPT !.reserves = @ \ S]
      BY <1>0, <3>1
    <3>3. asked'[l].reserves \subseteq asked[l].reserves /\ asked'[l].next = asked[l].next
      BY <1>0, <3>2 DEF Rows
    <3> QED BY <1>0, <2>3, <3>3 DEF NoReserve, OnReserveAck
  <2>4. CASE m.type = "KickAck" /\ OnKickAck(k, m.seq, m.kicked)
    <3>1. PICK S : asked' = [asked EXCEPT ![k].kicks = @ \ S]
      BY <2>4 DEF OnKickAck
    <3>2. asked'[l] = asked[l] \/ asked'[l] = [asked[l] EXCEPT !.kicks = @ \ S]
      BY <1>0, <3>1
    <3>3. asked'[l].reserves = asked[l].reserves /\ asked'[l].next = asked[l].next
      BY <1>0, <3>2 DEF Rows
    <3> QED BY <1>0, <2>4, <3>3 DEF NoReserve, OnKickAck
  <2>5. CASE UNCHANGED <<asked, down>>
    BY <1>1, <2>5
  <2>6. OnHeartbeat(k) \/ OnUnregister(k) \/ OnPlayer(k, m.player, m.type = "PlayerEnter")
          => UNCHANGED <<asked, down>>
    BY DEF OnHeartbeat, OnUnregister, OnPlayer, routerVars
  <2>7. OnRegister(k, m.host) => asked' = asked
    BY DEF OnRegister
  <2> QED BY <1>4, <2>1, <2>2, <2>3, <2>4, <2>5, <2>6, <2>7 DEF Recv
<1>5. ASSUME NEW k \in Links, Gone(k) PROVE NoReserve(l)
  <2>1. k # l
    BY <1>5
  <2>2. asked'[l] = asked[l] /\ down' = down
    BY <1>0, <1>5, <2>1 DEF Gone
  <2> QED BY <1>1, <2>2
<1>6. CASE Sweep
  <2>1. CASE asked' = asked
    BY <1>1, <1>6, <2>1 DEF Sweep
  <2>2. ASSUME NEW k \in Links, SweepAsked(k) PROVE NoReserve(l)
    <3>1. \/ \E r : asked' = [asked EXCEPT ![k].reserves = @ \ {r}]
          \/ \E j : asked' = [asked EXCEPT ![k].kicks = @ \ {j}]
      BY <2>2 DEF SweepAsked
    <3>2. asked'[l].reserves \subseteq asked[l].reserves /\ asked'[l].next = asked[l].next
      <4>1. ASSUME NEW r, asked' = [asked EXCEPT ![k].reserves = @ \ {r}]
            PROVE  asked'[l].reserves \subseteq asked[l].reserves /\ asked'[l].next = asked[l].next
        <5>1. asked'[l] = asked[l] \/ asked'[l] = [asked[l] EXCEPT !.reserves = @ \ {r}]
          BY <1>0, <4>1
        <5> QED BY <1>0, <5>1 DEF Rows
      <4>2. ASSUME NEW j, asked' = [asked EXCEPT ![k].kicks = @ \ {j}]
            PROVE  asked'[l].reserves \subseteq asked[l].reserves /\ asked'[l].next = asked[l].next
        <5>1. asked'[l] = asked[l] \/ asked'[l] = [asked[l] EXCEPT !.kicks = @ \ {j}]
          BY <1>0, <4>2
        <5> QED BY <1>0, <5>1 DEF Rows
      <4> QED BY <3>1, <4>1, <4>2
    <3> QED BY <1>0, <1>6, <3>2 DEF NoReserve, Sweep
  <2> QED BY <1>6, <2>1, <2>2 DEF Sweep, SweepOrphan, SweepParting
<1>7. CASE UNCHANGED vars \/ (\E k \in Links : Break(k)) \/ \E v \in Villages : Connect(v)
  BY <1>1, <1>7 DEF vars, routerVars, Break, Connect
<1>8. ASSUME NEW v \in Villages, VillageStep(v) PROVE NoReserve(l)
  <2>1. asked' = asked
    BY <1>8, VillageKeeps DEF routerVars
  <2>2. down'[l] \in {down[l], <<>>} \/ (down[l] # <<>> /\ down'[l] = Tail(down[l]))
    BY <1>8, TakenOff
  <2>3. down[l] # <<>> => Msgs(Tail(down[l])) \subseteq Msgs(down[l])
    BY <1>0, QueueTail
  <2>4. \A m \in Msgs(down'[l]) : m \in Msgs(down[l])
    BY <2>2, <2>3, EmptyQueue
  <2> QED BY <1>1, <2>1, <2>4
<1> QED BY <1>2, <1>3, <1>4, <1>5, <1>6, <1>7, <1>8 DEF Next, S2s, Router, VillageStep

\* What is under way to the server: a new ReserveAck answers a Reserve.
NewUp(l, m) ==
    /\ m.type # "Register"
    /\ m.type = "ReserveAck" =>
         \E x \in Msgs(down[l]) : x.type = "Reserve" /\ x.seq = m.seq
                                  /\ (m.ok = FALSE => x.issue \in refused')
OldOrNew(l) == \A m \in Msgs(up'[l]) : m \in Msgs(up[l]) \/ NewUp(l, m)

LEMMA AckHow ==
    ASSUME Typed, NEW l \in Links, [Next]_vars, ~\E v \in Villages : Connect(v)
    PROVE  OldOrNew(l)
<1>0. up \in [Links -> Seq(UpMessages)] /\ down \in [Links -> Seq(DownMessages)]
      /\ drain \in [Villages -> BOOLEAN]
  BY DEF Typed, LinksTyped, VillagesTyped
<1> USE DEF OldOrNew
<1>1. ASSUME up'[l] = up[l] PROVE OldOrNew(l)
  BY <1>1
<1>2. ASSUME NEW k \in Links, Recv(k) PROVE OldOrNew(l)
  <2>1. up' = [up EXCEPT ![k] = Tail(@)] /\ up[k] # <<>>
    BY <1>2, RecvTakes
  <2>2. Msgs(Tail(up[k])) \subseteq Msgs(up[k])
    BY <1>0, <2>1, QueueTail
  <2> QED BY <1>0, <2>1, <2>2
<1>3. ASSUME NEW k \in Links, Gone(k) PROVE OldOrNew(l)
  <2>1. up' = up \/ up' = [up EXCEPT ![k] = <<>>]
    BY <1>3 DEF Gone
  <2>2. up'[l] = up[l] \/ up'[l] = <<>>
    BY <1>0, <2>1
  <2> QED BY <2>2, EmptyQueue
<1>4. (\E q \in Players : Login(q)) \/ (\E e \in entries, d \in BOOLEAN : SetMode(e, d))
      \/ (\E k \in Links : Break(k)) \/ Sweep \/ UNCHANGED vars
      => up' = up
  BY DEF Login, SetMode, Sweep, Break, vars
<1>5. ASSUME NEW v \in Villages, VillageStep(v) PROVE OldOrNew(l)
  <2>1. ASSUME NEW m \in UpMessages, ToServer(v, m), conn[v] = l => NewUp(l, m) PROVE OldOrNew(l)
    <3>1. up'[l] = IF conn[v] = l /\ Alive(l) THEN Append(up[l], m) ELSE up[l]
      BY <2>1, ToServerIs
    <3>2. Msgs(Append(up[l], m)) = Msgs(up[l]) \cup {m}
      BY <1>0, QueueAppend
    <3> QED BY <2>1, <3>1, <3>2
  <2>2. CASE \E m \in UpMessages : ToServer(v, m) /\ m.type \notin {"Register", "ReserveAck"}
    BY <2>1, <2>2 DEF NewUp
  <2>3. CASE /\ Take(v) /\ Head(down[conn[v]]).type = "Reserve"
             /\ TakeReserve(v, Head(down[conn[v]]))
    <3> DEFINE x == Head(down[conn[v]])
               m == [type |-> "ReserveAck", seq |-> x.seq, ok |-> ~drain[v]]
    <3>1. /\ m \in UpMessages /\ ToServer(v, m) /\ x \in Msgs(down[conn[v]]) /\ x.type = "Reserve"
          /\ drain[v] => x.issue \in refused'
      BY <1>0, <2>3, AckIs DEF TakeReserve
    <3>2. m.type = "ReserveAck" /\ m.seq = x.seq /\ (m.ok = FALSE => drain[v])
      BY <1>0
    <3> HIDE DEF x, m
    <3>3. conn[v] = l => NewUp(l, m)
      BY <3>1, <3>2 DEF NewUp
    <3> QED BY <2>1, <3>1, <3>3
  <2>4. CASE conn[v] \in Links /\ up' = [up EXCEPT ![conn[v]] = @ \o FullSync(v)]
    <3>1. CASE conn[v] # l
      BY <1>0, <1>1, <2>4, <3>1
    <3>2. CASE conn[v] = l
      <4>1. up'[l] = up[l] \o FullSync(v)
        BY <1>0, <2>4, <3>2
      <4>2. FullSync(v) \in Seq(UpMessages) /\ \A m \in Msgs(FullSync(v)) : m.type = "FullSync"
        BY FullSyncIs
      <4>3. Msgs(up'[l]) = Msgs(up[l]) \cup Msgs(FullSync(v))
        BY <1>0, <4>1, <4>2, QueueConcat
      <4> QED BY <4>2, <4>3 DEF NewUp
    <3> QED BY <3>1, <3>2
  <2>5. CASE up' = up
    BY <1>1, <2>5
  <2> QED BY <1>5, <2>2, <2>3, <2>4, <2>5, VillageSends
<1>6. up' = up => OldOrNew(l)
  BY <1>1
<1> HIDE DEF OldOrNew
<1> QED BY <1>2, <1>3, <1>4, <1>5, <1>6 DEF Next, S2s, Router, VillageStep

\* What is refused stays so.
LEMMA RefusedStep == ASSUME [Next]_vars PROVE refused \subseteq refused'
<1>1. CASE \E v \in Villages : Take(v)
  BY <1>1 DEF Take, TakeRegisterAck, TakeReserve, TakeSetMode, TakeKick
<1>2. CASE \E v \in Villages : Connect(v) \/ Disconnected(v) \/ KickClose(v) \/ Tick(v)
  BY <1>2 DEF Connect, villageVars, Disconnected, KickClose, Tick
<1>3. CASE \E v \in Villages : Quit(v) \/ Die(v) \/ Stop(v)
  BY <1>3 DEF Quit, Die, Stop, Ended
<1>4. CASE \E v \in Villages, p \in Players : Enter(v, p) \/ Close(v, p) \/ Leave(v, p)
  BY <1>4 DEF Enter, Close, Leave
<1>5. CASE UNCHANGED villageVars
  BY <1>5 DEF villageVars
<1>6. (\E p \in Players : Login(p)) \/ (\E e \in entries, d \in BOOLEAN : SetMode(e, d))
      \/ (\E l \in Links : Recv(l) \/ Gone(l) \/ Break(l)) \/ Sweep \/ UNCHANGED vars
      => UNCHANGED villageVars
  BY DEF Login, SetMode, Recv, FromVillage, Gone, Break, Sweep, vars
<1> QED BY <1>1, <1>2, <1>3, <1>4, <1>5, <1>6 DEF Next, S2s, Router

\* A link is in the table when it has registered.
LEMMA LinkOnTable ==
    ASSUME Typed, TableInv, [Next]_vars, NEW l \in Links, \A e \in entries : e.link # l,
           \A host \in Villages : ~Registers(l, host)
    PROVE  \A e \in entries' : e.link # l
<1>0. 0 # l
  BY ClusterAssumption DEF Links
<1>1. CASE QuietTable
  BY <1>1 DEF QuietTable, Relabels, KeepsLinks
<1>2. CASE \E v \in Villages : Connect(v)
  BY <1>2 DEF Connect, registryVars
<1>3. CASE \E k \in Links : Unregisters(k)
  BY <1>3 DEF Unregisters, OnUnregister, Unregistered
<1>4. ASSUME NEW k \in Links, Gone(k) PROVE \A e \in entries' : e.link # l
  <2>1. PICK f : /\ Relabels(f, entries')
                 /\ \A e \in entries : f[e].link = IF e.conn = k THEN 0 ELSE e.link
    BY <1>4, GoneDetaches
  <2> QED BY <1>0, <2>1 DEF Relabels
<1>5. CASE \E e \in entries : SweepsOrphan(e)
  BY <1>5 DEF SweepsOrphan, SweepOrphan
<1>6. ASSUME NEW k \in Links, NEW host \in Villages, Registers(k, host)
      PROVE  \A e \in entries' : e.link # l
  <2>1. k # l
    BY <1>6
  <2>2. \A e \in entries : [e EXCEPT !.conn = k, !.link = k, !.orphan = 0].link = k
    BY DEF Typed, EntriesTyped, EntryRecords
  <2>3. NewEntry(k, host).link = k
    BY DEF NewEntry
  <2>4. CASE entries' = entries
    BY <2>4
  <2>5. CASE \E e \in entries :
               entries' = Updated(e, [e EXCEPT !.conn = k, !.link = k, !.orphan = 0])
    BY <2>1, <2>2, <2>5 DEF Updated
  <2>6. CASE entries' = entries \cup {NewEntry(k, host)}
    BY <2>1, <2>3, <2>6
  <2> QED BY <1>6, <2>4, <2>5, <2>6, RegistersHow
<1> QED BY <1>1, <1>2, <1>3, <1>4, <1>5, <1>6, TableMoves

\* A link is gone from session_gone until the next connection.
LEMMA GoneHow ==
    ASSUME [Next]_vars, ~\E v \in Villages : Connect(v), NEW l \in Links, ~Gone(l)
    PROVE  l \in gone' <=> l \in gone
<1>1. ASSUME NEW k \in Links, Gone(k) PROVE l \in gone' <=> l \in gone
  <2>1. k # l
    BY <1>1
  <2> QED BY <1>1, <2>1 DEF Gone
<1>2. CASE \E v \in Villages : VillageStep(v)
  BY <1>2, VillageKeeps
<1>3. CASE gone' = gone
  BY <1>3
<1>4. (\E p \in Players : Login(p)) \/ (\E e \in entries, d \in BOOLEAN : SetMode(e, d))
      \/ (\E k \in Links : Recv(k) \/ Break(k)) \/ Sweep \/ UNCHANGED vars
      => gone' = gone
  BY DEF Login, SetMode, Recv, FromVillage, Break, Sweep, vars
<1> QED BY <1>1, <1>2, <1>3, <1>4 DEF Next, S2s, Router, VillageStep

LEMMA MsgsTyped ==
    ASSUME NEW S, NEW q \in Seq(S)
    PROVE  Msgs(q) \subseteq S
BY ElementOfSeq DEF Msgs

\* The numbers of requests are numbers still.
LEMMA NextIsNat ==
    ASSUME Typed, TableInv, FirstInv, [Next]_vars, NEW l \in Links
    PROVE  asked'[l].next \in Nat
<1>1. asked' \in [Links -> Rows]
  BY TypedStep DEF Typed, ServerTyped
<1>2. asked'[l] \in Rows
  BY <1>1
<1> QED BY <1>2, RowIs

LEMMA AnswersStep ==
    ASSUME Typed, TableInv, LinksInv, FirstInv, AnswersInv, [Next]_vars
    PROVE  AnswersInv'
<1> SUFFICES ASSUME NEW l \in Links PROVE Answers(l)'
  BY DEF AnswersInv
<1>0. /\ Answers(l) /\ First(l) /\ gone \subseteq lost /\ asked[l].reserves \in SUBSET Reserves
      /\ asked[l].next \in Nat /\ up \in [Links -> Seq(UpMessages)] /\ asked[l] \in Rows
      /\ down \in [Links -> Seq(DownMessages)]
  <2>1. asked[l] \in Rows
    BY DEF Typed, ServerTyped
  <2> QED BY <2>1, RowIs DEF AnswersInv, FirstInv, Typed, LinksTyped
<1>1. ASSUME NEW v \in Villages, Connect(v) PROVE Answers(l)'
  <2>1. PICK k \in Links : /\ Unused(k) /\ gone' = gone \ {k}
                           /\ up' = [up EXCEPT ![k] = <<[type |-> "Register", host |-> v]>>]
    BY <1>1 DEF Connect
  <2>2. UNCHANGED <<entries, asked, down, refused>>
    BY <1>1 DEF Connect, registryVars, routerVars, villageVars
  <2>3. CASE k = l
    <3>1. Msgs(up'[l]) = {[type |-> "Register", host |-> v]}
      BY <1>0, <2>1, <2>3, OneMessage
    <3>2. Msgs(down'[l]) = {} /\ asked'[l].reserves = {}
      BY <2>1, <2>2, <2>3, EmptyQueue DEF Unused, LinksInv, NothingAsked
    <3> QED BY <2>1, <2>3, <3>1, <3>2 DEF Answers, Matched
  <2>4. CASE k # l
    <3>1. up'[l] = up[l] /\ (l \in gone' <=> l \in gone)
      BY <1>0, <2>1, <2>4
    <3> QED BY <1>0, <2>2, <3>1 DEF Answers, Matched, Quiet, Forgotten
  <2> QED BY <2>3, <2>4
<1>2. CASE Gone(l)
  <2>1. /\ l \in gone' /\ down' = down /\ asked'[l] = NothingAsked
        /\ Msgs(up'[l]) \subseteq Msgs(up[l])
    <3>1. up' = up \/ up' = [up EXCEPT ![l] = <<>>]
      BY <1>2 DEF Gone
    <3>2. Msgs(up'[l]) \subseteq Msgs(up[l])
      BY <1>0, <3>1, EmptyQueue
    <3>3. asked' = [asked EXCEPT ![l] = NothingAsked]
      BY <1>2 DEF Gone
    <3> QED BY <1>2, <3>2, <3>3 DEF Gone, Typed, ServerTyped
  <2>2. CASE Has(up[l], {"Register"})
    BY <1>0, <2>1, <2>2 DEF First, Answers, Quiet, Has
  <2>3. CASE ~Has(up[l], {"Register"})
    <3>1. \A e \in entries' : e.link # l
      <4>1. PICK f : /\ Relabels(f, entries')
                     /\ \A e \in entries : f[e].link = IF e.conn = l THEN 0 ELSE e.link
        BY <1>2, GoneDetaches
      <4>2. 0 # l
        BY ClusterAssumption DEF Links
      <4> QED BY <4>1, <4>2 DEF Relabels, TableInv
    <3> QED BY <2>1, <2>3, <3>1 DEF Answers, Forgotten, Has, NothingAsked
  <2> QED BY <2>2, <2>3
<1>3. CASE ~Gone(l) /\ ~\E v \in Villages : Connect(v)
  <2>1. l \in gone' <=> l \in gone
    BY <1>3, GoneHow
  <2>2. refused \subseteq refused'
    BY RefusedStep
  <2>3. \A m \in Msgs(up'[l]) : m \in Msgs(up[l]) \/ NewUp(l, m)
    BY <1>3, AckHow DEF OldOrNew
  <2>4. NoReserve(l) \/ NewReserve(l)
    BY <1>3, AskedHow
  <2>5. CASE l \in gone
    <3>1. NewReserve(l) => (\A m \in Msgs(down'[l]) : m \in Msgs(down[l])) /\ \E e \in entries : e.link = l
      BY <1>0, <2>5 DEF NewReserve, Alive
    <3>2. CASE Quiet(l)
      <4>1. \A m \in Msgs(down'[l]) : m.type # "Reserve"
        BY <2>4, <3>1, <3>2 DEF NoReserve, Quiet, Has
      <4>2. \A m \in Msgs(up'[l]) : m.type # "ReserveAck"
        BY <2>3, <3>2 DEF Quiet, Has, NewUp
      <4> QED BY <2>1, <2>5, <4>1, <4>2 DEF Answers, Quiet, Has
    <3>3. CASE Forgotten(l)
      <4>1. NoReserve(l)
        BY <2>4, <3>1, <3>3 DEF Forgotten
      <4>2. asked'[l].reserves = {}
        BY <3>3, <4>1 DEF NoReserve, Forgotten
      <4>3. \A m \in Msgs(up'[l]) : m.type # "Register"
        BY <2>3, <3>3 DEF Forgotten, Has, NewUp
      <4>4. \A host \in Villages : ~Registers(l, host)
        BY <1>0, <3>3, QueueTail DEF Registers, Forgotten, Has
      <4>5. \A e \in entries' : e.link # l
        BY <3>3, <4>4, LinkOnTable DEF Forgotten
      <4> QED BY <2>1, <2>5, <4>2, <4>3, <4>5 DEF Answers, Forgotten, Has
    <3> QED BY <1>0, <2>5, <3>2, <3>3 DEF Answers
  <2>6. CASE l \notin gone
    <3>0. Matched(l)
      BY <1>0, <2>6 DEF Answers
    <3>1. /\ \A r \in asked[l].reserves : r.seq \in Nat
          /\ \A m \in Msgs(down[l]) : m.type = "Reserve" => m.seq \in Nat
          /\ \A m \in Msgs(up[l]) : m.type = "ReserveAck" => m.seq \in Nat
      <4>1. Msgs(down[l]) \subseteq DownMessages /\ Msgs(up[l]) \subseteq UpMessages
        BY <1>0, MsgsTyped
      <4> QED BY <1>0, <4>1, UpKinds, DownKinds DEF Reserves
    \* An answer that is new names a row as the Reserve did that it answers.
    <3>2. \A m \in Msgs(up'[l]) : m.type = "ReserveAck" =>
            /\ m.seq < asked[l].next /\ m.seq \in Nat
            /\ \A r \in asked[l].reserves : r.seq = m.seq /\ ~m.ok => r.issue \in refused'
      <4> SUFFICES ASSUME NEW m \in Msgs(up'[l]), m.type = "ReserveAck"
                   PROVE  /\ m.seq < asked[l].next /\ m.seq \in Nat
                          /\ \A r \in asked[l].reserves : r.seq = m.seq /\ ~m.ok => r.issue \in refused'
        OBVIOUS
      <4>1. CASE m \in Msgs(up[l])
        BY <2>2, <3>0, <3>1, <4>1 DEF Matched
      <4>2. ASSUME NEW x \in Msgs(down[l]), x.type = "Reserve", x.seq = m.seq,
                   m.ok = FALSE => x.issue \in refused'
            PROVE  /\ m.seq < asked[l].next /\ m.seq \in Nat
                   /\ \A r \in asked[l].reserves : r.seq = m.seq /\ ~m.ok => r.issue \in refused'
        BY <3>0, <3>1, <4>2 DEF Matched
      <4> QED BY <2>3, <4>1, <4>2 DEF NewUp
    <3>3. CASE NoReserve(l)
      <4>1. asked'[l].reserves \subseteq asked[l].reserves /\ asked'[l].next >= asked[l].next
            /\ \A m \in Msgs(down'[l]) : m \in Msgs(down[l]) \/ m.type # "Reserve"
        BY <3>3 DEF NoReserve
      <4>2. asked'[l].next \in Nat
        BY NextIsNat
      <4>3. \A n \in Nat : n < asked[l].next => n < asked'[l].next
        BY <1>0, <4>1, <4>2
      <4>4. \A r \in asked'[l].reserves : r.seq < asked'[l].next
        BY <3>0, <3>1, <4>1, <4>3 DEF Matched
      <4>5. \A m \in Msgs(down'[l]) : m.type = "Reserve" =>
              /\ m.seq < asked'[l].next
              /\ \A r \in asked'[l].reserves : r.seq = m.seq => r.issue = m.issue
        BY <3>0, <3>1, <4>1, <4>3 DEF Matched
      <4>6. \A m \in Msgs(up'[l]) : m.type = "ReserveAck" =>
              /\ m.seq < asked'[l].next
              /\ \A r \in asked'[l].reserves : r.seq = m.seq /\ ~m.ok => r.issue \in refused'
        BY <3>2, <4>1, <4>3
      <4> QED BY <2>1, <2>6, <4>4, <4>5, <4>6 DEF Answers, Matched
    <3>4. CASE NewReserve(l)
      <4>1. PICK q \in Reserves :
              /\ q.seq = asked[l].next /\ asked'[l].reserves = asked[l].reserves \cup {q}
              /\ asked'[l].next = asked[l].next + 1
              /\ \A m \in Msgs(down'[l]) :
                   m \in Msgs(down[l]) \/ (m.seq = q.seq /\ m.issue = q.issue)
        BY <3>4 DEF NewReserve
      <4>2. \A n \in Nat : n < asked[l].next => n < asked'[l].next /\ n # q.seq
        BY <1>0, <4>1
      <4>3. q.seq < asked'[l].next
        BY <1>0, <4>1
      <4>4. \A r \in asked'[l].reserves : r.seq < asked'[l].next
        BY <3>0, <3>1, <4>1, <4>2, <4>3 DEF Matched
      <4>5. \A m \in Msgs(down'[l]) : m.type = "Reserve" =>
              /\ m.seq < asked'[l].next
              /\ \A r \in asked'[l].reserves : r.seq = m.seq => r.issue = m.issue
        <5> SUFFICES ASSUME NEW m \in Msgs(down'[l]), m.type = "Reserve"
                     PROVE  /\ m.seq < asked'[l].next
                            /\ \A r \in asked'[l].reserves : r.seq = m.seq => r.issue = m.issue
          OBVIOUS
        <5>1. CASE m \in Msgs(down[l])
          BY <3>0, <3>1, <4>1, <4>2, <5>1 DEF Matched
        <5>2. CASE m.seq = q.seq /\ m.issue = q.issue
          <6>1. \A r \in asked[l].reserves : r.seq # q.seq
            BY <3>0, <3>1, <4>2 DEF Matched
          <6> QED BY <4>1, <4>3, <5>2, <6>1
        <5> QED BY <4>1, <5>1, <5>2
      <4>6. \A m \in Msgs(up'[l]) : m.type = "ReserveAck" =>
              /\ m.seq < asked'[l].next
              /\ \A r \in asked'[l].reserves : r.seq = m.seq /\ ~m.ok => r.issue \in refused'
        BY <3>2, <4>1, <4>2
      <4> QED BY <2>1, <2>6, <4>4, <4>5, <4>6 DEF Answers, Matched
    <3> QED BY <2>4, <3>3, <3>4
  <2> QED BY <2>5, <2>6
<1> QED BY <1>1, <1>2, <1>3

\* Who takes a reservation back has the answer of a village that refused it.
LEMMA RevokedRefused ==
    ASSUME Typed, TableInv, FirstInv, AnswersInv, [Next]_vars, NEW p \in Players,
           booking[p] # None, booking'[p] = None
    PROVE  booking[p].issue \in refused
<1>0. booking \in [Players -> [server : Nat, issue : Nat] \cup {None}] /\ nextIssue \in Nat
      /\ \A e \in entries : e.id \in Nat
  BY DEF Typed, EntriesTyped, EntryRecords, ServerTyped
<1>1. booking' # booking
  OBVIOUS
<1>2. ASSUME NEW q \in Players, Login(q) PROVE FALSE
  <2>1. \E e \in entries : booking' = [booking EXCEPT ![q] = [server |-> e.id, issue |-> nextIssue]]
    BY <1>1, <1>2, LoginHow
  <2>2. PICK e \in entries : booking' = [booking EXCEPT ![q] = [server |-> e.id, issue |-> nextIssue]]
    BY <2>1
  <2>3. [server |-> e.id, issue |-> nextIssue] # None
    BY <1>0, ClusterAssumption
  <2> QED BY <1>0, <2>2, <2>3
<1>3. ASSUME NEW l \in Links, Recv(l) PROVE booking[p].issue \in refused
  <2> DEFINE m == Head(up[l])
             found == {r \in asked[l].reserves : r.seq = m.seq}
  <2>1. m.type = "ReserveAck" /\ OnReserveAck(l, m.seq, m.ok)
    BY <1>1, <1>3 DEF Recv, OnRegister, OnHeartbeat, OnUnregister, OnPlayer, OnFullSync, OnKickAck
  <2>2. ~m.ok /\ \E r \in found : booking' = IF Ours(booking[r.player], r)
                                             THEN [booking EXCEPT ![r.player] = None] ELSE booking
    BY <1>1, <2>1 DEF OnReserveAck
  <2>3. PICK r \in found : booking' = IF Ours(booking[r.player], r)
                                      THEN [booking EXCEPT ![r.player] = None] ELSE booking
    BY <2>2
  <2>4. r.player = p /\ booking[p].issue = r.issue
    BY <1>0, <1>1, <2>3 DEF Ours
  <2>5. m \in Msgs(up[l])
    BY <1>3, QueueTail DEF Recv, Typed, LinksTyped
  <2>6. l \notin gone
    BY <2>1, <2>3, <2>5 DEF AnswersInv, Answers, Quiet, Forgotten, Has
  <2>7. r.issue \in refused
    BY <2>1, <2>2, <2>3, <2>5, <2>6 DEF AnswersInv, Answers, Matched
  <2> QED BY <2>4, <2>7
<1>4. (\E e \in entries, d \in BOOLEAN : SetMode(e, d)) \/ (\E l \in Links : Gone(l) \/ Break(l))
      \/ Sweep \/ UNCHANGED vars => booking' = booking
  BY DEF SetMode, Gone, Break, Sweep, vars, registryVars
<1>5. ASSUME NEW v \in Villages, Connect(v) \/ VillageStep(v) PROVE FALSE
  BY <1>1, <1>5, VillageKeeps DEF Connect, registryVars
<1> QED BY <1>1, <1>2, <1>3, <1>4, <1>5 DEF Next, S2s, Router, VillageStep

\* Where nothing is under way nothing is awaited.
LEMMA NobodyAwaited == Typed /\ GhostInv => NoGhosts
<1> SUFFICES ASSUME Typed, GhostInv, NEW v \in Villages, AtRest(v), NEW e \in ByConn(conn[v]),
                    NEW p \in Players, record[p] = e.id
             PROVE  roster[v][p] # "out"
  BY DEF NoGhosts
<1>1. Linked(v) /\ up[conn[v]] = <<>>
  BY DEF AtRest, Linked
<1>2. ~ClearedIn(up[conn[v]], p)
  BY <1>1, EmptyQueue
<1> QED BY <1>1, <1>2 DEF GhostInv, Awaited

-----------------------------------------------------------------------------
(* The theorems *)

\* All that holds of every state.
Sound == Typed /\ TableInv /\ LinksInv /\ FirstInv /\ GhostInv /\ AnswersInv

LEMMA InitSound == Init => Sound
BY InitTyped, InitLinks, InitGhost, InitAnswers DEF Sound

LEMMA SoundStep == Sound /\ [Next]_vars => Sound'
<1> SUFFICES ASSUME Sound, [Next]_vars PROVE Sound'
  OBVIOUS
<1> QED BY TypedStep, TableStep, LinksInvStep, FirstStep, GhostStep, AnswersStep DEF Sound

LEMMA SoundAlways == Spec => []Sound
BY InitSound, SoundStep, PTL DEF Spec

\* The table of the registry, the records, the reservations and the holds of the
\* router on its sessions agree (session/registry.cpp, session_router.cpp), whatever
\* the order in which frames, session_gone, the sweep and logins come.
THEOREM RegistrySoundAlways == Spec => []RegistrySound
<1>1. Sound => RegistrySound
  BY TableIsSound DEF Sound
<1> QED BY <1>1, SoundAlways, PTL

\* When a registered village and the server have nothing under way between them, the
\* server has nobody on record there who is not (full_sync_replace, and the notices
\* that S2sLink sends behind it).
THEOREM NoGhostsAlways == Spec => []NoGhosts
<1>1. Sound => NoGhosts
  BY NobodyAwaited DEF Sound
<1> QED BY <1>1, SoundAlways, PTL

\* A reservation is taken back only when its village has refused it, never that of a
\* later login of the same player (Router::handle_reserve_ack, revoke_reservation).
THEOREM RevokesRefusedAlways == Spec => RevokesRefused
<1>1. Sound /\ [Next]_vars =>
        [\A p \in Players :
           booking[p] # None /\ booking'[p] = None => booking[p].issue \in refused]_vars
  BY RevokedRefused DEF Sound
<1> QED BY <1>1, SoundAlways, PTL DEF Spec, RevokesRefused

=============================================================================
