--------------------------- MODULE DatabaseProofs ---------------------------
(***************************************************************************)
(* TLAPS proofs about Database, for any finite set of workers, any number  *)
(* of jobs, any players, items and orders, any size of the pool, any       *)
(* number of attempts and any number of faults.                            *)
(***************************************************************************)
EXTENDS Database, SequenceTheorems, FunctionTheorems, FiniteSetTheorems,
        WellFoundedInduction, TLAPS

Order == [a : Nat, aItem : Items, aCount : Nat, b : Nat, bItem : Items, bCount : Nat]

\* An order that may be sent to the server.
Proper(o) == o \in Order /\ o.a # o.b

(* The pool *)

\* A connection is idle in one place or lent to one worker; a worker has one
\* exactly while it runs a job.
PoolInv ==
    /\ \A i, k \in 1..Len(idle) : idle[i] = idle[k] => i = k
    /\ \A w, v \in Workers : lease[w] = lease[v] /\ lease[w] # None => w = v
    /\ \A w \in Workers, i \in 1..Len(idle) : idle[i] # lease[w]
    /\ \A w \in Workers : lease[w] = None <=> pc[w] = "idle"
    /\ warming > 0 =>
         ~stopped /\ created + warming <= MaxSize /\ \A w \in Workers : pc[w] = "idle"
    /\ CountsMatch

(* The transactions *)

States == {"none", "lo", "hi", "move", "commit", "done"}
Results == {"none", "ok", "notEnough", "invalid", "retry", "error"}

ServerTyped ==
    /\ tx \in [Jobs -> [st : States, order : Order \cup {None}, res : Results]]
    /\ commits \in [Jobs -> Nat]
    /\ deployed \in BOOLEAN
    /\ \A j \in Jobs :
        /\ tx[j].st \in {"lo", "hi", "move", "commit"} => Proper(tx[j].order)
        /\ tx[j].st = "hi" => LockOrder(tx[j].order)[1] \in Known
        /\ tx[j].st = "done" <=> tx[j].res # "none"
        /\ tx[j].st \in {"move", "commit"} => tx[j].order.a \in Known /\ tx[j].order.b \in Known

\* What a worker does for its job, and how far the job's transaction has come.
WorkerInv ==
    /\ \A w \in Workers : job[w] = None <=> pc[w] = "idle"
    /\ \A w, v \in Workers : job[w] = job[v] /\ job[w] # None => w = v
    /\ \A w \in Workers :
        /\ pc[w] = "try" =>
              /\ tries[w] < Tries /\ Proper(tx[job[w]].order)
              /\ tx[job[w]].st = "none" \/ tx[job[w]].res = "retry"
        /\ pc[w] = "calling" => tx[job[w]].st # "none" /\ Proper(tx[job[w]].order)
        /\ pc[w] \in {"opening", "leased", "reconnect", "reselect"} => tx[job[w]].st = "none"
        /\ pc[w] = "return" => outcome[job[w]] # None
    /\ \A j \in Jobs : ~Begun(j) => tx[j].st = "none"

\* What has been answered, and what the transaction came to.
AnswerInv ==
    /\ \A w \in Workers :
        pc[w] \notin {"idle", "return"} => outcome[job[w]] = None
    /\ \A j \in Jobs :
        /\ commits[j] = IF tx[j].res = "ok" THEN 1 ELSE 0
        /\ outcome[j] = "kOk" => tx[j].st = "none" \/ tx[j].res = "ok"
        /\ outcome[j] \in {"kNotEnough", "kInvalidArg", "kBusy"} =>
              tx[j].st = "none" \/ tx[j].res \notin {"none", "ok"}

Base == TypeOK /\ PoolInv /\ ServerTyped /\ WorkerInv

-----------------------------------------------------------------------------
(* Counting connections *)

Lent == {w \in Workers : lease[w] # None}

LEMMA NoneIsNoConn == None \notin Conns /\ Conns \subseteq Nat /\ MaxSize \in Nat \ {0}
BY DatabaseAssumption DEF Conns

LEMMA LentFinite == IsFiniteSet(Lent) /\ Cardinality(Lent) \in Nat
<1>1. Lent \subseteq Workers
  BY DEF Lent
<1> QED BY <1>1, DatabaseAssumption, FS_Subset, FS_CardinalityType

\* Idle and lent connections, no two the same, are as many as the places they are in.
LEMMA MadeCounted ==
    ASSUME NEW q \in Seq(Conns), NEW f \in [Workers -> Conns \cup {None}],
           \A i, k \in 1..Len(q) : q[i] = q[k] => i = k,
           \A w, v \in Workers : f[w] = f[v] /\ f[w] # None => w = v,
           \A w \in Workers, i \in 1..Len(q) : q[i] # f[w]
    PROVE  Cardinality(({q[i] : i \in DOMAIN q} \cup {f[w] : w \in Workers}) \ {None})
             = Len(q) + Cardinality({w \in Workers : f[w] # None})
<1> DEFINE waiting == {q[i] : i \in 1..Len(q)}
           having == {w \in Workers : f[w] # None}
           taken == {f[w] : w \in having}
           at == [i \in 1..Len(q) |-> q[i]]
           by == [w \in having |-> f[w]]
<1>1. DOMAIN q = 1..Len(q) /\ Len(q) \in Nat /\ \A i \in 1..Len(q) : q[i] \in Conns
  BY LenProperties, ElementOfSeq
<1>2. ({q[i] : i \in DOMAIN q} \cup {f[w] : w \in Workers}) \ {None} = waiting \cup taken
  BY <1>1, NoneIsNoConn
<1>3. waiting \cap taken = {}
  OBVIOUS
<1>4. IsFiniteSet(waiting) /\ Cardinality(waiting) = Len(q)
  <2>1. at \in Bijection(1..Len(q), waiting)
    BY DEF Bijection, Injection, Surjection, IsInjective
  <2>2. ExistsBijection(1..Len(q), waiting)
    BY <2>1 DEF ExistsBijection
  <2>3. IsFiniteSet(1..Len(q)) /\ Cardinality(1..Len(q)) = Len(q)
    <3> DEFINE n == Len(q)
    <3>1. n \in Nat
      BY <1>1
    <3> HIDE DEF n
    <3>2. IsFiniteSet(1..n) /\ Cardinality(1..n) = IF 1 > n THEN 0 ELSE n - 1 + 1
      BY <3>1, FS_Interval
    <3>3. IsFiniteSet(1..n) /\ Cardinality(1..n) = n
      BY <3>1, <3>2
    <3> QED BY <3>3 DEF n
  <2> QED BY <2>2, <2>3, FS_Bijection
<1>5. IsFiniteSet(taken) /\ Cardinality(taken) = Cardinality(having)
  <2>1. by \in Bijection(having, taken)
    BY DEF Bijection, Injection, Surjection, IsInjective
  <2>2. ExistsBijection(having, taken)
    BY <2>1 DEF ExistsBijection
  <2>3. IsFiniteSet(having)
    BY DatabaseAssumption, FS_Subset
  <2> QED BY <2>2, <2>3, FS_Bijection
<1>6. Cardinality(having) \in Nat
  BY DatabaseAssumption, FS_Subset, FS_CardinalityType
<1> HIDE DEF waiting, taken, having
<1>7. Cardinality(waiting \cup taken) = Len(q) + Cardinality(having) - Cardinality(waiting \cap taken)
  BY <1>4, <1>5, FS_Union
<1>8. Cardinality(waiting \cup taken) = Len(q) + Cardinality(having)
  <2>1. Cardinality(waiting \cap taken) = 0
    BY <1>3, FS_EmptySet
  <2> QED BY <1>1, <1>6, <1>7, <2>1
<1> QED BY <1>2, <1>8 DEF having

\* While fewer connections are made than there may be, the next one is a new one.
LEMMA FreshNew ==
    ASSUME TypeOK, PoolInv, created < MaxSize
    PROVE  Fresh \in Conns /\ Fresh \notin Made
<1>1. Made \ {None} \subseteq Conns
  BY ElementOfSeq, LenProperties DEF TypeOK, Made
<1>2. Cardinality(Conns) = MaxSize /\ IsFiniteSet(Conns)
  BY NoneIsNoConn, FS_Interval DEF Conns
<1>3. Cardinality(Made \ {None}) < Cardinality(Conns)
  BY <1>2 DEF PoolInv, CountsMatch
<1>4. \E c \in Conns : c \notin Made
  <2>1. Made \ {None} # Conns
    BY <1>2, <1>3, NoneIsNoConn
  <2>2. PICK c \in Conns : c \notin Made \ {None}
    BY <1>1, <2>1
  <2> QED BY <2>2, NoneIsNoConn
<1> QED BY <1>4 DEF Fresh

\* The books of the next state, from where its connections are.
LEMMA BooksKept ==
    ASSUME idle' \in Seq(Conns), lease' \in [Workers -> Conns \cup {None}],
           \A i, k \in 1..Len(idle') : idle'[i] = idle'[k] => i = k,
           \A w, v \in Workers : lease'[w] = lease'[v] /\ lease'[w] # None => w = v,
           \A w \in Workers, i \in 1..Len(idle') : idle'[i] # lease'[w],
           inUse' = Cardinality(Lent'), created' = Len(idle') + Cardinality(Lent'),
           stopped' => idle' = <<>>
    PROVE  CountsMatch'
<1>1. Cardinality(({idle'[i] : i \in DOMAIN idle'} \cup {lease'[w] : w \in Workers}) \ {None})
        = Len(idle') + Cardinality({w \in Workers : lease'[w] # None})
  BY MadeCounted
<1> QED BY <1>1 DEF CountsMatch, Made, Lent

\* A worker gets a connection, or gives up the one it has.
LEMMA LentMore ==
    ASSUME TypeOK, NEW w \in Workers, lease[w] = None, NEW c \in Conns,
           lease' = [lease EXCEPT ![w] = c]
    PROVE  Cardinality(Lent') = Cardinality(Lent) + 1
<1>1. Lent' = Lent \cup {w} /\ w \notin Lent
  BY NoneIsNoConn DEF TypeOK, Lent
<1> QED BY <1>1, LentFinite, FS_AddElement

LEMMA LentLess ==
    ASSUME TypeOK, NEW w \in Workers, lease[w] # None, lease' = [lease EXCEPT ![w] = None]
    PROVE  Cardinality(Lent') = Cardinality(Lent) - 1 /\ Cardinality(Lent) \in Nat \ {0}
<1>1. Lent' = Lent \ {w} /\ w \in Lent
  BY DEF TypeOK, Lent
<1>2. Cardinality(Lent') = Cardinality(Lent) - 1
  BY <1>1, LentFinite, FS_RemoveElement
<1>3. Cardinality(Lent) # 0
  BY <1>1, LentFinite, FS_EmptySet
<1> QED BY <1>2, <1>3, LentFinite

-----------------------------------------------------------------------------
(* The pool *)

PoolTyped ==
    /\ idle \in Seq(Conns)
    /\ created \in 0..MaxSize /\ inUse \in 0..MaxSize /\ warming \in 0..MaxSize
    /\ stopped \in BOOLEAN
    /\ lease \in [Workers -> Conns \cup {None}]

\* What the counts of the pool amount to.
LEMMA Books ==
    ASSUME TypeOK, PoolInv
    PROVE  /\ PoolTyped /\ Len(idle) \in Nat /\ Cardinality(Lent) \in Nat
           /\ inUse = Cardinality(Lent) /\ created = Len(idle) + Cardinality(Lent)
           /\ \A i \in 1..Len(idle) : idle[i] \in Conns
           /\ MaxSize \in Nat
BY LenProperties, ElementOfSeq, LentFinite, NoneIsNoConn
   DEF TypeOK, PoolInv, CountsMatch, Lent, PoolTyped

\* A connection that joins the idle ones, wherever it was before.
LEMMA IdleMore ==
    ASSUME TypeOK, PoolInv, NEW c \in Conns, \A i \in 1..Len(idle) : idle[i] # c,
           idle' = Append(idle, c)
    PROVE  /\ idle' \in Seq(Conns) /\ Len(idle') = Len(idle) + 1
           /\ \A i, k \in 1..Len(idle') : idle'[i] = idle'[k] => i = k
           /\ \A i \in 1..Len(idle') : idle'[i] = c \/ \E k \in 1..Len(idle) : idle'[i] = idle[k]
<1>1. /\ idle' \in Seq(Conns) /\ Len(idle') = Len(idle) + 1 /\ Len(idle) \in Nat
      /\ \A i \in 1..Len(idle) : idle'[i] = idle[i]
      /\ idle'[Len(idle) + 1] = c
  BY AppendProperties, LenProperties DEF TypeOK
<1>2. \A i \in 1..Len(idle') : i \in 1..Len(idle) \/ i = Len(idle) + 1
  BY <1>1
<1> QED BY <1>1, <1>2 DEF PoolInv

LEMMA PrewarmPool ==
    ASSUME Base, Prewarm
    PROVE  PoolTyped' /\ PoolInv'
<1>0. /\ TypeOK /\ PoolInv /\ warming \in Nat \ {0} /\ created + warming <= MaxSize
      /\ ~stopped /\ UNCHANGED <<inUse, stopped, lease, pc>>
      /\ \A w \in Workers : pc[w] = "idle"
  BY DEF Base, Prewarm, PoolInv, TypeOK, workVars
<1>1. Lent' = Lent
  BY <1>0 DEF Lent
<1>2. CASE warming' = 0 /\ UNCHANGED <<idle, created>>
  <2>1. CountsMatch'
    BY <1>0, <1>2 DEF PoolInv, CountsMatch, Made
  <2> QED BY <1>0, <1>2, <2>1, Books DEF PoolInv, PoolTyped
<1>3. CASE /\ idle' = Append(idle, Fresh)
           /\ created' = created + 1
           /\ warming' = warming - 1
  <2>1. created < MaxSize /\ created \in Nat
    BY <1>0, Books DEF PoolTyped
  <2>2. Fresh \in Conns /\ Fresh \notin Made
    BY <1>0, <2>1, FreshNew
  <2>3. /\ \A i \in 1..Len(idle) : idle[i] # Fresh
        /\ \A w \in Workers : lease[w] # Fresh
    BY <1>0, <2>2, LenProperties DEF Made, TypeOK
  <2> DEFINE c == Fresh
  <2>4. c \in Conns /\ idle' = Append(idle, c) /\ \A i \in 1..Len(idle) : idle[i] # c
    BY <1>3, <2>2, <2>3
  <2> HIDE DEF c
  <2>5. /\ idle' \in Seq(Conns) /\ Len(idle') = Len(idle) + 1
        /\ \A i, k \in 1..Len(idle') : idle'[i] = idle'[k] => i = k
        /\ \A i \in 1..Len(idle') : idle'[i] = c \/ \E k \in 1..Len(idle) : idle'[i] = idle[k]
    BY <1>0, <2>4, IdleMore
  <2>6. \A w \in Workers, i \in 1..Len(idle') : idle'[i] # lease'[w]
    BY <1>0, <2>3, <2>5 DEF PoolInv, c
  <2>7. \A w, v \in Workers : lease'[w] = lease'[v] /\ lease'[w] # None => w = v
    BY <1>0 DEF PoolInv
  <2>8. inUse' = Cardinality(Lent') /\ created' = Len(idle') + Cardinality(Lent')
    BY <1>0, <1>1, <1>3, <2>5, Books
  <2>9. lease' \in [Workers -> Conns \cup {None}] /\ ~stopped'
    BY <1>0, Books DEF PoolTyped
  <2>10. CountsMatch'
    BY <2>5, <2>6, <2>7, <2>8, <2>9, BooksKept
  <2>11. PoolTyped'
    BY <1>0, <1>3, <2>1, <2>5, <2>9, Books DEF PoolTyped
  <2>12. created' + warming' <= MaxSize
    BY <1>0, <1>3, <2>1, Books
  <2> QED BY <1>0, <2>5, <2>6, <2>7, <2>9, <2>10, <2>11, <2>12 DEF PoolInv
<1> QED BY <1>2, <1>3 DEF Prewarm

LEMMA StopPool ==
    ASSUME Base, Stop
    PROVE  PoolTyped' /\ PoolInv'
<1>0. /\ TypeOK /\ PoolInv /\ warming = 0 /\ idle' = <<>> /\ stopped'
      /\ created' = created - Len(idle) /\ UNCHANGED <<inUse, warming, lease, pc>>
      /\ stopped' \in BOOLEAN
  BY DEF Base, Stop, workVars
<1>1. Lent' = Lent
  BY <1>0 DEF Lent
<1>2. idle' \in Seq(Conns) /\ Len(idle') = 0
  BY <1>0, EmptySeq
<1>3. inUse' = Cardinality(Lent') /\ created' = Len(idle') + Cardinality(Lent')
  BY <1>0, <1>1, <1>2, Books
<1>4. lease' \in [Workers -> Conns \cup {None}]
      /\ \A w, v \in Workers : lease'[w] = lease'[v] /\ lease'[w] # None => w = v
  BY <1>0, Books DEF PoolInv, PoolTyped
<1>5. CountsMatch'
  BY <1>0, <1>2, <1>3, <1>4, BooksKept
<1>6. PoolTyped'
  <2>1. created' \in 0..MaxSize
    BY <1>0, Books DEF PoolTyped
  <2> QED BY <1>0, <1>2, <1>4, <2>1, Books DEF PoolTyped
<1> QED BY <1>0, <1>2, <1>4, <1>5, <1>6 DEF PoolInv

\* A job begins with a connection of its own, or not at all.
LEMMA AcquirePool ==
    ASSUME Base, NEW w \in Workers, TryAcquire(w)
    PROVE  PoolTyped' /\ PoolInv'
<1>0. /\ TypeOK /\ PoolInv /\ warming = 0 /\ UNCHANGED <<stopped, warming>>
      /\ pc[w] = "idle" /\ lease[w] = None
  BY DEF Base, PoolInv, TryAcquire
<1>1. PICK j \in Jobs : Lend(w, j) \/ Reserve(w, j) \/ Refuse(w, j)
  BY DEF TryAcquire
<1>2. CASE Lend(w, j)
  <2> DEFINE n == Len(idle)
             c == idle[n]
  <2>1. n \in Nat \ {0} /\ c \in Conns
    BY <1>0, <1>2, Books, EmptySeq DEF Lend, PoolTyped
  <2>2. /\ idle' \in Seq(Conns) /\ Len(idle') = n - 1
        /\ \A i \in 1..(n - 1) : idle'[i] = idle[i]
    <3>1. \A i \in 1..(n - 1) : idle[i] \in Conns
      BY <1>0, Books
    <3>2. 1 \in 1..(Len(idle) + 1) /\ n - 1 \in (1 - 1)..Len(idle)
      BY <2>1
    <3>3. idle' = SubSeq(idle, 1, n - 1)
      BY <1>2 DEF Lend
    <3> DEFINE m == n - 1
    <3>4. m \in Nat /\ m \in (1 - 1)..Len(idle) /\ \A i \in 1..m : idle[i] \in Conns
      BY <2>1, <3>1, <3>2
    <3> HIDE DEF m
    <3>5. /\ SubSeq(idle, 1, m) \in Seq(Conns)
          /\ Len(SubSeq(idle, 1, m)) = m
          /\ \A i \in 1..m : SubSeq(idle, 1, m)[i] = idle[i]
      <4>1. Len(SubSeq(idle, 1, m)) = IF 1 <= m THEN m - 1 + 1 ELSE 0
        BY <3>2, <3>4, SubSeqProperties
      <4>2. \A i \in 1..(m - 1 + 1) : SubSeq(idle, 1, m)[i] = idle[1 + i - 1]
        BY <3>2, <3>4, SubSeqProperties
      <4>3. SubSeq(idle, 1, m) \in Seq(Conns)
        BY <3>2, <3>4, SubSeqProperties
      <4> QED BY <3>4, <4>1, <4>2, <4>3
    <3> QED BY <3>3, <3>5 DEF m
  <2>3. lease' = [lease EXCEPT ![w] = c]
    BY <1>2 DEF Lend
  <2>4. Cardinality(Lent') = Cardinality(Lent) + 1
    <3> HIDE DEF c
    <3> QED BY <1>0, <2>1, <2>3, LentMore
  <2>5. lease' \in [Workers -> Conns \cup {None}]
    BY <1>0, <2>1, <2>3 DEF TypeOK
  <2>6. \A u \in Workers : lease'[u] = IF u = w THEN c ELSE lease[u]
    BY <1>0, <2>3 DEF TypeOK
  <2> HIDE DEF n
  <2>7. \A u \in Workers : lease[u] # c
    <3>1. n \in 1..Len(idle)
      BY <2>1 DEF n
    <3> QED BY <1>0, <3>1 DEF PoolInv
  <2>8. \A i \in 1..(n - 1) : i \in 1..n /\ i # n
    BY <2>1
  <2>9. /\ \A i, k \in 1..Len(idle') : idle'[i] = idle'[k] => i = k
        /\ \A u, v \in Workers : lease'[u] = lease'[v] /\ lease'[u] # None => u = v
        /\ \A u \in Workers, i \in 1..Len(idle') : idle'[i] # lease'[u]
    <3>1. \A i, k \in 1..n : idle[i] = idle[k] => i = k
      BY <1>0 DEF PoolInv, n
    <3>2. \A u \in Workers, i \in 1..n : idle[i] # lease[u]
      BY <1>0 DEF PoolInv, n
    <3>3. \A u, v \in Workers : lease[u] = lease[v] /\ lease[u] # None => u = v
      BY <1>0 DEF PoolInv
    <3> QED BY <2>1, <2>2, <2>6, <2>7, <2>8, <3>1, <3>2, <3>3
  <2>10. /\ inUse' = Cardinality(Lent') /\ created' = Len(idle') + Cardinality(Lent')
         /\ ~stopped' /\ inUse' \in 0..MaxSize /\ created' \in 0..MaxSize
    <3>1. /\ inUse = Cardinality(Lent) /\ created = n + Cardinality(Lent)
          /\ Cardinality(Lent) \in Nat /\ created \in 0..MaxSize /\ MaxSize \in Nat
      BY <1>0, Books DEF PoolTyped, n
    <3>2. inUse' = inUse + 1 /\ created' = created /\ ~stopped'
      BY <1>0, <1>2 DEF Lend
    <3> QED BY <2>1, <2>2, <2>4, <3>1, <3>2, SMTT(60)
  <2>11. CountsMatch'
    BY <2>2, <2>5, <2>9, <2>10, BooksKept
  <2>12. PoolTyped'
    BY <1>0, <2>2, <2>5, <2>10, Books DEF PoolTyped
  <2>13. \A u \in Workers : lease'[u] = None <=> pc'[u] = "idle"
    BY <1>0, <1>2, <2>1, <2>6, NoneIsNoConn DEF Lend, Goto, PoolInv, TypeOK
  <2> QED BY <1>0, <2>9, <2>11, <2>12, <2>13 DEF PoolInv
<1>3. CASE Reserve(w, j)
  <2> DEFINE c == Fresh
  <2>1. c \in Conns /\ c \notin Made
    BY <1>0, <1>3, FreshNew DEF Reserve
  <2>2. lease' = [lease EXCEPT ![w] = c]
    BY <1>3 DEF Reserve
  <2> HIDE DEF c
  <2>3. Cardinality(Lent') = Cardinality(Lent) + 1
    BY <1>0, <2>1, <2>2, LentMore
  <2>4. /\ lease' \in [Workers -> Conns \cup {None}]
        /\ \A u \in Workers : lease'[u] = IF u = w THEN c ELSE lease[u]
    BY <1>0, <2>1, <2>2 DEF TypeOK
  <2>5. \A u \in Workers : lease[u] # c
    BY <2>1 DEF Made
  <2>6. idle' = <<>> /\ Len(idle') = 0 /\ idle' \in Seq(Conns) /\ idle' = idle
    BY <1>3, EmptySeq DEF Reserve
  <2>7. \A u, v \in Workers : lease'[u] = lease'[v] /\ lease'[u] # None => u = v
    BY <1>0, <2>4, <2>5 DEF PoolInv
  <2>8. /\ inUse' = Cardinality(Lent') /\ created' = Len(idle') + Cardinality(Lent')
        /\ inUse' \in 0..MaxSize /\ created' \in 0..MaxSize
    BY <1>0, <1>3, <2>3, <2>6, Books DEF Reserve, PoolTyped
  <2>9. CountsMatch'
    BY <2>4, <2>6, <2>7, <2>8, BooksKept
  <2>10. PoolTyped'
    BY <1>0, <2>4, <2>6, <2>8, Books DEF PoolTyped
  <2>11. \A u \in Workers : lease'[u] = None <=> pc'[u] = "idle"
    BY <1>0, <1>3, <2>1, <2>4, NoneIsNoConn DEF Reserve, Goto, PoolInv, TypeOK
  <2> QED BY <1>0, <2>6, <2>7, <2>9, <2>10, <2>11 DEF PoolInv
<1>4. CASE Refuse(w, j)
  <2>1. pc' = pc
    BY <1>0, <1>4 DEF Refuse, Goto, TypeOK
  <2>2. UNCHANGED poolVars
    BY <1>0, <1>4 DEF Refuse, poolVars
  <2> QED BY <1>0, <2>1, <2>2, Books DEF PoolInv, PoolTyped, CountsMatch, Made, poolVars
<1> QED BY <1>1, <1>2, <1>3, <1>4

\* A worker without a connection: nobody else has the one it had.
LEMMA LeaseLess ==
    ASSUME TypeOK, PoolInv, NEW w \in Workers, lease[w] # None,
           lease' = [lease EXCEPT ![w] = None], pc' = [pc EXCEPT ![w] = "idle"]
    PROVE  /\ lease' \in [Workers -> Conns \cup {None}]
           /\ lease[w] \in Conns
           /\ \A u \in Workers : lease'[u] = IF u = w THEN None ELSE lease[u]
           /\ \A u \in Workers : lease'[u] # lease[w]
           /\ \A u, v \in Workers : lease'[u] = lease'[v] /\ lease'[u] # None => u = v
           /\ \A u \in Workers : lease'[u] = None <=> pc'[u] = "idle"
<1>1. /\ lease' \in [Workers -> Conns \cup {None}]
      /\ lease[w] \in Conns
      /\ \A u \in Workers : lease'[u] = IF u = w THEN None ELSE lease[u]
  BY DEF TypeOK
<1>2. \A u \in Workers : pc'[u] = IF u = w THEN "idle" ELSE pc[u]
  BY DEF TypeOK
<1> QED BY <1>1, <1>2, NoneIsNoConn DEF PoolInv

LEMMA OpenFailedPool ==
    ASSUME Base, NEW w \in Workers, OpenFailed(w)
    PROVE  PoolTyped' /\ PoolInv'
<1>0. /\ TypeOK /\ PoolInv /\ UNCHANGED <<idle, stopped, warming>>
      /\ pc[w] = "opening" /\ lease[w] # None
      /\ lease' = [lease EXCEPT ![w] = None] /\ pc' = [pc EXCEPT ![w] = "idle"]
      /\ created' = created - 1 /\ inUse' = inUse - 1
  BY DEF Base, PoolInv, OpenFailed, Goto
<1>1. warming = 0
  BY <1>0 DEF PoolInv, TypeOK
<1>2. /\ lease' \in [Workers -> Conns \cup {None}]
      /\ \A u \in Workers : lease'[u] = IF u = w THEN None ELSE lease[u]
      /\ \A u, v \in Workers : lease'[u] = lease'[v] /\ lease'[u] # None => u = v
      /\ \A u \in Workers : lease'[u] = None <=> pc'[u] = "idle"
  BY <1>0, LeaseLess
<1>3. Cardinality(Lent') = Cardinality(Lent) - 1 /\ Cardinality(Lent) \in Nat \ {0}
  BY <1>0, LentLess
<1>4. /\ inUse' = Cardinality(Lent') /\ created' = Len(idle') + Cardinality(Lent')
      /\ inUse' \in 0..MaxSize /\ created' \in 0..MaxSize
  BY <1>0, <1>3, Books, SMTT(60) DEF PoolTyped
<1>5. /\ idle' \in Seq(Conns)
      /\ \A i, k \in 1..Len(idle') : idle'[i] = idle'[k] => i = k
      /\ \A u \in Workers, i \in 1..Len(idle') : idle'[i] # lease'[u]
      /\ stopped' => idle' = <<>>
  BY <1>0, <1>2, Books, NoneIsNoConn DEF PoolInv, CountsMatch, PoolTyped
<1>6. CountsMatch'
  BY <1>2, <1>4, <1>5, BooksKept
<1>7. PoolTyped'
  BY <1>0, <1>2, <1>4, <1>5, Books DEF PoolTyped
<1> QED BY <1>0, <1>1, <1>2, <1>5, <1>6, <1>7 DEF PoolInv

\* A connection that comes back is kept or dropped, and counted accordingly.
LEMMA ReturnPool ==
    ASSUME Base, NEW w \in Workers, Return(w)
    PROVE  PoolTyped' /\ PoolInv'
<1> DEFINE c == lease[w]
           kept == c \in open /\ ~stopped
<1>0. /\ TypeOK /\ PoolInv /\ UNCHANGED <<stopped, warming>>
      /\ pc[w] = "return" /\ lease[w] # None
      /\ lease' = [lease EXCEPT ![w] = None] /\ pc' = [pc EXCEPT ![w] = "idle"]
      /\ inUse' = inUse - 1
  BY DEF Base, PoolInv, Return, Goto
<1>1. warming = 0
  BY <1>0 DEF PoolInv, TypeOK
<1>2. /\ lease' \in [Workers -> Conns \cup {None}]
      /\ c \in Conns
      /\ \A u \in Workers : lease'[u] = IF u = w THEN None ELSE lease[u]
      /\ \A u \in Workers : lease'[u] # c
      /\ \A u, v \in Workers : lease'[u] = lease'[v] /\ lease'[u] # None => u = v
      /\ \A u \in Workers : lease'[u] = None <=> pc'[u] = "idle"
  BY <1>0, LeaseLess
<1>3. Cardinality(Lent') = Cardinality(Lent) - 1 /\ Cardinality(Lent) \in Nat \ {0}
  BY <1>0, LentLess
<1>4. \A i \in 1..Len(idle) : idle[i] # c
  BY <1>0 DEF PoolInv
<1>5. \A u \in Workers, i \in 1..Len(idle) : idle[i] # lease'[u]
  BY <1>0, <1>2, Books, NoneIsNoConn DEF PoolInv
<1>6. /\ idle' \in Seq(Conns)
      /\ \A i, k \in 1..Len(idle') : idle'[i] = idle'[k] => i = k
      /\ \A u \in Workers, i \in 1..Len(idle') : idle'[i] # lease'[u]
      /\ stopped' => idle' = <<>>
      /\ created' = Len(idle') + Cardinality(Lent')
      /\ created' \in 0..MaxSize
  <2>1. CASE kept
    <3>1. idle' = Append(idle, c) /\ created' = created /\ ~stopped'
      BY <1>0, <2>1 DEF Return
    <3> HIDE DEF c, kept
    <3>2. /\ idle' \in Seq(Conns) /\ Len(idle') = Len(idle) + 1
          /\ \A i, k \in 1..Len(idle') : idle'[i] = idle'[k] => i = k
          /\ \A i \in 1..Len(idle') : idle'[i] = c \/ \E k \in 1..Len(idle) : idle'[i] = idle[k]
      BY <1>0, <1>2, <1>4, <3>1, IdleMore
    <3>3. \A u \in Workers, i \in 1..Len(idle') : idle'[i] # lease'[u]
      BY <1>2, <1>5, <3>2
    <3>4. created' = Len(idle') + Cardinality(Lent') /\ created' \in 0..MaxSize
      BY <1>0, <1>3, <3>1, <3>2, Books DEF PoolTyped
    <3> QED BY <3>1, <3>2, <3>3, <3>4
  <2>2. CASE ~kept
    <3>1. idle' = idle /\ created' = created - 1
      BY <1>0, <2>2 DEF Return
    <3>2. created' = Len(idle') + Cardinality(Lent') /\ created' \in 0..MaxSize
      BY <1>0, <1>3, <3>1, Books, SMTT(60) DEF PoolTyped
    <3> QED BY <1>0, <1>5, <3>1, <3>2, Books DEF PoolInv, CountsMatch, PoolTyped
  <2> QED BY <2>1, <2>2
<1>7. inUse' = Cardinality(Lent') /\ inUse' \in 0..MaxSize
  BY <1>0, <1>3, Books DEF PoolTyped
<1>8. CountsMatch'
  BY <1>2, <1>6, <1>7, BooksKept
<1>9. PoolTyped'
  BY <1>0, <1>2, <1>6, <1>7, Books DEF PoolTyped
<1> QED BY <1>0, <1>1, <1>2, <1>6, <1>8, <1>9 DEF PoolInv

\* Steps that leave the pool alone.
LEMMA PoolKept ==
    ASSUME TypeOK, PoolInv, UNCHANGED poolVars,
           \A w \in Workers : pc'[w] = "idle" <=> pc[w] = "idle"
    PROVE  PoolTyped' /\ PoolInv'
BY Books DEF PoolInv, PoolTyped, CountsMatch, Made, poolVars

LEMMA PoolStep ==
    ASSUME Base, Next
    PROVE  PoolTyped' /\ PoolInv'
<1>0. TypeOK /\ PoolInv
  BY DEF Base
<1>1. ASSUME NEW w \in Workers, Worker(w) \/ ReadTimeout(w) PROVE PoolTyped' /\ PoolInv'
  <2>1. CASE TryAcquire(w) \/ OpenFailed(w) \/ Return(w)
    BY <2>1, AcquirePool, OpenFailedPool, ReturnPool
  <2>2. CASE OpenDone(w) \/ TradeAtOnce(w) \/ TradeBegin(w)
    BY <1>0, <2>2, PoolKept DEF OpenDone, TradeAtOnce, TradeBegin, Goto, TypeOK, poolVars
  <2>3. CASE Try(w)
    <3>1. pc[w] = "try" /\ UNCHANGED poolVars /\ \E l : l # "idle" /\ Goto(w, l)
      BY <2>3 DEF Try, Call, Lost
    <3> QED BY <1>0, <3>1, PoolKept DEF Goto, TypeOK
  <2>4. CASE CallDone(w) \/ CallLost(w) \/ ReadTimeout(w)
    <3>1. pc[w] = "calling" /\ UNCHANGED poolVars /\ \E l : l # "idle" /\ Goto(w, l)
      BY <2>4 DEF CallDone, CallLost, ReadTimeout, Lost
    <3> QED BY <1>0, <3>1, PoolKept DEF Goto, TypeOK
  <2>5. CASE Select(w) \/ Reconnect(w) \/ Reselect(w)
    <3>1. pc[w] # "idle" /\ UNCHANGED poolVars /\ \E l : l # "idle" /\ Goto(w, l)
      BY <2>5 DEF Select, Reconnect, Reselect, FinishLook
    <3> QED BY <1>0, <3>1, PoolKept DEF Goto, TypeOK
  <2> QED BY <1>1, <2>1, <2>2, <2>3, <2>4, <2>5 DEF Worker
<1>2. ASSUME NEW j \in Jobs, Server(j) \/ LockTimeout(j) PROVE PoolTyped' /\ PoolInv'
  BY <1>0, <1>2, PoolKept DEF Server, Lock, Moves, Commit, LockTimeout, ServerOnly, workVars
<1>3. ASSUME NEW c \in Conns, Break(c) PROVE PoolTyped' /\ PoolInv'
  BY <1>0, <1>3, PoolKept DEF Break, workVars
<1>4. CASE Deploy
  BY <1>0, <1>4, PoolKept DEF Deploy, ServerOnly, workVars
<1> QED BY <1>1, <1>2, <1>3, <1>4, PrewarmPool, StopPool DEF Next

-----------------------------------------------------------------------------
(* Connections *)

ConnTyped == alive \cup dirty \cup prepared \subseteq open /\ open \subseteq Conns

\* Nothing happens to any connection but the one worker w has.
OnlyLent(w) ==
    /\ idle' = idle
    /\ \A c \in Conns \ {lease[w]} :
          (c \in dirty' => c \in dirty) /\ (c \in alive' => c \in alive)

LEMMA BusyHasConn ==
    ASSUME Base, NEW w \in Workers, pc[w] # "idle"
    PROVE  lease[w] \in Conns
BY DEF Base, TypeOK, PoolInv

LEMMA PrewarmConn ==
    ASSUME Base, IdleIsClean, Prewarm
    PROVE  ConnTyped' /\ IdleIsClean'
<1>0. TypeOK /\ PoolInv /\ warming \in Nat \ {0}
  BY DEF Base, Prewarm, TypeOK
<1>1. CASE UNCHANGED <<idle, connVars>>
  BY <1>0, <1>1 DEF connVars, ConnTyped, TypeOK, IdleIsClean
<1>2. CASE Connected(Fresh) /\ idle' = Append(idle, Fresh)
  <2>1. created < MaxSize
    BY <1>0, Books DEF PoolInv, PoolTyped
  <2> DEFINE c == Fresh
  <2>2. c \in Conns /\ c \notin Made
    BY <1>0, <2>1, FreshNew
  <2>3. /\ open' = open \cup {c} /\ alive' = alive \cup {c} /\ dirty' = dirty \ {c}
        /\ prepared' \subseteq prepared \cup {c} /\ idle' = Append(idle, c)
    BY <1>2 DEF Connected, Prepared
  <2> HIDE DEF c
  <2>4. ConnTyped'
    BY <1>0, <2>2, <2>3 DEF TypeOK, ConnTyped
  <2>5. DOMAIN idle = 1..Len(idle) /\ DOMAIN idle' = 1..Len(idle')
    BY <1>0, <2>2, <2>3, AppendProperties, LenProperties DEF TypeOK
  <2>6. /\ \A i \in 1..Len(idle) : idle[i] # c
        /\ \A i \in 1..Len(idle') : idle'[i] = c \/ \E k \in 1..Len(idle) : idle'[i] = idle[k]
    <3>1. \A i \in 1..Len(idle) : idle[i] # c
      BY <2>2, <2>5 DEF Made
    <3> QED BY <1>0, <2>2, <2>3, <3>1, IdleMore
  <2>7. IdleIsClean'
    BY <2>3, <2>5, <2>6 DEF IdleIsClean
  <2> QED BY <2>4, <2>7
<1> QED BY <1>1, <1>2 DEF Prewarm

LEMMA StopConn ==
    ASSUME Base, IdleIsClean, Stop
    PROVE  ConnTyped' /\ IdleIsClean'
<1>1. ConnTyped'
  BY DEF Base, Stop, ClosedAll, TypeOK, ConnTyped
<1>2. DOMAIN idle' = {}
  BY EmptySeq DEF Stop
<1> QED BY <1>1, <1>2 DEF IdleIsClean

LEMMA LentConnClean ==
    ASSUME Base, IdleIsClean, NEW w \in Workers, OnlyLent(w)
    PROVE  IdleIsClean'
<1>1. DOMAIN idle = 1..Len(idle) /\ \A i \in 1..Len(idle) : idle[i] \in Conns
  BY LenProperties, ElementOfSeq DEF Base, TypeOK
<1>2. \A i \in 1..Len(idle) : idle[i] # lease[w]
  BY DEF Base, PoolInv
<1> QED BY <1>1, <1>2 DEF IdleIsClean, OnlyLent

LEMMA WorkerConn ==
    ASSUME Base, IdleIsClean, NEW w \in Workers,
           Worker(w) \/ ReadTimeout(w), ~TryAcquire(w), ~Return(w)
    PROVE  ConnTyped' /\ IdleIsClean'
<1> DEFINE c == lease[w]
<1>0. ConnTyped
  BY DEF Base, TypeOK, ConnTyped
<1>1. c \in Conns
  <2>1. pc[w] # "idle"
    BY DEF Worker, OpenDone, OpenFailed, TradeAtOnce, TradeBegin, Try, CallDone, CallLost,
           Select, Reconnect, Reselect, ReadTimeout
  <2> QED BY <2>1, BusyHasConn
<1>2. ASSUME UNCHANGED <<idle, open, alive, dirty, prepared>> PROVE ConnTyped' /\ OnlyLent(w)
  BY <1>0, <1>2 DEF ConnTyped, OnlyLent
<1>3. ASSUME Connected(c), idle' = idle PROVE ConnTyped' /\ OnlyLent(w)
  BY <1>0, <1>1, <1>3 DEF Connected, Prepared, ConnTyped, OnlyLent
<1>4. ASSUME Closed(c), idle' = idle PROVE ConnTyped' /\ OnlyLent(w)
  BY <1>0, <1>1, <1>4 DEF Closed, ClosedAll, ConnTyped, OnlyLent
<1>5. ASSUME c \in alive, dirty' = dirty \cup {c}, UNCHANGED <<idle, open, alive, prepared>>
      PROVE  ConnTyped' /\ OnlyLent(w)
  BY <1>0, <1>1, <1>5 DEF ConnTyped, OnlyLent
<1> HIDE DEF c
<1>6. ASSUME NEW found, FinishLook(w, found), idle' = idle, found = "error" => c \in alive
      PROVE  ConnTyped' /\ OnlyLent(w)
  BY <1>2, <1>5, <1>6 DEF FinishLook, c
<1>7. ASSUME NEW found \in Dispatched(c) PROVE found = "error" => c \in alive
  BY <1>7 DEF Dispatched, LookedUp
<1>8. ConnTyped' /\ OnlyLent(w)
  <2>1. CASE OpenDone(w)
    BY <1>3, <2>1 DEF OpenDone, poolVars, c
  <2>2. CASE OpenFailed(w) \/ TradeAtOnce(w) \/ TradeBegin(w)
    BY <1>2, <2>2 DEF OpenFailed, TradeAtOnce, TradeBegin, poolVars, connVars
  <2>3. CASE Try(w)
    BY <1>2, <1>4, <2>3 DEF Try, Call, Lost, poolVars, connVars, c
  <2>4. CASE CallDone(w)
    BY <1>2, <1>5, <2>4 DEF CallDone, poolVars, c
  <2>5. CASE CallLost(w) \/ ReadTimeout(w)
    BY <1>4, <2>5 DEF CallLost, ReadTimeout, Lost, poolVars, c
  <2>6. CASE Select(w)
    BY <1>4, <1>6, <1>7, <2>6 DEF Select, poolVars, c
  <2>7. CASE Reconnect(w)
    BY <1>3, <1>6, <2>7 DEF Reconnect, poolVars, c
  <2>8. CASE Reselect(w)
    BY <1>6, <1>7, <2>8 DEF Reselect, poolVars, c
  <2> QED BY <2>1, <2>2, <2>3, <2>4, <2>5, <2>6, <2>7, <2>8 DEF Worker
<1> QED BY <1>8, LentConnClean

LEMMA AcquireConn ==
    ASSUME Base, IdleIsClean, NEW w \in Workers, TryAcquire(w)
    PROVE  ConnTyped' /\ IdleIsClean'
<1>1. ConnTyped'
  BY DEF Base, TypeOK, TryAcquire, ConnTyped, connVars
<1>2. \A i \in DOMAIN idle' : i \in DOMAIN idle /\ idle'[i] = idle[i]
  <2>1. CASE idle' = idle
    BY <2>1
  <2>2. CASE idle # <<>> /\ idle' = SubSeq(idle, 1, Len(idle) - 1)
    <3> DEFINE m == Len(idle) - 1
    <3>1. idle \in Seq(Conns) /\ m \in Nat /\ DOMAIN idle = 1..(m + 1)
          /\ \A i \in 1..m : idle[i] \in Conns
      BY <2>2, LenProperties, ElementOfSeq, EmptySeq DEF Base, TypeOK
    <3>2. idle' = SubSeq(idle, 1, m)
      BY <2>2
    <3> HIDE DEF m
    <3>3. /\ SubSeq(idle, 1, m) \in Seq(Conns)
          /\ Len(SubSeq(idle, 1, m)) = IF 1 <= m THEN m - 1 + 1 ELSE 0
          /\ \A i \in 1..(m - 1 + 1) : SubSeq(idle, 1, m)[i] = idle[1 + i - 1]
      BY <3>1, SubSeqProperties
    <3>4. DOMAIN idle' = 1..Len(idle') /\ Len(idle') = m /\ \A i \in 1..m : idle'[i] = idle[i]
      BY <3>1, <3>2, <3>3, LenProperties
    <3> QED BY <3>1, <3>4
  <2> QED BY <2>1, <2>2 DEF TryAcquire, Lend, Reserve, Refuse
<1>3. UNCHANGED <<dirty, alive>>
  BY DEF TryAcquire, connVars
<1> QED BY <1>1, <1>2, <1>3 DEF IdleIsClean

\* What comes back has been read, where somebody still sends it.
LEMMA ReturnConn ==
    ASSUME Base, IdleIsClean, NEW w \in Workers, Return(w)
    PROVE  ConnTyped' /\ IdleIsClean'
<1> DEFINE c == lease[w]
<1>0. /\ TypeOK /\ PoolInv /\ ConnTyped /\ c \in Conns /\ \A i \in 1..Len(idle) : idle[i] # c
      /\ DOMAIN idle = 1..Len(idle) /\ \A i \in 1..Len(idle) : idle[i] \in Conns
  BY BusyHasConn, LenProperties, ElementOfSeq DEF Base, TypeOK, ConnTyped, Return, PoolInv
<1>1. CASE c \in open /\ ~stopped
  <2>1. /\ idle' = Append(idle, c) /\ alive' = alive /\ open' = open /\ prepared' = prepared
        /\ dirty' = IF c \in alive THEN dirty \ {c} ELSE dirty
    BY <1>1 DEF Return, Sanitized
  <2> HIDE DEF c
  <2>2. /\ idle' \in Seq(Conns)
        /\ \A i \in 1..Len(idle') : idle'[i] = c \/ \E k \in 1..Len(idle) : idle'[i] = idle[k]
    BY <1>0, <2>1, IdleMore
  <2>3. DOMAIN idle' = 1..Len(idle')
    BY <2>2, LenProperties
  <2> QED BY <1>0, <2>1, <2>2, <2>3 DEF ConnTyped, IdleIsClean
<1>2. CASE ~(c \in open /\ ~stopped)
  <2>1. idle' = idle /\ Closed(c)
    BY <1>2 DEF Return
  <2> QED BY <1>0, <2>1 DEF Closed, ClosedAll, ConnTyped, IdleIsClean
<1> QED BY <1>1, <1>2

LEMMA ConnStep ==
    ASSUME Base, IdleIsClean, Next
    PROVE  ConnTyped' /\ IdleIsClean'
<1>1. ASSUME UNCHANGED <<idle, open, dirty, prepared>>, alive' \subseteq alive
      PROVE  ConnTyped' /\ IdleIsClean'
  BY <1>1 DEF Base, TypeOK, ConnTyped, IdleIsClean
<1>2. CASE \E j \in Jobs : Server(j) \/ LockTimeout(j)
  BY <1>1, <1>2 DEF Server, Lock, Moves, Commit, LockTimeout, ServerOnly, poolVars, connVars
<1>3. CASE Deploy
  BY <1>1, <1>3 DEF Deploy, ServerOnly, poolVars, connVars
<1>4. CASE \E c \in Conns : Break(c)
  BY <1>1, <1>4 DEF Break, poolVars
<1> QED
  BY <1>2, <1>3, <1>4, PrewarmConn, StopConn, WorkerConn, AcquireConn, ReturnConn DEF Next, Worker

-----------------------------------------------------------------------------
(* Workers and their jobs *)

Places == {"idle", "opening", "leased", "try", "calling", "reconnect", "reselect", "return"}

WorkTyped ==
    /\ pc \in [Workers -> Places]
    /\ job \in [Workers -> Jobs \cup {None}]
    /\ tries \in [Workers -> 0..Tries]
    /\ outcome \in [Jobs -> {None} \cup Answers]
    /\ faults \in 0..MaxFaults

LEMMA NoneIsNoJob == None \notin Jobs /\ None \notin Answers
BY DatabaseAssumption DEF Jobs

LEMMA BusyHasJob ==
    ASSUME Base, NEW w \in Workers, pc[w] # "idle"
    PROVE  job[w] \in Jobs
BY DEF Base, TypeOK, WorkerInv

\* A step of worker w on its job, and what it must have seen to for the others.
LEMMA WorkerGoes ==
    ASSUME Base, NEW w \in Workers, pc[w] # "idle", NEW l \in Places \ {"idle"}, Goto(w, l),
           job' = job, \A u \in Workers \ {w} : tries'[u] = tries[u],
           \A j \in Jobs \ {job[w]} : tx'[j] = tx[j] /\ outcome'[j] = outcome[j],
           l = "return" => outcome'[job[w]] # None,
           l = "try" =>
              /\ tries'[w] < Tries /\ Proper(tx'[job[w]].order)
              /\ tx'[job[w]].st = "none" \/ tx'[job[w]].res = "retry",
           l = "calling" => tx'[job[w]].st # "none" /\ Proper(tx'[job[w]].order),
           l \in {"opening", "leased", "reconnect", "reselect"} => tx'[job[w]].st = "none"
    PROVE  pc' \in [Workers -> Places] /\ WorkerInv'
<1>1. /\ pc' \in [Workers -> Places]
      /\ \A u \in Workers : pc'[u] = IF u = w THEN l ELSE pc[u]
  BY DEF Base, TypeOK, Goto, Places
<1>2. \A u \in Workers : pc[u] # "idle" => job[u] \in Jobs
  BY BusyHasJob
<1>3. \A u \in Workers \ {w} :
        pc[u] # "idle" => tx'[job[u]] = tx[job[u]] /\ outcome'[job[u]] = outcome[job[u]]
  BY <1>2, NoneIsNoJob DEF Base, WorkerInv
<1>4. ASSUME NEW u \in Workers
      PROVE  /\ pc'[u] = "try" =>
                  /\ tries'[u] < Tries /\ Proper(tx'[job'[u]].order)
                  /\ tx'[job'[u]].st = "none" \/ tx'[job'[u]].res = "retry"
             /\ pc'[u] = "calling" => tx'[job'[u]].st # "none" /\ Proper(tx'[job'[u]].order)
             /\ pc'[u] \in {"opening", "leased", "reconnect", "reselect"} =>
                  tx'[job'[u]].st = "none"
             /\ pc'[u] = "return" => outcome'[job'[u]] # None
  <2>1. CASE u = w
    BY <1>1, <2>1
  <2>2. CASE u # w
    BY <1>1, <1>3, <2>2 DEF Base, WorkerInv
  <2> QED BY <2>1, <2>2
<1>5. /\ \A u \in Workers : job'[u] = None <=> pc'[u] = "idle"
      /\ \A u, v \in Workers : job'[u] = job'[v] /\ job'[u] # None => u = v
  BY <1>1 DEF Base, WorkerInv
<1>6. ASSUME NEW j \in Jobs, ~Begun(j)' PROVE tx'[j].st = "none"
  <2>1. j # job[w] /\ \A u \in Workers : job[u] # j
    BY <1>6 DEF Begun
  <2>2. ~Begun(j) /\ tx'[j] = tx[j]
    BY <1>6, <2>1 DEF Begun
  <2> QED BY <2>2 DEF Base, WorkerInv
<1> QED BY <1>1, <1>4, <1>5, <1>6 DEF WorkerInv

\* Worker w is done with its job.
LEMMA WorkerEnds ==
    ASSUME Base, NEW w \in Workers, Goto(w, "idle"), job' = [job EXCEPT ![w] = None],
           UNCHANGED <<tries, tx>>,
           \A j \in Jobs : outcome'[j] = None => outcome[j] = None /\ j # job[w]
    PROVE  pc' \in [Workers -> Places] /\ job' \in [Workers -> Jobs \cup {None}] /\ WorkerInv'
<1>1. /\ pc' \in [Workers -> Places] /\ job' \in [Workers -> Jobs \cup {None}]
      /\ \A u \in Workers : pc'[u] = IF u = w THEN "idle" ELSE pc[u]
      /\ \A u \in Workers : job'[u] = IF u = w THEN None ELSE job[u]
  BY DEF Base, TypeOK, Goto, Places
<1>2. ASSUME NEW j \in Jobs, ~Begun(j)' PROVE tx'[j].st = "none"
  <2>1. outcome[j] = None /\ j # job[w] /\ \A u \in Workers \ {w} : job[u] # j
    BY <1>1, <1>2 DEF Begun
  <2>2. ~Begun(j)
    BY <2>1 DEF Begun
  <2> QED BY <2>2 DEF Base, WorkerInv
<1>3. ASSUME NEW u \in Workers, pc'[u] = "return" PROVE outcome'[job'[u]] # None
  <2>1. pc[u] = "return" /\ job'[u] = job[u] /\ job[u] \in Jobs
    BY <1>1, <1>3, BusyHasJob
  <2> QED BY <2>1 DEF Base, WorkerInv
<1>4. ASSUME NEW u \in Workers, pc'[u] # "idle" PROVE pc'[u] = pc[u] /\ job'[u] = job[u]
  BY <1>1, <1>4
<1>5. /\ \A u \in Workers : job'[u] = None <=> pc'[u] = "idle"
      /\ \A u, v \in Workers : job'[u] = job'[v] /\ job'[u] # None => u = v
  BY <1>1 DEF Base, WorkerInv
<1> QED BY <1>1, <1>2, <1>3, <1>4, <1>5 DEF Base, WorkerInv

\* What net_order() makes of an order that is not trivial may be sent.
LEMMA NetProper ==
    ASSUME NEW o \in Orders, ~Trivial(o)
    PROVE  Proper(NetOrder(o))
<1>1. o \in Order /\ o.a # o.b
  BY DatabaseAssumption DEF Order, Trivial
<1>0. \A n, m \in Nat :
        [o EXCEPT !.aCount = n, !.bCount = m] \in Order
        /\ [o EXCEPT !.aCount = n, !.bCount = m].a # [o EXCEPT !.aCount = n, !.bCount = m].b
  BY <1>1 DEF Order
<1>2. CASE o.aItem # o.bItem \/ o.aCount = 0 \/ o.bCount = 0
  BY <1>1, <1>2 DEF NetOrder, Proper
<1>3. CASE ~(o.aItem # o.bItem \/ o.aCount = 0 \/ o.bCount = 0) /\ o.aCount >= o.bCount
  <2>1. NetOrder(o) = [o EXCEPT !.aCount = o.aCount - o.bCount, !.bCount = 0]
    BY <1>3 DEF NetOrder
  <2>2. o.aCount - o.bCount \in Nat /\ 0 \in Nat
    BY <1>1, <1>3 DEF Order
  <2> QED BY <1>0, <2>1, <2>2 DEF Proper
<1>4. CASE ~(o.aItem # o.bItem \/ o.aCount = 0 \/ o.bCount = 0) /\ ~(o.aCount >= o.bCount)
  <2>1. NetOrder(o) = [o EXCEPT !.aCount = 0, !.bCount = o.bCount - o.aCount]
    BY <1>1, <1>4 DEF NetOrder, Order
  <2>2. o.bCount - o.aCount \in Nat /\ 0 \in Nat
    BY <1>1, <1>4 DEF Order
  <2> QED BY <1>0, <2>1, <2>2 DEF Proper
<1> QED BY <1>2, <1>3, <1>4

\* The types and the progress of the work are untouched.
LEMMA WorkKept ==
    ASSUME Base, UNCHANGED <<pc, job, tries, outcome, tx, commits, deployed, faults>>
    PROVE  WorkTyped' /\ ServerTyped' /\ WorkerInv'
BY DEF Base, TypeOK, WorkTyped, Places, ServerTyped, WorkerInv, Begun

\* Steps that leave the server alone keep its types.
LEMMA ServerKept ==
    ASSUME ServerTyped, UNCHANGED <<tx, commits, deployed>>
    PROVE  ServerTyped'
BY DEF ServerTyped

\* A job begins with nothing of it done.
LEMMA AcquireWork ==
    ASSUME Base, NEW w \in Workers, TryAcquire(w)
    PROVE  WorkTyped' /\ ServerTyped' /\ WorkerInv'
<1>0. /\ TypeOK /\ WorkerInv /\ pc[w] = "idle" /\ job[w] = None
      /\ UNCHANGED <<tries, tx, commits, deployed, faults>>
  BY DEF Base, WorkerInv, TryAcquire, serverVars
<1>1. ServerTyped'
  BY <1>0, ServerKept DEF Base
<1>2. PICK j \in Jobs : /\ ~Begun(j)
                        /\ Lend(w, j) \/ Reserve(w, j) \/ Refuse(w, j)
                        /\ job' = [job EXCEPT ![w] = IF pc'[w] = "idle" THEN None ELSE j]
  BY DEF TryAcquire
<1>3. CASE Refuse(w, j)
  <2>1. /\ Goto(w, "idle") /\ job' = [job EXCEPT ![w] = None]
        /\ outcome' = [outcome EXCEPT ![j] = "kBusy"]
    BY <1>0, <1>2, <1>3 DEF Refuse, Goto, TypeOK
  <2>2. outcome' \in [Jobs -> {None} \cup Answers]
    BY <1>0, <2>1 DEF TypeOK, Answers
  <2>3. \A i \in Jobs : outcome'[i] = None => outcome[i] = None /\ i # job[w]
    BY <1>0, <2>1, NoneIsNoJob DEF TypeOK, Answers
  <2>4. pc' \in [Workers -> Places] /\ job' \in [Workers -> Jobs \cup {None}] /\ WorkerInv'
    BY <1>0, <2>1, <2>3, WorkerEnds
  <2> QED BY <1>0, <1>1, <2>2, <2>4 DEF TypeOK, WorkTyped
<1>4. CASE Lend(w, j) \/ Reserve(w, j)
  <2>1. /\ UNCHANGED outcome
        /\ \E l \in {"leased", "opening"} : pc' = [pc EXCEPT ![w] = l]
    BY <1>4 DEF Lend, Reserve, Goto
  <2>2. PICK l \in {"leased", "opening"} : pc' = [pc EXCEPT ![w] = l]
    BY <2>1
  <2>3. /\ pc' \in [Workers -> Places]
        /\ \A u \in Workers : pc'[u] = IF u = w THEN l ELSE pc[u]
    BY <1>0, <2>2 DEF TypeOK, Places
  <2>4. /\ job' \in [Workers -> Jobs \cup {None}]
        /\ \A u \in Workers : job'[u] = IF u = w THEN j ELSE job[u]
    BY <1>0, <1>2, <2>3 DEF TypeOK
  <2>5. tx[j].st = "none" /\ \A u \in Workers : job[u] # j
    BY <1>0, <1>2 DEF WorkerInv, Begun
  <2>6. WorkTyped'
    BY <1>0, <2>1, <2>3, <2>4 DEF TypeOK, WorkTyped
  <2>7. ASSUME NEW i \in Jobs, ~Begun(i)' PROVE tx'[i].st = "none"
    <3>1. ~Begun(i)
      BY <1>0, <2>1, <2>4, <2>7, NoneIsNoJob DEF Begun
    <3> QED BY <1>0, <3>1 DEF WorkerInv
  <2>8. /\ \A u \in Workers : job'[u] = None <=> pc'[u] = "idle"
        /\ \A u, v \in Workers : job'[u] = job'[v] /\ job'[u] # None => u = v
    BY <1>0, <2>3, <2>4, <2>5, NoneIsNoJob DEF WorkerInv
  <2>9. ASSUME NEW u \in Workers
        PROVE  /\ pc'[u] = "try" =>
                    /\ tries'[u] < Tries /\ Proper(tx'[job'[u]].order)
                    /\ tx'[job'[u]].st = "none" \/ tx'[job'[u]].res = "retry"
               /\ pc'[u] = "calling" => tx'[job'[u]].st # "none" /\ Proper(tx'[job'[u]].order)
               /\ pc'[u] \in {"opening", "leased", "reconnect", "reselect"} =>
                    tx'[job'[u]].st = "none"
               /\ pc'[u] = "return" => outcome'[job'[u]] # None
    <3>1. CASE u = w
      BY <1>0, <2>3, <2>4, <2>5, <3>1
    <3>2. CASE u # w
      BY <1>0, <2>1, <2>3, <2>4, <3>2 DEF WorkerInv
    <3> QED BY <3>1, <3>2
  <2> QED BY <1>1, <2>6, <2>7, <2>8, <2>9 DEF WorkerInv
<1> QED BY <1>2, <1>3, <1>4

LEMMA Answered ==
    ASSUME Base, NEW w \in Workers, pc[w] # "idle", NEW a \in Answers, Finish(w, a)
    PROVE  /\ outcome' \in [Jobs -> {None} \cup Answers]
           /\ outcome'[job[w]] = a /\ a # None
           /\ \A j \in Jobs \ {job[w]} : outcome'[j] = outcome[j]
           /\ \A j \in Jobs : outcome'[j] = None => outcome[j] = None /\ j # job[w]
<1>1. job[w] \in Jobs /\ outcome \in [Jobs -> {None} \cup Answers]
  BY BusyHasJob DEF Base, TypeOK
<1>2. \A j \in Jobs : outcome'[j] = IF j = job[w] THEN a ELSE outcome[j]
  BY <1>1 DEF Finish
<1> QED BY <1>1, <1>2, NoneIsNoJob DEF Finish

\* Worker w answers its job and is about to give the connection back, or goes on to
\* somewhere where no transaction has begun.
LEMMA AnswersWork ==
    ASSUME Base, NEW w \in Workers, pc[w] # "idle", NEW a \in Answers, Finish(w, a),
           Goto(w, "return"), UNCHANGED <<job, tries, tx, commits, deployed>>,
           faults' \in 0..MaxFaults
    PROVE  WorkTyped' /\ ServerTyped' /\ WorkerInv'
<1>1. /\ outcome' \in [Jobs -> {None} \cup Answers]
      /\ outcome'[job[w]] # None
      /\ \A j \in Jobs \ {job[w]} : outcome'[j] = outcome[j]
  BY Answered
<1>2. pc' \in [Workers -> Places] /\ WorkerInv'
  BY <1>1, WorkerGoes DEF Places
<1>3. ServerTyped'
  BY ServerKept DEF Base
<1> QED BY <1>1, <1>2, <1>3 DEF Base, TypeOK, WorkTyped

LEMMA MovesOnWork ==
    ASSUME Base, NEW w \in Workers,
           pc[w] \in {"opening", "leased", "reconnect", "reselect"},
           NEW l \in {"leased", "reconnect", "reselect"}, Goto(w, l),
           UNCHANGED <<job, tries, outcome, tx, commits, deployed, faults>>
    PROVE  WorkTyped' /\ ServerTyped' /\ WorkerInv'
<1>1. tx[job[w]].st = "none"
  BY DEF Base, WorkerInv
<1>2. pc' \in [Workers -> Places] /\ WorkerInv'
  BY <1>1, WorkerGoes DEF Places
<1>3. ServerTyped'
  BY ServerKept DEF Base
<1> QED BY <1>2, <1>3 DEF Base, TypeOK, WorkTyped

LEMMA LeavesWork ==
    ASSUME Base, NEW w \in Workers, OpenFailed(w) \/ Return(w)
    PROVE  WorkTyped' /\ ServerTyped' /\ WorkerInv'
<1>0. /\ pc[w] # "idle" /\ Goto(w, "idle") /\ job' = [job EXCEPT ![w] = None]
      /\ UNCHANGED <<tries, tx, commits, deployed, faults>>
  BY DEF OpenFailed, Return, serverVars
<1>1. /\ outcome' \in [Jobs -> {None} \cup Answers]
      /\ \A j \in Jobs : outcome'[j] = None => outcome[j] = None /\ j # job[w]
  <2>1. CASE OpenFailed(w)
    <3>1. Finish(w, "kDbError") /\ "kDbError" \in Answers
      BY <2>1 DEF OpenFailed, Answers
    <3> QED BY <1>0, <3>1, Answered
  <2>2. CASE Return(w)
    <3>1. outcome' = outcome /\ outcome[job[w]] # None
      BY <2>2 DEF Return, Base, WorkerInv
    <3> QED BY <3>1 DEF Base, TypeOK
  <2> QED BY <2>1, <2>2
<1>2. pc' \in [Workers -> Places] /\ job' \in [Workers -> Jobs \cup {None}] /\ WorkerInv'
  BY <1>0, <1>1, WorkerEnds
<1>3. ServerTyped'
  BY <1>0, ServerKept DEF Base
<1> QED BY <1>0, <1>1, <1>2, <1>3 DEF Base, TypeOK, WorkTyped

\* The order of a trade is noted before the first attempt.
LEMMA TradeBeginWork ==
    ASSUME Base, NEW w \in Workers, TradeBegin(w)
    PROVE  WorkTyped' /\ ServerTyped' /\ WorkerInv'
<1>0. /\ TypeOK /\ ServerTyped /\ WorkerInv /\ pc[w] = "leased" /\ Goto(w, "try")
      /\ job[w] \in Jobs /\ tx[job[w]].st = "none"
      /\ tries' = [tries EXCEPT ![w] = 0] /\ UNCHANGED <<job, outcome, commits, deployed, faults>>
  BY BusyHasJob DEF Base, WorkerInv, TradeBegin
<1>1. PICK o \in Orders : ~Trivial(o) /\ tx' = [tx EXCEPT ![job[w]].order = NetOrder(o)]
  BY DEF TradeBegin
<1> DEFINE n == NetOrder(o)
           j == job[w]
<1>2. Proper(n)
  BY <1>1, NetProper
<1> HIDE DEF n, j
<1>3. /\ tx' \in [Jobs -> [st : States, order : Order \cup {None}, res : Results]]
      /\ \A i \in Jobs \ {j} : tx'[i] = tx[i]
      /\ tx'[j].st = tx[j].st /\ tx'[j].res = tx[j].res /\ tx'[j].order = n
  <2>1. j \in Jobs /\ tx' = [tx EXCEPT ![j].order = n] /\ n \in Order
        /\ tx \in [Jobs -> [st : States, order : Order \cup {None}, res : Results]]
    BY <1>0, <1>1, <1>2 DEF ServerTyped, Proper, n, j
  <2>2. tx' = [tx EXCEPT ![j] = [tx[j] EXCEPT !.order = n]]
    BY <2>1
  <2>3. tx[j] \in [st : States, order : Order \cup {None}, res : Results]
    BY <2>1
  <2> QED BY <2>1, <2>2, <2>3
<1>4. tries' \in [Workers -> 0..Tries] /\ tries'[w] = 0 /\ 0 < Tries
      /\ \A u \in Workers \ {w} : tries'[u] = tries[u]
  BY <1>0, DatabaseAssumption DEF TypeOK
<1>5. pc' \in [Workers -> Places] /\ WorkerInv'
  BY <1>0, <1>2, <1>3, <1>4, WorkerGoes DEF Places, j
<1>6. ServerTyped'
  BY <1>0, <1>3 DEF ServerTyped, j
<1> QED BY <1>0, <1>4, <1>5, <1>6 DEF TypeOK, WorkTyped

LEMMA TryWork ==
    ASSUME Base, NEW w \in Workers, Try(w)
    PROVE  WorkTyped' /\ ServerTyped' /\ WorkerInv'
<1> DEFINE j == job[w]
<1>0. /\ TypeOK /\ ServerTyped /\ WorkerInv /\ pc[w] = "try"
      /\ j \in Jobs /\ tries[w] < Tries /\ Proper(tx[j].order)
      /\ UNCHANGED <<job, commits, deployed, faults>>
  BY BusyHasJob DEF Base, WorkerInv, Try
<1>1. CASE Call(w)
  <2>1. /\ tx' = [tx EXCEPT ![j].st = "lo", ![j].res = "none"]
        /\ tries' = [tries EXCEPT ![w] = @ + 1]
        /\ Goto(w, "calling") /\ UNCHANGED outcome
    BY <1>1 DEF Call
  <2> HIDE DEF j
  <2>2. /\ tx' \in [Jobs -> [st : States, order : Order \cup {None}, res : Results]]
        /\ \A i \in Jobs \ {j} : tx'[i] = tx[i]
        /\ tx'[j].st = "lo" /\ tx'[j].res = "none" /\ tx'[j].order = tx[j].order
    BY <1>0, <2>1, ZenonT(60) DEF ServerTyped, States, Results
  <2>3. tries' \in [Workers -> 0..Tries] /\ \A u \in Workers \ {w} : tries'[u] = tries[u]
    BY <1>0, <2>1, DatabaseAssumption, SMTT(60) DEF TypeOK
  <2>4. pc' \in [Workers -> Places] /\ WorkerInv'
    BY <1>0, <2>1, <2>2, <2>3, WorkerGoes DEF Places, j
  <2>5. ServerTyped'
    BY <1>0, <2>2 DEF ServerTyped
  <2> QED BY <1>0, <2>1, <2>3, <2>4, <2>5 DEF TypeOK, WorkTyped
<1>2. CASE ~Call(w)
  <2>1. Finish(w, "kDbError") /\ Goto(w, "return") /\ UNCHANGED <<tx, tries>>
    BY <1>2 DEF Try, Lost
  <2>2. "kDbError" \in Answers /\ faults' \in 0..MaxFaults
    BY <1>0 DEF Answers, TypeOK
  <2> QED BY <1>0, <2>1, <2>2, AnswersWork
<1> QED BY <1>1, <1>2

LEMMA CallDoneWork ==
    ASSUME Base, NEW w \in Workers, CallDone(w)
    PROVE  WorkTyped' /\ ServerTyped' /\ WorkerInv'
<1> DEFINE j == job[w]
<1>0. /\ TypeOK /\ ServerTyped /\ WorkerInv /\ pc[w] = "calling"
      /\ j \in Jobs /\ tx[j].st = "done" /\ tx[j].res \in Results \ {"none"}
      /\ faults' \in 0..MaxFaults /\ UNCHANGED <<job, tries, tx, commits, deployed, faults>>
  BY BusyHasJob DEF Base, CallDone, ServerTyped, TypeOK, serverVars
<1>1. CASE tx[j].res = "retry" /\ tries[w] < Tries
  <2>1. Goto(w, "try") /\ UNCHANGED outcome
    BY <1>1 DEF CallDone
  <2>2. Proper(tx[j].order)
    BY <1>0 DEF WorkerInv
  <2> QED BY <1>0, <1>1, <2>1, <2>2, WorkerGoes, ServerKept DEF Places, TypeOK, WorkTyped
<1>2. CASE ~(tx[j].res = "retry" /\ tries[w] < Tries)
  <2>1. Goto(w, "return") /\ \E a \in Answers : Finish(w, a)
    BY <1>0, <1>2 DEF CallDone, Answer, Answers, Results
  <2> QED BY <1>0, <2>1, AnswersWork
<1> QED BY <1>1, <1>2

\* What a worker does between opening its connection and giving it back.
LEMMA WorkerWork ==
    ASSUME Base, NEW w \in Workers, Worker(w) \/ ReadTimeout(w)
    PROVE  WorkTyped' /\ ServerTyped' /\ WorkerInv'
<1>1. CASE OpenDone(w)
  <2>1. /\ pc[w] = "opening" /\ Goto(w, "leased")
        /\ UNCHANGED <<job, tries, outcome, tx, commits, deployed, faults>>
    BY <1>1 DEF OpenDone, serverVars
  <2> QED BY <2>1, MovesOnWork
<1>2. ASSUME pc[w] # "idle", \E a \in Answers : Finish(w, a), Goto(w, "return"),
             UNCHANGED <<job, tries, serverVars>>, faults' \in 0..MaxFaults
      PROVE  WorkTyped' /\ ServerTyped' /\ WorkerInv'
  BY <1>2, AnswersWork DEF serverVars
<1>3. faults \in 0..MaxFaults /\ MaxFaults \in Nat
  BY DatabaseAssumption DEF Base, TypeOK
<1>4. \A found : FinishLook(w, found) => Goto(w, "return") /\ \E a \in Answers : Finish(w, a)
  BY DEF FinishLook, Answers
<1>5. CASE TradeAtOnce(w)
  <2>1. \E a \in Answers : Finish(w, a)
    BY <1>5 DEF TradeAtOnce, Answers
  <2> QED BY <1>2, <1>3, <1>5, <2>1 DEF TradeAtOnce
<1>6. CASE CallLost(w)
  BY <1>2, <1>3, <1>6 DEF CallLost, Lost, Answers
<1>7. CASE ReadTimeout(w)
  <2>1. faults' \in 0..MaxFaults
    BY <1>3, <1>7 DEF ReadTimeout
  <2> QED BY <1>2, <1>7, <2>1 DEF ReadTimeout, Lost, Answers
<1>8. CASE Select(w)
  <2>1. PICK found \in Dispatched(lease[w]) :
          \/ found # "lost" /\ FinishLook(w, found)
          \/ found = "lost" /\ Closed(lease[w]) /\ Goto(w, "reconnect") /\ UNCHANGED outcome
    BY <1>8 DEF Select
  <2>2. CASE FinishLook(w, found)
    BY <1>2, <1>3, <1>4, <1>8, <2>2 DEF Select
  <2>3. CASE Goto(w, "reconnect") /\ UNCHANGED outcome
    <3>1. pc[w] = "leased" /\ UNCHANGED <<job, tries, outcome, tx, commits, deployed, faults>>
      BY <1>8, <2>3 DEF Select, serverVars
    <3> QED BY <2>3, <3>1, MovesOnWork
  <2> QED BY <2>1, <2>2, <2>3
<1>9. CASE Reconnect(w)
  <2>1. CASE Goto(w, "reselect") /\ UNCHANGED outcome
    <3>1. pc[w] = "reconnect" /\ UNCHANGED <<job, tries, outcome, tx, commits, deployed, faults>>
      BY <1>9, <2>1 DEF Reconnect, serverVars
    <3> QED BY <2>1, <3>1, MovesOnWork
  <2>2. CASE FinishLook(w, "failed")
    BY <1>2, <1>3, <1>4, <1>9, <2>2 DEF Reconnect
  <2> QED BY <1>9, <2>1, <2>2 DEF Reconnect
<1>10. CASE Reselect(w)
  BY <1>2, <1>3, <1>4, <1>10 DEF Reselect
<1> QED BY <1>1, <1>5, <1>6, <1>7, <1>8, <1>9, <1>10, AcquireWork, LeavesWork,
           TradeBeginWork, TryWork, CallDoneWork DEF Worker

-----------------------------------------------------------------------------
(* The server *)

Active == {"lo", "hi", "move", "commit"}
Tx == [st : States, order : Order \cup {None}, res : Results]

\* Transactions that go on keep their order, hold the players they must, and have a
\* result when they are done.
Advanced(j) ==
    /\ tx[j].st \in Active
    /\ tx'[j].order = tx[j].order
    /\ tx'[j].st \in States \ {"none"} /\ tx'[j].res \in Results
    /\ tx'[j].st = "done" <=> tx'[j].res # "none"
    /\ tx'[j].st = "hi" => LockOrder(tx[j].order)[1] \in Known
    /\ tx'[j].st \in {"move", "commit"} => tx[j].order.a \in Known /\ tx[j].order.b \in Known

LEMMA TxGoes ==
    ASSUME Base, tx' \in [Jobs -> Tx], \A j \in Jobs : tx'[j] = tx[j] \/ Advanced(j),
           commits' \in [Jobs -> Nat], faults' \in 0..MaxFaults,
           UNCHANGED <<pc, job, tries, outcome, deployed>>
    PROVE  WorkTyped' /\ ServerTyped' /\ WorkerInv'
<1>0. TypeOK /\ ServerTyped /\ WorkerInv
  BY DEF Base
<1>1. WorkTyped'
  BY <1>0 DEF TypeOK, WorkTyped, Places
<1>2. ServerTyped'
  BY <1>0 DEF ServerTyped, Advanced, Active, Tx
<1>3. \A u \in Workers : pc[u] # "idle" => job[u] \in Jobs
  BY BusyHasJob
<1>4. \A j \in Jobs : tx[j].st \in {"none", "done"} \/ tx[j].res # "none" => tx'[j] = tx[j]
  BY <1>0 DEF ServerTyped, Advanced, Active
<1>5. \A j \in Jobs : tx'[j].order = tx[j].order /\ (tx[j].st # "none" => tx'[j].st # "none")
  BY DEF Advanced
<1>6. ASSUME NEW u \in Workers
      PROVE  /\ pc'[u] = "try" =>
                  /\ tries'[u] < Tries /\ Proper(tx'[job'[u]].order)
                  /\ tx'[job'[u]].st = "none" \/ tx'[job'[u]].res = "retry"
             /\ pc'[u] = "calling" => tx'[job'[u]].st # "none" /\ Proper(tx'[job'[u]].order)
             /\ pc'[u] \in {"opening", "leased", "reconnect", "reselect"} =>
                  tx'[job'[u]].st = "none"
             /\ pc'[u] = "return" => outcome'[job'[u]] # None
  BY <1>0, <1>3, <1>4, <1>5 DEF WorkerInv
<1>7. \A j \in Jobs : ~Begun(j)' => tx'[j].st = "none"
  BY <1>0, <1>4 DEF WorkerInv, Begun
<1> QED BY <1>0, <1>1, <1>2, <1>6, <1>7 DEF WorkerInv

LEMMA LockWork ==
    ASSUME Base, NEW j \in Jobs, Lock(j)
    PROVE  tx' \in [Jobs -> Tx] /\ \A i \in Jobs : tx'[i] = tx[i] \/ Advanced(i)
<1>0. tx \in [Jobs -> Tx] /\ tx[j].st \in {"lo", "hi"} /\ Proper(tx[j].order) /\ tx[j].res = "none"
  BY DEF Base, ServerTyped, Tx, Lock
<1> DEFINE o == tx[j].order
<1>1. LockOrder(o)[1] \in {o.a, o.b} /\ LockOrder(o)[2] \in {o.a, o.b}
      /\ LockOrder(o)[1] # LockOrder(o)[2]
  BY <1>0 DEF LockOrder, Proper
<1>2. Wants(j) = IF tx[j].st = "lo" THEN {LockOrder(o)[1]} ELSE {LockOrder(o)[2]}
  BY <1>0 DEF Wants
<1>3. tx[j].st = "hi" => LockOrder(o)[1] \in Known
  BY DEF Base, ServerTyped
<1> HIDE DEF o
<1>4. CASE Wants(j) \subseteq Known
  <2>1. tx' = [tx EXCEPT ![j].st = IF tx[j].st = "lo" THEN "hi" ELSE "move"]
    BY <1>4 DEF Lock
  <2>2. tx' \in [Jobs -> Tx] /\ \A i \in Jobs \ {j} : tx'[i] = tx[i]
    BY <1>0, <2>1 DEF Tx, States
  <2>3. /\ tx'[j].st = IF tx[j].st = "lo" THEN "hi" ELSE "move"
        /\ tx'[j].order = tx[j].order /\ tx'[j].res = "none"
    BY <1>0, <2>1 DEF Tx
  <2>4. Advanced(j)
    BY <1>0, <1>1, <1>2, <1>3, <1>4, <2>3 DEF Advanced, Active, States, Results, o
  <2> QED BY <2>2, <2>4
<1>5. CASE ~(Wants(j) \subseteq Known)
  <2>1. tx' = [tx EXCEPT ![j].st = "done", ![j].res = "invalid"]
    BY <1>5 DEF Lock, Ends
  <2>2. tx' \in [Jobs -> Tx] /\ \A i \in Jobs \ {j} : tx'[i] = tx[i]
    BY <1>0, <2>1 DEF Tx, States, Results
  <2>3. tx'[j].st = "done" /\ tx'[j].order = tx[j].order /\ tx'[j].res = "invalid"
    BY <1>0, <2>1 DEF Tx
  <2>4. Advanced(j)
    BY <1>0, <2>3 DEF Advanced, Active, States, Results
  <2> QED BY <2>2, <2>4
<1> QED BY <1>4, <1>5

\* A transaction that has begun and is not done may end with any result.
LEMMA EndsWork ==
    ASSUME Base, NEW j \in Jobs, tx[j].st \in Active, NEW res \in Results \ {"none"},
           Ends(j, res)
    PROVE  tx' \in [Jobs -> Tx] /\ \A i \in Jobs : tx'[i] = tx[i] \/ Advanced(i)
<1>0. tx \in [Jobs -> Tx] /\ tx' = [tx EXCEPT ![j].st = "done", ![j].res = res]
  BY DEF Base, ServerTyped, Tx, Ends
<1>1. tx' \in [Jobs -> Tx] /\ \A i \in Jobs \ {j} : tx'[i] = tx[i]
  BY <1>0, ZenonT(60) DEF Tx, States
<1>2. tx'[j].st = "done" /\ tx'[j].order = tx[j].order /\ tx'[j].res = res
  BY <1>0 DEF Tx
<1>3. Advanced(j)
  BY <1>0, <1>2 DEF Advanced, States
<1> QED BY <1>1, <1>3

\* What a blocked transaction waits for, it waits for as one that has begun.
LEMMA BlockedActive ==
    ASSUME NEW j \in Jobs, Blocked(j)
    PROVE  tx[j].st \in {"lo", "hi"}
BY DEF Blocked, Wants

-----------------------------------------------------------------------------
(* The tables *)

Table == [Known -> [Items -> 0..MaxCount]]

\* One direction of a swap takes from one player's count and adds to the other's.
LEMMA Moved ==
    ASSUME NEW inv \in [Known -> [Items -> Int]], NEW from \in Known, NEW to \in Known,
           from # to, NEW item \in Items, NEW n \in Nat
    PROVE  /\ Move(inv, from, to, item, n) \in [Known -> [Items -> Int]]
           /\ \A p \in Known, i \in Items :
                Move(inv, from, to, item, n)[p][i] =
                  IF i = item /\ p = from THEN inv[p][i] - n
                  ELSE IF i = item /\ p = to THEN inv[p][i] + n ELSE inv[p][i]
<1> DEFINE out == [inv[from] EXCEPT ![item] = @ - n]
           in == [inv[to] EXCEPT ![item] = @ + n]
<1>1. out \in [Items -> Int] /\ in \in [Items -> Int]
  OBVIOUS
<1>2. \A i \in Items : out[i] = (IF i = item THEN inv[from][i] - n ELSE inv[from][i])
                       /\ in[i] = (IF i = item THEN inv[to][i] + n ELSE inv[to][i])
  OBVIOUS
<1>3. Move(inv, from, to, item, n) = [inv EXCEPT ![from] = out, ![to] = in]
  BY DEF Move
<1> HIDE DEF out, in
<1>4. [inv EXCEPT ![from] = out, ![to] = in] \in [Known -> [Items -> Int]]
  BY <1>1
<1>5. \A p \in Known : [inv EXCEPT ![from] = out, ![to] = in][p]
                         = IF p = from THEN out ELSE IF p = to THEN in ELSE inv[p]
  OBVIOUS
<1>6. \A p \in Known, i \in Items :
        [inv EXCEPT ![from] = out, ![to] = in][p][i] =
          IF i = item /\ p = from THEN inv[p][i] - n
          ELSE IF i = item /\ p = to THEN inv[p][i] + n ELSE inv[p][i]
  BY <1>2, <1>5
<1> QED BY <1>3, <1>4, <1>6

\* A swap that works leaves no count below zero or beyond what the column holds, and
\* moves what the order says; one that does not has a reason.
LEMMA VerdictSound ==
    ASSUME NEW inv \in Table, NEW o, Proper(o), o.a \in Known, o.b \in Known
    PROVE  /\ Verdict(inv, o).res \in {"ok", "notEnough", "error"}
           /\ Verdict(inv, o).inv \in Table
           /\ Verdict(inv, o).res = "ok" =>
                \A p \in Known, i \in Items :
                  Verdict(inv, o).inv[p][i] = inv[p][i] - Given(p, i, o) + Taken(p, i, o)
<1> DEFINE half == Move(inv, o.a, o.b, o.aItem, o.aCount)
           full == Move(half, o.b, o.a, o.bItem, o.bCount)
<1>1. /\ o.aItem \in Items /\ o.bItem \in Items /\ o.aCount \in Nat /\ o.bCount \in Nat
      /\ o.a # o.b /\ MaxCount \in Nat
  BY DatabaseAssumption DEF Proper, Order
<1>2. inv \in [Known -> [Items -> Int]] /\ \A p \in Known, i \in Items : inv[p][i] \in 0..MaxCount
  BY <1>1 DEF Table
<1>3. /\ half \in [Known -> [Items -> Int]]
      /\ \A p \in Known, i \in Items :
           half[p][i] = IF i = o.aItem /\ p = o.a THEN inv[p][i] - o.aCount
                        ELSE IF i = o.aItem /\ p = o.b THEN inv[p][i] + o.aCount ELSE inv[p][i]
  <2> DEFINE a == o.a
             b == o.b
             x == o.aItem
             n == o.aCount
  <2>1. a \in Known /\ b \in Known /\ a # b /\ x \in Items /\ n \in Nat
    BY <1>1
  <2> HIDE DEF a, b, x, n
  <2>2. /\ Move(inv, a, b, x, n) \in [Known -> [Items -> Int]]
        /\ \A p \in Known, i \in Items :
             Move(inv, a, b, x, n)[p][i] =
               IF i = x /\ p = a THEN inv[p][i] - n
               ELSE IF i = x /\ p = b THEN inv[p][i] + n ELSE inv[p][i]
    <3>1. inv \in [Known -> [Items -> Int]]
      BY <1>2
    <3> QED BY <2>1, <3>1, Moved, SMTT(60)
  <2> QED BY <2>2 DEF a, b, x, n
<1> HIDE DEF half
<1>4. /\ full \in [Known -> [Items -> Int]]
      /\ \A p \in Known, i \in Items :
           full[p][i] = IF i = o.bItem /\ p = o.b THEN half[p][i] - o.bCount
                        ELSE IF i = o.bItem /\ p = o.a THEN half[p][i] + o.bCount ELSE half[p][i]
  BY <1>1, <1>3, Moved, SMTT(60)
<1> HIDE DEF full
<1> DEFINE works == /\ ~(inv[o.a][o.aItem] < o.aCount) /\ ~(half[o.b][o.aItem] > MaxCount)
                    /\ ~(half[o.b][o.bItem] < o.bCount) /\ ~(full[o.a][o.bItem] > MaxCount)
<1>5. CASE works
  <2>1. Verdict(inv, o) = [res |-> "ok", inv |-> full]
    BY <1>5 DEF Verdict, half, full
  <2>2. \A p \in Known, i \in Items : half[p][i] \in 0..MaxCount
    BY <1>1, <1>2, <1>3, <1>5
  <2>3. \A p \in Known, i \in Items : full[p][i] \in 0..MaxCount
    BY <1>1, <1>4, <1>5, <2>2
  <2>4. full \in Table
    BY <1>4, <2>3 DEF Table
  <2>5. \A p \in Known, i \in Items : full[p][i] = inv[p][i] - Given(p, i, o) + Taken(p, i, o)
    BY <1>1, <1>2, <1>3, <1>4 DEF Given, Taken
  <2> QED BY <2>1, <2>4, <2>5
<1>6. CASE ~works
  <2>1. \E res \in {"notEnough", "error"} : Verdict(inv, o) = [res |-> res, inv |-> inv]
    BY <1>6 DEF Verdict, half, full
  <2> QED BY <2>1
<1> QED BY <1>5, <1>6

LEMMA MovesWork ==
    ASSUME Base, NEW j \in Jobs, Moves(j)
    PROVE  tx' \in [Jobs -> Tx] /\ \A i \in Jobs : tx'[i] = tx[i] \/ Advanced(i)
<1>0. /\ tx \in [Jobs -> Tx] /\ tx[j].st = "move" /\ Proper(tx[j].order) /\ tx[j].res = "none"
      /\ tx[j].order.a \in Known /\ tx[j].order.b \in Known /\ inventory \in Table
  BY DEF Base, TypeOK, ServerTyped, Tx, Moves, Table
<1> DEFINE v == Verdict(inventory, tx[j].order).res
<1>1. v \in {"ok", "notEnough", "error"}
  BY <1>0, VerdictSound
<1>2. (v = "ok" /\ tx' = [tx EXCEPT ![j].st = "commit"]) \/ (v # "ok" /\ Ends(j, v))
  BY DEF Moves
<1> HIDE DEF v
<1>3. CASE tx' = [tx EXCEPT ![j].st = "commit"]
  <2>1. tx' \in [Jobs -> Tx] /\ \A i \in Jobs \ {j} : tx'[i] = tx[i]
    BY <1>0, <1>3 DEF Tx, States
  <2>2. tx'[j].st = "commit" /\ tx'[j].order = tx[j].order /\ tx'[j].res = "none"
    BY <1>0, <1>3 DEF Tx
  <2>3. Advanced(j)
    BY <1>0, <2>2 DEF Advanced, Active, States, Results
  <2> QED BY <2>1, <2>3
<1>4. CASE v # "ok" /\ Ends(j, v)
  <2>1. v \in Results \ {"none"} /\ tx[j].st \in Active
    BY <1>0, <1>1, <1>4 DEF Results, Active
  <2> QED BY <1>4, <2>1, EndsWork
<1> QED BY <1>2, <1>3, <1>4

\* A connection that breaks takes with it what runs on it.
LEMMA BreakWork ==
    ASSUME Base, NEW c \in Conns, Break(c)
    PROVE  tx' \in [Jobs -> Tx] /\ \A i \in Jobs : tx'[i] = tx[i] \/ Advanced(i)
<1> DEFINE hit(j) == \E w \in Workers : job[w] = j /\ lease[w] = c
                                        /\ pc[w] = "calling" /\ tx[j].st # "done"
<1>0. tx \in [Jobs -> Tx]
  BY DEF Base, ServerTyped, Tx
<1>1. \A j \in Jobs : hit(j) => tx[j].st \in Active
  BY <1>0 DEF Base, WorkerInv, Active, States, Tx
<1>2. tx' = [j \in Jobs |-> IF hit(j) THEN [tx[j] EXCEPT !.st = "done", !.res = "error"]
                            ELSE tx[j]]
  BY DEF Break
<1> HIDE DEF hit
<1>3. ASSUME NEW j \in Jobs
      PROVE  /\ [tx[j] EXCEPT !.st = "done", !.res = "error"] \in Tx
             /\ [tx[j] EXCEPT !.st = "done", !.res = "error"].st = "done"
             /\ [tx[j] EXCEPT !.st = "done", !.res = "error"].res = "error"
             /\ [tx[j] EXCEPT !.st = "done", !.res = "error"].order = tx[j].order
  <2>1. tx[j] \in Tx
    BY <1>0
  <2> QED BY <2>1 DEF Tx, States, Results
<1>4. tx' \in [Jobs -> Tx]
  BY <1>0, <1>2, <1>3
<1>5. ASSUME NEW j \in Jobs PROVE tx'[j] = tx[j] \/ Advanced(j)
  BY <1>1, <1>2, <1>3 DEF Advanced, States, Results
<1> QED BY <1>4, <1>5

\* The tables, the transactions and the work on them, whatever the step.
LEMMA WorkStep ==
    ASSUME Base, Next
    PROVE  WorkTyped' /\ ServerTyped' /\ WorkerInv' /\ inventory' \in Table
<1>0. /\ inventory \in Table /\ commits \in [Jobs -> Nat] /\ faults \in 0..MaxFaults
      /\ MaxFaults \in Nat
  BY DatabaseAssumption DEF Base, TypeOK, ServerTyped, Table
<1>1. CASE Prewarm \/ Stop
  BY <1>0, <1>1, WorkKept DEF Prewarm, Stop, workVars, serverVars
<1>2. CASE Deploy
  BY <1>0, <1>2 DEF Deploy, ServerOnly, workVars, Base, TypeOK, WorkTyped, Places, ServerTyped,
     WorkerInv, Begun
<1>3. ASSUME NEW w \in Workers, Worker(w) \/ ReadTimeout(w)
      PROVE  WorkTyped' /\ ServerTyped' /\ WorkerInv' /\ inventory' \in Table
  <2>1. inventory' = inventory
    BY <1>3 DEF Worker, TryAcquire, OpenDone, OpenFailed, TradeAtOnce, TradeBegin, Try, CallDone,
       CallLost, Select, Reconnect, Reselect, Return, ReadTimeout, serverVars
  <2> QED BY <1>0, <1>3, <2>1, WorkerWork
<1>4. ASSUME NEW j \in Jobs, Server(j) \/ LockTimeout(j)
      PROVE  WorkTyped' /\ ServerTyped' /\ WorkerInv' /\ inventory' \in Table
  <2>1. UNCHANGED <<pc, job, tries, outcome, deployed, faults>>
    BY <1>4 DEF Server, Lock, Moves, Commit, LockTimeout, ServerOnly, workVars
  <2>2. tx' \in [Jobs -> Tx] /\ \A i \in Jobs : tx'[i] = tx[i] \/ Advanced(i)
    <3>1. CASE LockTimeout(j)
      BY <3>1, BlockedActive, EndsWork DEF LockTimeout, Active, Results
    <3>2. CASE Commit(j)
      BY <3>2, EndsWork DEF Commit, Active, Results
    <3> QED BY <1>4, <3>1, <3>2, LockWork, MovesWork DEF Server
  <2>3. commits' \in [Jobs -> Nat]
    BY <1>0, <1>4 DEF Server, Lock, Moves, Commit, LockTimeout
  <2>4. inventory' \in Table
    <3>1. CASE Commit(j)
      <4>1. /\ Proper(tx[j].order) /\ tx[j].order.a \in Known /\ tx[j].order.b \in Known
            /\ inventory' = Verdict(inventory, tx[j].order).inv
        BY <3>1 DEF Commit, Base, ServerTyped
      <4> QED BY <1>0, <4>1, VerdictSound
    <3> QED BY <1>0, <1>4, <3>1 DEF Server, Lock, Moves, LockTimeout
  <2> QED BY <1>0, <2>1, <2>2, <2>3, <2>4, TxGoes
<1>5. ASSUME NEW c \in Conns, Break(c)
      PROVE  WorkTyped' /\ ServerTyped' /\ WorkerInv' /\ inventory' \in Table
  <2>1. UNCHANGED <<pc, job, tries, outcome, deployed, commits, inventory>>
    BY <1>5 DEF Break, workVars
  <2>2. faults < MaxFaults /\ faults' = faults + 1
    BY <1>5 DEF Break
  <2>3. faults' \in 0..MaxFaults
    BY <1>0, <2>2
  <2> QED BY <1>0, <1>5, <2>1, <2>3, BreakWork, TxGoes
<1> QED BY <1>1, <1>2, <1>3, <1>4, <1>5 DEF Next

-----------------------------------------------------------------------------
(* What the players are told *)

\* What is true of one answer: its place in AnswerInv.
Truthful(j) ==
    /\ commits[j] = IF tx[j].res = "ok" THEN 1 ELSE 0
    /\ outcome[j] = "kOk" => tx[j].st = "none" \/ tx[j].res = "ok"
    /\ outcome[j] \in {"kNotEnough", "kInvalidArg", "kBusy"} =>
          tx[j].st = "none" \/ tx[j].res \notin {"none", "ok"}

\* Worker w changes nothing but its own job and that job's answer.
LEMMA AnswerGoes ==
    ASSUME Base, AnswerInv, NEW w \in Workers, pc[w] # "idle",
           \A u \in Workers \ {w} : pc'[u] = pc[u] /\ job'[u] = job[u],
           commits' = commits,
           \A j \in Jobs \ {job[w]} : tx'[j] = tx[j] /\ outcome'[j] = outcome[j],
           pc'[w] \in {"idle", "return"} \/ (job'[w] = job[w] /\ outcome'[job[w]] = None),
           \A j \in Jobs : j = job[w] => Truthful(j)'
    PROVE  AnswerInv'
<1>1. \A j \in Jobs : Truthful(j)'
  BY DEF AnswerInv, Truthful
<1>2. ASSUME NEW u \in Workers, pc'[u] \notin {"idle", "return"}
      PROVE  outcome'[job'[u]] = None
  <2>1. CASE u = w
    BY <1>2, <2>1
  <2>2. CASE u # w
    <3>1. pc[u] = pc'[u] /\ job'[u] = job[u] /\ job[u] \in Jobs
      BY <1>2, <2>2, BusyHasJob
    <3>2. job[u] # job[w]
      BY <2>2, <3>1, NoneIsNoJob DEF Base, WorkerInv
    <3> QED BY <1>2, <3>1, <3>2 DEF AnswerInv
  <2> QED BY <2>1, <2>2
<1> QED BY <1>1, <1>2 DEF AnswerInv, Truthful

\* Worker w answers a, which is true, and ends its work on the job.
LEMMA AnswerGiven ==
    ASSUME Base, AnswerInv, NEW w \in Workers, pc[w] # "idle", NEW a \in Answers,
           Finish(w, a), NEW l \in {"idle", "return"}, Goto(w, l),
           \A u \in Workers \ {w} : job'[u] = job[u], UNCHANGED <<tx, commits>>,
           a = "kOk" => tx[job[w]].st = "none" \/ tx[job[w]].res = "ok",
           a \in {"kNotEnough", "kInvalidArg", "kBusy"} =>
              tx[job[w]].st = "none" \/ tx[job[w]].res \notin {"none", "ok"}
    PROVE  AnswerInv'
<1>1. outcome'[job[w]] = a /\ \A j \in Jobs \ {job[w]} : outcome'[j] = outcome[j]
  BY Answered
<1>2. \A u \in Workers : pc'[u] = IF u = w THEN l ELSE pc[u]
  BY DEF Base, TypeOK, Goto
<1>3. job[w] \in Jobs
  BY BusyHasJob
<1>4. ASSUME NEW j \in Jobs, j = job[w] PROVE Truthful(j)'
  <2>1. commits[j] = IF tx[j].res = "ok" THEN 1 ELSE 0
    BY DEF AnswerInv
  <2> QED BY <1>1, <1>4, <2>1 DEF Truthful
<1> QED BY <1>1, <1>2, <1>4, AnswerGoes

\* A look, and a trade that ends without the server: no transaction has begun.
LEMMA AnswerLooks ==
    ASSUME Base, AnswerInv, NEW w \in Workers,
           TradeAtOnce(w) \/ Select(w) \/ Reconnect(w) \/ Reselect(w) \/ OpenDone(w)
    PROVE  AnswerInv'
<1>1. /\ pc[w] \in {"opening", "leased", "reconnect", "reselect"} /\ tx[job[w]].st = "none"
      /\ outcome[job[w]] = None
      /\ UNCHANGED <<job, tx, commits>>
  BY DEF TradeAtOnce, Select, Reconnect, Reselect, OpenDone, Base, WorkerInv, AnswerInv, serverVars
<1>2. ASSUME NEW a \in Answers, Finish(w, a), Goto(w, "return") PROVE AnswerInv'
  BY <1>1, <1>2, AnswerGiven
<1>3. ASSUME NEW l, Goto(w, l), UNCHANGED outcome PROVE AnswerInv'
  <2>1. \A u \in Workers : pc'[u] = IF u = w THEN l ELSE pc[u]
    BY <1>3 DEF Base, TypeOK, Goto
  <2>2. ASSUME NEW j \in Jobs, j = job[w] PROVE Truthful(j)'
    BY <1>1, <1>3 DEF AnswerInv, Truthful
  <2> QED BY <1>1, <1>3, <2>1, <2>2, AnswerGoes
<1>4. ASSUME NEW found, FinishLook(w, found) PROVE AnswerInv'
  <2>1. Goto(w, "return") /\ \E a \in Answers : Finish(w, a)
    BY <1>4 DEF FinishLook, Answers
  <2> QED BY <1>2, <2>1
<1>5. CASE TradeAtOnce(w)
  <2>1. Goto(w, "return") /\ \E a \in Answers : Finish(w, a)
    BY <1>5 DEF TradeAtOnce, Answers
  <2> QED BY <1>2, <2>1
<1>6. CASE Select(w)
  BY <1>3, <1>4, <1>6 DEF Select
<1>7. CASE Reconnect(w)
  BY <1>3, <1>4, <1>7 DEF Reconnect
<1>8. CASE Reselect(w)
  BY <1>4, <1>8 DEF Reselect
<1>9. CASE OpenDone(w)
  BY <1>3, <1>9 DEF OpenDone
<1> QED BY <1>5, <1>6, <1>7, <1>8, <1>9

\* A connection that is lost, or cannot be opened, says nothing of the trade.
LEMMA AnswerLost ==
    ASSUME Base, AnswerInv, NEW w \in Workers, OpenFailed(w) \/ CallLost(w) \/ ReadTimeout(w)
    PROVE  AnswerInv'
<1>1. /\ pc[w] # "idle" /\ Finish(w, "kDbError") /\ UNCHANGED <<tx, commits>>
      /\ Goto(w, "idle") \/ Goto(w, "return")
  BY DEF OpenFailed, CallLost, ReadTimeout, Lost, serverVars
<1>2. \A u \in Workers \ {w} : job'[u] = job[u]
  BY DEF OpenFailed, CallLost, ReadTimeout, Base, TypeOK
<1>3. "kDbError" \in Answers
  BY DEF Answers
<1> QED BY <1>1, <1>2, <1>3, AnswerGiven

LEMMA AnswerBegins ==
    ASSUME Base, AnswerInv, NEW w \in Workers, TradeBegin(w)
    PROVE  AnswerInv'
<1>1. /\ pc[w] = "leased" /\ tx[job[w]].st = "none" /\ job[w] \in Jobs
      /\ outcome[job[w]] = None /\ UNCHANGED <<job, outcome, commits>>
      /\ tx \in [Jobs -> Tx]
  BY BusyHasJob DEF TradeBegin, Base, WorkerInv, AnswerInv, ServerTyped, Tx
<1>2. PICK o \in Orders : tx' = [tx EXCEPT ![job[w]].order = NetOrder(o)]
  BY DEF TradeBegin
<1>3. /\ \A j \in Jobs \ {job[w]} : tx'[j] = tx[j]
      /\ tx'[job[w]].st = "none" /\ tx'[job[w]].res = tx[job[w]].res
  BY <1>1, <1>2 DEF Tx
<1>4. \A u \in Workers : pc'[u] = IF u = w THEN "try" ELSE pc[u]
  BY DEF Base, TypeOK, TradeBegin, Goto
<1>5. ASSUME NEW j \in Jobs, j = job[w] PROVE Truthful(j)'
  BY <1>1, <1>3, <1>5 DEF AnswerInv, Truthful
<1> QED BY <1>1, <1>3, <1>4, <1>5, AnswerGoes

\* A job tries again only when its last transaction came to nothing.
LEMMA AnswerTry ==
    ASSUME Base, AnswerInv, NEW w \in Workers, Try(w)
    PROVE  AnswerInv'
<1>1. /\ pc[w] = "try" /\ job[w] \in Jobs /\ UNCHANGED <<job, commits>>
      /\ outcome[job[w]] = None /\ tx \in [Jobs -> Tx]
      /\ tx[job[w]].res \in {"none", "retry"}
  BY BusyHasJob DEF Try, Base, WorkerInv, AnswerInv, ServerTyped, Tx
<1>2. CASE Call(w)
  <2>1. tx' = [tx EXCEPT ![job[w]].st = "lo", ![job[w]].res = "none"] /\ UNCHANGED outcome
    BY <1>2 DEF Call
  <2>2. /\ \A j \in Jobs \ {job[w]} : tx'[j] = tx[j]
        /\ tx'[job[w]].st = "lo" /\ tx'[job[w]].res = "none"
    BY <1>1, <2>1 DEF Tx
  <2>3. \A u \in Workers : pc'[u] = IF u = w THEN "calling" ELSE pc[u]
    BY <1>2 DEF Base, TypeOK, Call, Goto
  <2>4. ASSUME NEW j \in Jobs, j = job[w] PROVE Truthful(j)'
    BY <1>1, <2>1, <2>2, <2>4, NoneIsNoJob DEF AnswerInv, Truthful, Answers
  <2> QED BY <1>1, <2>1, <2>2, <2>3, <2>4, AnswerGoes
<1>3. CASE ~Call(w)
  <2>1. Finish(w, "kDbError") /\ Goto(w, "return") /\ UNCHANGED tx
    BY <1>3 DEF Try, Lost
  <2>2. "kDbError" \in Answers
    BY DEF Answers
  <2> QED BY <1>1, <2>1, <2>2, AnswerGiven
<1> QED BY <1>2, <1>3

\* The answer that is read is the result of the transaction.
LEMMA AnswerRead ==
    ASSUME Base, AnswerInv, NEW w \in Workers, CallDone(w)
    PROVE  AnswerInv'
<1> DEFINE res == tx[job[w]].res
<1>1. /\ pc[w] = "calling" /\ job[w] \in Jobs /\ UNCHANGED <<job, tx, commits>>
      /\ outcome[job[w]] = None /\ res \in Results \ {"none"}
  BY BusyHasJob DEF CallDone, Base, WorkerInv, AnswerInv, ServerTyped, serverVars
<1>2. CASE Goto(w, "try") /\ UNCHANGED outcome
  <2>1. \A u \in Workers : pc'[u] = IF u = w THEN "try" ELSE pc[u]
    BY <1>2 DEF Base, TypeOK, Goto
  <2>2. ASSUME NEW j \in Jobs, j = job[w] PROVE Truthful(j)'
    BY <1>1, <1>2 DEF AnswerInv, Truthful
  <2> QED BY <1>1, <1>2, <2>1, <2>2, AnswerGoes
<1>3. CASE Goto(w, "return") /\ Finish(w, Answer(res))
  <2>1. /\ Answer(res) \in Answers
        /\ Answer(res) = "kOk" => res = "ok"
        /\ Answer(res) \in {"kNotEnough", "kInvalidArg", "kBusy"} => res # "ok"
    BY <1>1 DEF Answer, Answers, Results
  <2> DEFINE a == Answer(res)
  <2>2. /\ a \in Answers /\ Finish(w, a)
        /\ a = "kOk" => tx[job[w]].res = "ok"
        /\ a \in {"kNotEnough", "kInvalidArg", "kBusy"} => tx[job[w]].res \notin {"none", "ok"}
    BY <1>1, <1>3, <2>1
  <2> HIDE DEF a
  <2> QED BY <1>1, <1>3, <2>2, AnswerGiven
<1>4. CASE Goto(w, "return") /\ Finish(w, "kDbError")
  <2>1. "kDbError" \in Answers
    BY DEF Answers
  <2> QED BY <1>1, <1>4, <2>1, AnswerGiven
<1> QED BY <1>2, <1>3, <1>4 DEF CallDone

\* A job that is refused a connection never had a transaction.
LEMMA AnswerAcquire ==
    ASSUME Base, AnswerInv, NEW w \in Workers, TryAcquire(w)
    PROVE  AnswerInv'
<1>1. pc[w] = "idle" /\ UNCHANGED <<tx, commits>>
  BY DEF TryAcquire, serverVars
<1>2. PICK j \in Jobs : /\ ~Begun(j)
                        /\ Lend(w, j) \/ Reserve(w, j) \/ Refuse(w, j)
                        /\ job' = [job EXCEPT ![w] = IF pc'[w] = "idle" THEN None ELSE j]
  BY DEF TryAcquire
<1>3. tx[j].st = "none" /\ outcome[j] = None /\ \A u \in Workers : job[u] # j
  BY <1>2 DEF Base, WorkerInv, Begun
<1>4. PICK l \in {"leased", "opening", "idle"} :
        /\ Goto(w, l)
        /\ outcome' = IF l = "idle" THEN [outcome EXCEPT ![j] = "kBusy"] ELSE outcome
  BY <1>2 DEF Lend, Reserve, Refuse
<1>5. /\ \A u \in Workers : pc'[u] = IF u = w THEN l ELSE pc[u]
      /\ \A u \in Workers \ {w} : job'[u] = job[u]
      /\ l # "idle" => job'[w] = j
  BY <1>2, <1>4 DEF Base, TypeOK, Goto
<1>6. \A i \in Jobs : outcome'[i] = IF l = "idle" /\ i = j THEN "kBusy" ELSE outcome[i]
  BY <1>4 DEF Base, TypeOK
<1>7. ASSUME NEW i \in Jobs PROVE Truthful(i)'
  BY <1>1, <1>3, <1>6 DEF AnswerInv, Truthful
<1>8. ASSUME NEW u \in Workers, pc'[u] \notin {"idle", "return"}
      PROVE  outcome'[job'[u]] = None
  <2>1. CASE u = w
    BY <1>3, <1>5, <1>6, <1>8, <2>1
  <2>2. CASE u # w
    BY <1>3, <1>5, <1>6, <1>8, <2>2, BusyHasJob DEF AnswerInv
  <2> QED BY <2>1, <2>2
<1> QED BY <1>7, <1>8 DEF AnswerInv, Truthful

LEMMA AnswerReturn ==
    ASSUME Base, AnswerInv, NEW w \in Workers, Return(w)
    PROVE  AnswerInv'
<1>1. /\ pc[w] = "return" /\ UNCHANGED <<outcome, tx, commits>>
      /\ \A u \in Workers \ {w} : pc'[u] = pc[u] /\ job'[u] = job[u]
      /\ pc'[w] = "idle"
  BY DEF Return, serverVars, Goto, Base, TypeOK
<1>2. ASSUME NEW j \in Jobs, j = job[w] PROVE Truthful(j)'
  BY <1>1 DEF AnswerInv, Truthful
<1> QED BY <1>1, <1>2, AnswerGoes

\* The server may end a transaction whose job has been answered only where that answer
\* said nothing.
LEMMA AnswerServer ==
    ASSUME Base, AnswerInv, tx' \in [Jobs -> Tx], NEW j \in Jobs,
           \A i \in Jobs \ {j} : tx'[i] = tx[i] /\ commits'[i] = commits[i],
           tx'[j] = tx[j] \/ Advanced(j),
           commits'[j] = IF tx'[j].res = "ok" THEN commits[j] + 1 ELSE commits[j],
           tx'[j] = tx[j] => tx[j].res # "ok",
           UNCHANGED <<pc, job, outcome>>
    PROVE  AnswerInv'
<1>1. ASSUME Advanced(j) PROVE Truthful(j)'
  <2>1. tx[j].res = "none" /\ tx[j].st # "none"
    BY <1>1 DEF Base, ServerTyped, Advanced, Active
  <2>2. commits[j] = 0 /\ outcome[j] \notin {"kOk", "kNotEnough", "kInvalidArg", "kBusy"}
    BY <2>1 DEF AnswerInv
  <2> QED BY <2>2 DEF Truthful
<1>2. \A i \in Jobs : Truthful(i)'
  BY <1>1 DEF AnswerInv, Truthful
<1> QED BY <1>2 DEF AnswerInv, Truthful

LEMMA AnswerStep ==
    ASSUME Base, AnswerInv, Next
    PROVE  AnswerInv'
<1>1. CASE Prewarm \/ Stop \/ Deploy
  BY <1>1 DEF Prewarm, Stop, Deploy, ServerOnly, workVars, serverVars, AnswerInv
<1>2. ASSUME NEW w \in Workers, Worker(w) \/ ReadTimeout(w) PROVE AnswerInv'
  BY <1>2, AnswerLooks, AnswerLost, AnswerBegins, AnswerTry, AnswerRead, AnswerAcquire, AnswerReturn
     DEF Worker
<1>3. tx \in [Jobs -> Tx] /\ commits \in [Jobs -> Nat]
  BY DEF Base, ServerTyped, Tx
<1>4. ASSUME NEW j \in Jobs, Server(j) \/ LockTimeout(j) PROVE AnswerInv'
  <2>1. UNCHANGED <<pc, job, outcome>> /\ tx[j].st \in Active
    BY <1>4, BlockedActive
       DEF Server, Lock, Moves, Commit, LockTimeout, ServerOnly, workVars, Active
  <2>2. tx[j].res = "none"
    BY <2>1 DEF Base, ServerTyped, Active
  <2>3. ASSUME NEW res \in Results \ {"none"}, Ends(j, res)
        PROVE  /\ tx' \in [Jobs -> Tx] /\ \A i \in Jobs \ {j} : tx'[i] = tx[i]
               /\ tx'[j].res = res /\ (tx'[j] = tx[j] \/ Advanced(j))
    <3>1. tx' \in [Jobs -> Tx] /\ (tx'[j] = tx[j] \/ Advanced(j))
      BY <2>1, <2>3, EndsWork
    <3> QED BY <1>3, <2>3, <3>1 DEF Ends, Tx
  <2>4. ASSUME NEW st \in {"hi", "move", "commit"}, tx' = [tx EXCEPT ![j].st = st]
        PROVE  /\ \A i \in Jobs \ {j} : tx'[i] = tx[i]
               /\ tx'[j].res = "none"
    BY <1>3, <2>2, <2>4 DEF Tx
  <2>5. CASE Commit(j)
    <3>1. "ok" \in Results \ {"none"} /\ Ends(j, "ok")
      BY <2>5 DEF Commit, Results
    <3>2. /\ commits'[j] = commits[j] + 1
          /\ \A i \in Jobs \ {j} : commits'[i] = commits[i]
      BY <1>3, <2>5 DEF Commit
    <3> QED BY <2>1, <2>2, <2>3, <3>1, <3>2, AnswerServer
  <2>6. CASE Lock(j) \/ Moves(j) \/ LockTimeout(j)
    <3>1. commits' = commits
      BY <2>6 DEF Lock, Moves, LockTimeout
    <3>2. /\ tx' \in [Jobs -> Tx] /\ (tx'[j] = tx[j] \/ Advanced(j))
          /\ \A i \in Jobs \ {j} : tx'[i] = tx[i]
          /\ tx'[j].res # "ok"
      <4>1. CASE Lock(j)
        <5>1. tx' \in [Jobs -> Tx] /\ (tx'[j] = tx[j] \/ Advanced(j))
          BY <4>1, LockWork
        <5>2. CASE Wants(j) \subseteq Known
          <6>1. tx' = [tx EXCEPT ![j].st = IF tx[j].st = "lo" THEN "hi" ELSE "move"]
            BY <4>1, <5>2 DEF Lock
          <6>2. PICK st \in {"hi", "move", "commit"} : tx' = [tx EXCEPT ![j].st = st]
            BY <6>1
          <6> QED BY <2>4, <5>1, <6>2
        <5>3. CASE ~(Wants(j) \subseteq Known)
          <6>1. Ends(j, "invalid") /\ "invalid" \in Results \ {"none"}
            BY <4>1, <5>3 DEF Lock, Results
          <6> QED BY <2>3, <6>1
        <5> QED BY <5>2, <5>3
      <4>2. CASE LockTimeout(j)
        <5>1. Ends(j, "retry") /\ "retry" \in Results \ {"none"}
          BY <4>2 DEF LockTimeout, Results
        <5> QED BY <2>3, <5>1
      <4>3. CASE Moves(j)
        <5>1. tx' \in [Jobs -> Tx] /\ (tx'[j] = tx[j] \/ Advanced(j))
          BY <4>3, MovesWork
        <5> DEFINE v == Verdict(inventory, tx[j].order).res
        <5>2. \/ tx' = [tx EXCEPT ![j].st = "commit"]
              \/ v # "ok" /\ Ends(j, v)
          BY <4>3 DEF Moves
        <5>3. v \in {"ok", "notEnough", "error"}
          <6>1. /\ Proper(tx[j].order) /\ tx[j].order.a \in Known /\ tx[j].order.b \in Known
                /\ inventory \in Table
            BY <4>3 DEF Base, TypeOK, ServerTyped, Moves, Table
          <6> QED BY <6>1, VerdictSound
        <5> HIDE DEF v
        <5>4. CASE tx' = [tx EXCEPT ![j].st = "commit"]
          BY <2>4, <5>1, <5>4
        <5>5. CASE v # "ok" /\ Ends(j, v)
          <6>1. v \in Results \ {"none"}
            BY <5>3, <5>5 DEF Results
          <6> QED BY <2>3, <5>5, <6>1
        <5> QED BY <5>2, <5>4, <5>5
      <4> QED BY <2>6, <4>1, <4>2, <4>3
    <3>3. tx'[j] = tx[j] => tx[j].res # "ok"
      BY <2>2
    <3> QED BY <2>1, <3>1, <3>2, <3>3, AnswerServer
  <2> QED BY <1>4, <2>5, <2>6 DEF Server
<1>5. ASSUME NEW c \in Conns, Break(c) PROVE AnswerInv'
  <2>1. UNCHANGED <<pc, job, outcome, commits>>
    BY <1>5 DEF Break, workVars
  <2>2. ASSUME NEW j \in Jobs PROVE Truthful(j)'
    <3>1. CASE tx'[j] = tx[j]
      BY <2>1, <3>1 DEF AnswerInv, Truthful
    <3>2. CASE tx'[j] # tx[j]
      <4>1. tx[j].st \in Active /\ tx'[j] = [tx[j] EXCEPT !.st = "done", !.res = "error"]
        BY <1>5, <3>2, BreakWork DEF Break, Advanced
      <4>2. tx'[j].res = "error"
        BY <1>3, <4>1 DEF Tx
      <4>3. tx[j].res = "none" /\ tx[j].st # "none"
        BY <4>1 DEF Base, ServerTyped, Active
      <4>4. Truthful(j)
        BY DEF AnswerInv, Truthful
      <4> QED BY <2>1, <4>2, <4>3, <4>4, SMTT(60) DEF Truthful
    <3> QED BY <3>1, <3>2
  <2> QED BY <2>1, <2>2 DEF AnswerInv, Truthful
<1> QED BY <1>1, <1>2, <1>4, <1>5 DEF Next

-----------------------------------------------------------------------------
(* The whole invariant *)

DatabaseInv == Base /\ IdleIsClean /\ AnswerInv

LEMMA InvInit == Init => DatabaseInv
<1> SUFFICES ASSUME Init PROVE DatabaseInv
  OBVIOUS
<1>1. TypeOK
  <2>1. idle \in Seq(Conns) /\ alive \cup dirty \cup prepared \subseteq open /\ open \subseteq Conns
    BY EmptySeq DEF Init
  <2>2. /\ created \in 0..MaxSize /\ inUse \in 0..MaxSize /\ warming \in 0..MaxSize
        /\ stopped \in BOOLEAN /\ faults \in 0..MaxFaults
    <3>1. MaxSize \in Nat /\ MaxFaults \in Nat
      BY DatabaseAssumption
    <3>2. created = 0 /\ inUse = 0 /\ warming = MaxSize /\ faults = 0
      BY DEF Init
    <3>3. stopped \in BOOLEAN
      BY DEF Init
    <3>4. /\ created \in 0..MaxSize /\ inUse \in 0..MaxSize /\ warming \in 0..MaxSize
          /\ faults \in 0..MaxFaults
      BY <3>1, <3>2
    <3> QED BY <3>3, <3>4
  <2>3. /\ lease \in [Workers -> Conns \cup {None}] /\ job \in [Workers -> Jobs \cup {None}]
        /\ tries \in [Workers -> 0..Tries] /\ outcome \in [Jobs -> {None} \cup Answers]
        /\ pc \in [Workers -> Places] /\ inventory \in Table
    BY DatabaseAssumption DEF Init, Places, Table
  <2> QED BY <2>1, <2>2, <2>3 DEF TypeOK, Places, Table
<1>2. idle = <<>> /\ Len(idle) = 0 /\ DOMAIN idle = {} /\ 1..0 = {}
  BY EmptySeq DEF Init
<1>3. Lent = {} /\ Cardinality(Lent) = 0
  BY FS_EmptySet DEF Init, Lent
<1>4. CountsMatch
  <2>1. Made \ {None} = {}
    BY <1>2 DEF Init, Made
  <2>2. Cardinality(Made \ {None}) = 0
    BY <2>1, FS_EmptySet
  <2>3. inUse = 0 /\ created = 0 /\ idle = <<>> /\ Len(idle) = 0
    BY <1>2 DEF Init
  <2> QED BY <1>3, <2>2, <2>3 DEF CountsMatch, Lent
<1>5. PoolInv
  BY <1>2, <1>4, NoneIsNoConn DEF Init, PoolInv
<1>6. /\ tx = [j \in Jobs |-> NoTx] /\ commits = [j \in Jobs |-> 0] /\ deployed \in BOOLEAN
      /\ NoTx \in Tx /\ NoTx.st = "none" /\ NoTx.res = "none"
  BY DEF Init, NoTx, Tx, States, Results
<1>7. ServerTyped
  BY <1>6 DEF ServerTyped, Tx
<1>8. WorkerInv
  BY <1>6 DEF Init, WorkerInv
<1>9. AnswerInv
  BY <1>6, NoneIsNoJob DEF Init, AnswerInv, Answers
<1>10. IdleIsClean
  BY <1>2 DEF IdleIsClean
<1> QED BY <1>1, <1>5, <1>7, <1>8, <1>9, <1>10 DEF DatabaseInv, Base

LEMMA InvStep == DatabaseInv /\ [Next]_vars => DatabaseInv'
<1> SUFFICES ASSUME DatabaseInv, [Next]_vars PROVE DatabaseInv'
  OBVIOUS
<1>1. CASE Next
  <2>1. PoolTyped' /\ PoolInv'
    BY <1>1, PoolStep DEF DatabaseInv
  <2>2. ConnTyped' /\ IdleIsClean'
    BY <1>1, ConnStep DEF DatabaseInv
  <2>3. WorkTyped' /\ ServerTyped' /\ WorkerInv' /\ inventory' \in Table
    BY <1>1, WorkStep DEF DatabaseInv
  <2>4. AnswerInv'
    BY <1>1, AnswerStep DEF DatabaseInv
  <2>5. TypeOK'
    BY <2>1, <2>2, <2>3 DEF TypeOK, PoolTyped, ConnTyped, WorkTyped, Places, Table
  <2> QED BY <2>1, <2>2, <2>3, <2>4, <2>5 DEF DatabaseInv, Base
<1>2. CASE UNCHANGED vars
  <2>1. UNCHANGED <<idle, created, inUse, stopped, warming, lease, open, alive, dirty, prepared,
                    pc, job, tries, outcome, tx, inventory, log, commits, deployed, faults>>
    BY <1>2 DEF vars, poolVars, connVars, workVars, serverVars
  <2>2. TypeOK' /\ PoolInv'
    BY <2>1 DEF DatabaseInv, Base, TypeOK, PoolInv, CountsMatch, Made
  <2>3. ServerTyped' /\ WorkerInv'
    BY <2>1 DEF DatabaseInv, Base, ServerTyped, WorkerInv, Begun
  <2>4. IdleIsClean' /\ AnswerInv'
    BY <2>1 DEF DatabaseInv, IdleIsClean, AnswerInv
  <2> QED BY <2>2, <2>3, <2>4 DEF DatabaseInv, Base
<1> QED BY <1>1, <1>2

LEMMA InvAlways == Spec => []DatabaseInv
BY InvInit, InvStep, PTL DEF Spec

(* The books of db::DbPool: created_ and in_use_ are the connections there are  *)
(* and those lent, whatever fails to open, is lost or is closed by stop(), no   *)
(* connection is in two places, and none that still works waits with results    *)
(* unread (try_acquire, give_back, sanitize: db_conn.h).                        *)
THEOREM PoolSoundAlways == Spec => []PoolSound
<1>1. DatabaseInv => PoolSound
  BY DEF DatabaseInv, Base, PoolInv, PoolSound
<1> QED BY <1>1, InvAlways, PTL

(* A swap is committed at most once, however often DbConn::trade calls the      *)
(* procedure, and what the players are told of it is true and stays true.       *)
THEOREM OnceAsToldAlways == Spec => []OnceAsTold
<1>1. ASSUME DatabaseInv PROVE OnceAsTold
  <2>1. ASSUME NEW j \in Jobs PROVE commits[j] <= 1
    BY <1>1, <2>1 DEF DatabaseInv, AnswerInv
  <2>2. ASSUME NEW j \in Jobs
        PROVE  /\ outcome[j] = "kOk" /\ tx[j].st # "none" => commits[j] = 1
               /\ outcome[j] \in {"kNotEnough", "kInvalidArg", "kBusy"} =>
                     commits[j] = 0 /\ tx[j].st \in {"none", "done"}
    <3>1. tx[j] \in Tx /\ (tx[j].st = "done" <=> tx[j].res # "none")
      BY <1>1 DEF DatabaseInv, Base, ServerTyped, Tx
    <3> QED BY <1>1, <3>1 DEF DatabaseInv, AnswerInv, Tx, States
  <2> QED BY <2>1, <2>2 DEF OnceAsTold, CommitOnce, ToldTheTruth
<1> QED BY <1>1, InvAlways, PTL

-----------------------------------------------------------------------------
(* The row locks and the audit log *)

\* A player is locked by one transaction; what was judged possible under the locks still
\* is when the transaction commits.
LocksInv ==
    /\ \A j, k \in Jobs : j # k => Holds(j) \cap Holds(k) = {}
    /\ \A j \in Jobs : tx[j].st = "commit" => Verdict(inventory, tx[j].order).res = "ok"

\* What a transaction holds and wants, by how far it is.
LEMMA HoldsOf ==
    ASSUME NEW j \in Jobs
    PROVE  /\ tx[j].st = "lo" => Holds(j) = {} /\ Wants(j) = {LockOrder(tx[j].order)[1]}
           /\ tx[j].st = "hi" => /\ Holds(j) = {LockOrder(tx[j].order)[1]}
                                 /\ Wants(j) = {LockOrder(tx[j].order)[2]}
           /\ tx[j].st \in {"move", "commit"} =>
                Holds(j) = {tx[j].order.a, tx[j].order.b} /\ Wants(j) = {}
           /\ tx[j].st \notin {"lo", "hi", "move", "commit"} => Holds(j) = {} /\ Wants(j) = {}
BY DEF Holds, Wants

\* A transaction that gets further holds what it held and what it waited for.
LEMMA LockHolds ==
    ASSUME Base, NEW j \in Jobs, Lock(j)
    PROVE  /\ \A k \in Jobs \ {j} : tx'[k] = tx[k]
           /\ \A h : h \in Jobs /\ h = j => Holds(h)' \subseteq Holds(j) \cup Wants(j)
<1>0. tx \in [Jobs -> Tx] /\ tx[j].st \in {"lo", "hi"} /\ Proper(tx[j].order)
  BY DEF Base, ServerTyped, Tx, Lock
<1> DEFINE o == tx[j].order
<1>1. {LockOrder(o)[1], LockOrder(o)[2]} = {o.a, o.b}
  BY <1>0 DEF LockOrder, Proper
<1>2. CASE tx' = [tx EXCEPT ![j].st = IF tx[j].st = "lo" THEN "hi" ELSE "move"]
  <2>1. /\ tx'[j].st = IF tx[j].st = "lo" THEN "hi" ELSE "move"
        /\ tx'[j].order = o
        /\ \A k \in Jobs \ {j} : tx'[k] = tx[k]
    BY <1>0, <1>2 DEF Tx
  <2>2. tx[j].st = "lo" => /\ \A h : h \in Jobs /\ h = j => Holds(h)' = {LockOrder(o)[1]}
                           /\ Wants(j) = {LockOrder(o)[1]}
    BY <1>0, <2>1 DEF Holds, Wants
  <2>3. tx[j].st = "hi" => /\ \A h : h \in Jobs /\ h = j => Holds(h)' = {o.a, o.b}
                           /\ Wants(j) = {LockOrder(o)[2]}
                           /\ Holds(j) = {LockOrder(o)[1]}
    BY <1>0, <2>1 DEF Holds, Wants
  <2> HIDE DEF o
  <2> QED BY <1>0, <1>1, <2>1, <2>2, <2>3
<1>3. CASE Ends(j, "invalid")
  <2>1. tx'[j].st = "done" /\ \A k \in Jobs \ {j} : tx'[k] = tx[k]
    BY <1>0, <1>3 DEF Tx, Ends
  <2> QED BY <2>1 DEF Holds
<1> QED BY <1>2, <1>3 DEF Lock

\* The ways a transaction can go in a step.
LEMMA TxStep ==
    ASSUME Base, Next, NEW j \in Jobs
    PROVE  \/ tx'[j] = tx[j]
           \/ tx'[j].st \in {"none", "lo", "done"}
           \/ Lock(j)
           \/ Moves(j) /\ Verdict(inventory, tx[j].order).res = "ok"
              /\ tx'[j].st = "commit" /\ tx'[j].order = tx[j].order
<1>0. tx \in [Jobs -> Tx]
  BY DEF Base, ServerTyped, Tx
<1>1. ASSUME NEW w \in Workers, Worker(w) \/ ReadTimeout(w)
      PROVE  tx'[j] = tx[j] \/ tx'[j].st \in {"none", "lo"}
  <2>1. tx' = tx \/ TradeBegin(w) \/ (Try(w) /\ Call(w))
    BY <1>1 DEF Worker, TryAcquire, OpenDone, OpenFailed, TradeAtOnce, Try, CallDone,
       CallLost, Select, Reconnect, Reselect, Return, ReadTimeout, serverVars
  <2>2. CASE TradeBegin(w)
    <3>1. job[w] \in Jobs /\ tx[job[w]].st = "none"
      BY <2>2, BusyHasJob DEF Base, WorkerInv, TradeBegin
    <3>2. PICK o \in Orders : tx' = [tx EXCEPT ![job[w]].order = NetOrder(o)]
      BY <2>2 DEF TradeBegin
    <3> QED BY <1>0, <3>1, <3>2 DEF Tx
  <2>3. CASE Try(w) /\ Call(w)
    <3>1. job[w] \in Jobs /\ tx' = [tx EXCEPT ![job[w]].st = "lo", ![job[w]].res = "none"]
      BY <2>3, BusyHasJob DEF Try, Call
    <3> QED BY <1>0, <3>1 DEF Tx
  <2> QED BY <2>1, <2>2, <2>3
<1>2. ASSUME NEW i \in Jobs, NEW res, Ends(i, res)
      PROVE  tx'[j] = tx[j] \/ tx'[j].st = "done"
  BY <1>0, <1>2 DEF Ends, Tx
<1>3. ASSUME NEW i \in Jobs, Lock(i) PROVE tx'[j] = tx[j] \/ Lock(j)
  BY <1>3, LockHolds
<1>4. ASSUME NEW i \in Jobs, Moves(i)
      PROVE  \/ tx'[j] = tx[j]
             \/ tx'[j].st = "done"
             \/ Moves(j) /\ Verdict(inventory, tx[j].order).res = "ok"
                /\ tx'[j].st = "commit" /\ tx'[j].order = tx[j].order
  <2>1. CASE /\ Verdict(inventory, tx[i].order).res = "ok"
             /\ tx' = [tx EXCEPT ![i].st = "commit"]
    BY <1>0, <1>4, <2>1 DEF Tx
  <2> QED BY <1>2, <1>4, <2>1 DEF Moves
<1>5. CASE \E c \in Conns : Break(c)
  <2>1. tx'[j] = tx[j] \/ tx'[j] = [tx[j] EXCEPT !.st = "done", !.res = "error"]
    BY <1>5 DEF Break
  <2> QED BY <1>0, <2>1 DEF Tx
<1>6. CASE Prewarm \/ Stop \/ Deploy
  BY <1>6 DEF Prewarm, Stop, Deploy, serverVars
<1> QED
  BY <1>1, <1>2, <1>3, <1>4, <1>5, <1>6 DEF Next, Server, Commit, LockTimeout

\* No step takes a lock but Lock, and that one only takes a free one.
LEMMA HoldsStep ==
    ASSUME Base, Next, NEW j \in Jobs
    PROVE  \/ Holds(j)' \subseteq Holds(j)
           \/ /\ Holds(j)' \subseteq Holds(j) \cup Wants(j) /\ ~Blocked(j)
              /\ \A k \in Jobs \ {j} : Holds(k)' = Holds(k)
<1>1. CASE tx'[j] = tx[j] \/ tx'[j].st \in {"none", "lo", "done"}
  BY <1>1 DEF Holds
<1>2. CASE Lock(j)
  <2>1. \A k \in Jobs \ {j} : Holds(k)' = Holds(k)
    BY <1>2, LockHolds DEF Holds
  <2> QED BY <1>2, <2>1, LockHolds DEF Lock
<1>3. CASE Moves(j) /\ tx'[j].st = "commit" /\ tx'[j].order = tx[j].order
  BY <1>3 DEF Moves, Holds
<1> QED BY <1>1, <1>2, <1>3, TxStep

\* The verdict looks at the rows of the two players alone.
LEMMA VerdictLocal ==
    ASSUME NEW inv \in Table, NEW inv2 \in Table, NEW o, Proper(o), o.a \in Known, o.b \in Known,
           inv2[o.a] = inv[o.a], inv2[o.b] = inv[o.b]
    PROVE  Verdict(inv2, o).res = Verdict(inv, o).res
<1> DEFINE a == o.a
           b == o.b
           x == o.aItem
           n == o.aCount
           y == o.bItem
           m == o.bCount
           half == Move(inv, a, b, x, n)
           full == Move(half, b, a, y, m)
           half2 == Move(inv2, a, b, x, n)
           full2 == Move(half2, b, a, y, m)
<1>1. /\ a \in Known /\ b \in Known /\ a # b /\ x \in Items /\ n \in Nat
      /\ y \in Items /\ m \in Nat /\ MaxCount \in Nat
  BY DatabaseAssumption DEF Proper, Order
<1>2. inv \in [Known -> [Items -> Int]] /\ inv2 \in [Known -> [Items -> Int]]
  <2>1. \A f \in Table : f \in [Known -> [Items -> Int]]
    BY <1>1 DEF Table
  <2> QED BY <2>1
<1>3. inv2[a] = inv[a] /\ inv2[b] = inv[b]
  OBVIOUS
<1>4. Verdict(inv, o).res =
        IF inv[a][x] < n THEN "notEnough" ELSE IF half[b][x] > MaxCount THEN "error"
        ELSE IF half[b][y] < m THEN "notEnough" ELSE IF full[a][y] > MaxCount THEN "error" ELSE "ok"
  BY DEF Verdict
<1>5. Verdict(inv2, o).res =
        IF inv2[a][x] < n THEN "notEnough" ELSE IF half2[b][x] > MaxCount THEN "error"
        ELSE IF half2[b][y] < m THEN "notEnough" ELSE IF full2[a][y] > MaxCount THEN "error" ELSE "ok"
  BY DEF Verdict
<1> HIDE DEF a, b, x, n, y, m
<1>6. /\ half \in [Known -> [Items -> Int]] /\ half2 \in [Known -> [Items -> Int]]
      /\ \A i \in Items : half2[a][i] = half[a][i] /\ half2[b][i] = half[b][i]
  <2>1. /\ half \in [Known -> [Items -> Int]]
        /\ \A p \in Known, i \in Items :
             half[p][i] = IF i = x /\ p = a THEN inv[p][i] - n
                          ELSE IF i = x /\ p = b THEN inv[p][i] + n ELSE inv[p][i]
    <3>1. inv \in [Known -> [Items -> Int]]
      BY <1>2
    <3> QED BY <1>1, <3>1, Moved, SMTT(60)
  <2>2. /\ half2 \in [Known -> [Items -> Int]]
        /\ \A p \in Known, i \in Items :
             half2[p][i] = IF i = x /\ p = a THEN inv2[p][i] - n
                           ELSE IF i = x /\ p = b THEN inv2[p][i] + n ELSE inv2[p][i]
    <3>1. inv2 \in [Known -> [Items -> Int]]
      BY <1>2
    <3> QED BY <1>1, <3>1, Moved, SMTT(60)
  <2> HIDE DEF half, half2
  <2> QED BY <1>1, <1>3, <2>1, <2>2, SMTT(60)
<1> HIDE DEF half, half2
<1>7. full2[a][y] = full[a][y]
  <2>1. half \in [Known -> [Items -> Int]]
    BY <1>6
  <2>2. half2 \in [Known -> [Items -> Int]]
    BY <1>6
  <2>3. ASSUME NEW h \in [Known -> [Items -> Int]]
        PROVE  Move(h, b, a, y, m)[a][y] = h[a][y] + m
    <3>1. \A p \in Known, i \in Items :
            Move(h, b, a, y, m)[p][i] =
              IF i = y /\ p = b THEN h[p][i] - m
              ELSE IF i = y /\ p = a THEN h[p][i] + m ELSE h[p][i]
      BY <1>1, Moved, SMTT(60)
    <3> QED BY <1>1, <3>1
  <2>4. full[a][y] = half[a][y] + m /\ full2[a][y] = half2[a][y] + m
    BY <2>1, <2>2, <2>3
  <2> HIDE DEF full, full2
  <2> QED BY <1>1, <1>6, <2>3, <2>4
<1> HIDE DEF full, full2
<1> QED BY <1>1, <1>3, <1>4, <1>5, <1>6, <1>7

\* A commit touches the rows of its own two players only.
LEMMA CommitRows ==
    ASSUME Base, LocksInv, NEW j \in Jobs, Commit(j)
    PROVE  LET o == tx[j].order IN
           /\ o \in Order /\ log' = Append(log, o)
           /\ \A p \in Known, i \in Items :
                inventory'[p][i] = inventory[p][i] - Given(p, i, o) + Taken(p, i, o)
           /\ \A p \in Known \ {o.a, o.b} : inventory'[p] = inventory[p]
<1> DEFINE o == tx[j].order
<1>1. /\ Proper(o) /\ o.a \in Known /\ o.b \in Known /\ inventory \in Table
      /\ inventory' = Verdict(inventory, o).inv /\ Verdict(inventory, o).res = "ok"
      /\ log' = Append(log, o)
  BY DEF Base, TypeOK, ServerTyped, Table, Commit, LocksInv
<1> HIDE DEF o
<1>2. /\ inventory' \in Table
      /\ \A p \in Known, i \in Items :
           inventory'[p][i] = inventory[p][i] - Given(p, i, o) + Taken(p, i, o)
  BY <1>1, VerdictSound
<1>3. ASSUME NEW p \in Known \ {o.a, o.b} PROVE inventory'[p] = inventory[p]
  <2>1. inventory[p] \in [Items -> 0..MaxCount] /\ inventory'[p] \in [Items -> 0..MaxCount]
    BY <1>1, <1>2 DEF Table
  <2>2. MaxCount \in Nat
    BY DatabaseAssumption
  <2>3. \A i \in Items : inventory'[p][i] = inventory[p][i]
    BY <1>2, <2>1, <2>2 DEF Given, Taken
  <2> QED BY <2>1, <2>3
<1> QED BY <1>1, <1>2, <1>3 DEF Proper, o

LEMMA LocksStep ==
    ASSUME Base, LocksInv, Next
    PROVE  LocksInv'
<1>0. tx \in [Jobs -> Tx] /\ inventory \in Table /\ inventory' \in Table
  BY WorkStep DEF Base, TypeOK, ServerTyped, Tx, Table
<1>1. ASSUME NEW j \in Jobs, NEW k \in Jobs, j # k PROVE Holds(j)' \cap Holds(k)' = {}
  <2>1. Holds(j) \cap Holds(k) = {}
    BY <1>1 DEF LocksInv
  <2>2. ~Blocked(j) => Wants(j) \cap Holds(k) = {}
    BY <1>1 DEF Blocked
  <2>3. ~Blocked(k) => Wants(k) \cap Holds(j) = {}
    BY <1>1 DEF Blocked
  <2>4. \/ Holds(j)' \subseteq Holds(j)
        \/ /\ Holds(j)' \subseteq Holds(j) \cup Wants(j) /\ ~Blocked(j)
           /\ Holds(k)' = Holds(k)
    <3>1. k \in Jobs \ {j}
      BY <1>1
    <3> QED BY <3>1, HoldsStep, ZenonT(60)
  <2>5. \/ Holds(k)' \subseteq Holds(k)
        \/ /\ Holds(k)' \subseteq Holds(k) \cup Wants(k) /\ ~Blocked(k)
           /\ Holds(j)' = Holds(j)
    <3>1. j \in Jobs \ {k}
      BY <1>1
    <3> QED BY <3>1, HoldsStep, ZenonT(60)
  <2> QED BY <2>1, <2>2, <2>3, <2>4, <2>5
<1>2. inventory' = inventory \/ \E i \in Jobs : Commit(i)
  BY ZenonT(60)
  DEF Next, Prewarm, Stop, Deploy, Worker, TryAcquire, OpenDone, OpenFailed, TradeAtOnce,
     TradeBegin, Try, CallDone, CallLost, Select, Reconnect, Reselect, Return, ReadTimeout,
     Server, Lock, LockTimeout, Moves, Break, serverVars
<1>3. ASSUME NEW j \in Jobs, tx'[j].st = "commit"
      PROVE  Verdict(inventory', tx'[j].order).res = "ok"
  <2>1. CASE Moves(j) /\ Verdict(inventory, tx[j].order).res = "ok" /\ tx'[j].order = tx[j].order
    BY <2>1 DEF Moves
  <2>2. CASE tx'[j] = tx[j]
    <3> DEFINE o == tx[j].order
    <3>1. /\ Verdict(inventory, o).res = "ok" /\ Proper(o) /\ o.a \in Known /\ o.b \in Known
          /\ Holds(j) = {o.a, o.b} /\ tx'[j].order = o
      BY <1>3, <2>2, HoldsOf DEF LocksInv, Base, ServerTyped
    <3> HIDE DEF o
    <3>2. CASE inventory' = inventory
      BY <3>1, <3>2
    <3>3. ASSUME NEW i \in Jobs, Commit(i) PROVE Verdict(inventory', o).res = "ok"
      <4>1. tx[i].st = "commit" /\ tx'[i].st = "done"
        BY <1>0, <3>3 DEF Commit, Ends, Tx
      <4>2. i # j /\ Holds(i) = {tx[i].order.a, tx[i].order.b}
        BY <1>3, <4>1, HoldsOf
      <4>3. Holds(i) \cap Holds(j) = {}
        BY <4>2 DEF LocksInv
      <4>4. inventory'[o.a] = inventory[o.a] /\ inventory'[o.b] = inventory[o.b]
        BY <3>1, <3>3, <4>2, <4>3, CommitRows
      <4>5. Verdict(inventory', o).res = Verdict(inventory, o).res
        BY <1>0, <3>1, <4>4, VerdictLocal
      <4> QED BY <3>1, <4>5
    <3> QED BY <1>2, <3>1, <3>2, <3>3
  <2>3. ~Lock(j)
    <3>1. ASSUME Lock(j) PROVE tx'[j].st \in {"hi", "move", "done"}
      BY <1>0, <3>1 DEF Lock, Ends, Tx
    <3> QED BY <1>3, <3>1
  <2> QED BY <1>3, <2>1, <2>2, <2>3, TxStep
<1> QED BY <1>1, <1>3 DEF LocksInv

LEMMA LocksAlways == Spec => [](DatabaseInv /\ LocksInv)
<1>1. Init => LocksInv
  <2> SUFFICES ASSUME Init PROVE LocksInv
    OBVIOUS
  <2>1. \A j \in Jobs : tx[j].st = "none"
    BY DEF Init, NoTx
  <2> QED BY <2>1 DEF LocksInv, Holds
<1>2. DatabaseInv /\ LocksInv /\ [Next]_vars => LocksInv'
  <2> SUFFICES ASSUME DatabaseInv, LocksInv, [Next]_vars PROVE LocksInv'
    OBVIOUS
  <2>1. CASE Next
    BY <2>1, LocksStep DEF DatabaseInv
  <2>2. CASE UNCHANGED vars
    BY <2>2, ZenonT(60) DEF vars, serverVars, LocksInv, Holds
  <2> QED BY <2>1, <2>2
<1> QED BY <1>1, <1>2, InvInit, InvStep, PTL DEF Spec

(* Every step that changes an inventory writes the one line of trade_log that      *)
(* accounts for it, and none is written without it: the step by which the log       *)
(* explains the tables (03_procedures.sql, sp_trade: the two moves and the INSERT   *)
(* of trade_log in one transaction, both players locked).                           *)
SwapLogged ==
    \/ UNCHANGED <<inventory, log>>
    \/ \E o \in Order :
        /\ log' = Append(log, o)
        /\ \A p \in Known, i \in Items :
             inventory'[p][i] = inventory[p][i] - Given(p, i, o) + Taken(p, i, o)

THEOREM EverySwapLogged == Spec => [][SwapLogged]_vars
<1>1. DatabaseInv /\ LocksInv /\ [Next]_vars => [SwapLogged]_vars
  <2> SUFFICES ASSUME DatabaseInv, LocksInv, Next PROVE SwapLogged
    BY DEF vars
  <2>1. UNCHANGED <<inventory, log>> \/ \E j \in Jobs : Commit(j)
    BY ZenonT(60)
    DEF Next, Prewarm, Stop, Deploy, Worker, TryAcquire, OpenDone, OpenFailed, TradeAtOnce,
       TradeBegin, Try, CallDone, CallLost, Select, Reconnect, Reselect, Return, ReadTimeout,
       Server, Lock, LockTimeout, Moves, Break, serverVars
  <2>2. ASSUME NEW j \in Jobs, Commit(j) PROVE SwapLogged
    BY <2>2, CommitRows DEF SwapLogged, DatabaseInv
  <2> QED BY <2>1, <2>2 DEF SwapLogged
<1> QED BY <1>1, LocksAlways, PTL DEF Spec

-----------------------------------------------------------------------------
(* Replaying the log *)

\* A set of natural numbers that is not empty has a least element.
LEMMA Least ==
    ASSUME NEW T \in SUBSET Nat, T # {}
    PROVE  \E m \in T : \A n \in T : m <= n
<1>1. PICK m \in T : \A n \in T : <<n, m>> \notin OpToRel(<, Nat)
  BY WFMin, NatLessThanWellFounded, Zenon
<1>2. \A n \in T : <<n, m>> \in OpToRel(<, Nat) <=> n < m
  BY DEF OpToRel
<1>3. \A n \in T : ~(n < m)
  BY <1>1, <1>2, Zenon
<1>4. \A n \in T : m <= n
  BY <1>3
<1> QED BY <1>4

\* The balance of item i of player p after each line of log l: that at the start, and
\* from line to line what the line gives and takes.
Balances(h, p, i, l) ==
    h = [n \in 0..Len(l) |->
           IF n = 0 THEN Start[p][i]
           ELSE h[n - 1] - Given(p, i, l[n]) + Taken(p, i, l[n])]

\* A log determines the balances.
LEMMA BalancesUnique ==
    ASSUME NEW p, NEW i, NEW l, Len(l) \in Nat,
           NEW f, Balances(f, p, i, l), NEW g, Balances(g, p, i, l)
    PROVE  f = g
<1> DEFINE L == Len(l)
           D == {n \in 0..L : f[n] # g[n]}
<1>1. D = {}
  <2> SUFFICES ASSUME D # {} PROVE FALSE
    OBVIOUS
  <2>1. D \in SUBSET Nat
    OBVIOUS
  <2>2. PICK m \in D : \A n \in D : m <= n
    BY <2>1, Least
  <2>3. m # 0
    BY <2>2 DEF Balances
  <2>4. m - 1 \in 0..L /\ m - 1 \notin D
    BY <2>2, <2>3
  <2>5. /\ f[m] = f[m - 1] - Given(p, i, l[m]) + Taken(p, i, l[m])
        /\ g[m] = g[m - 1] - Given(p, i, l[m]) + Taken(p, i, l[m])
    BY <2>2, <2>3 DEF Balances
  <2> QED BY <2>4, <2>5
<1>2. f = [n \in 0..L |-> f[n]] /\ g = [n \in 0..L |-> g[n]]
  BY DEF Balances
<1> QED BY <1>1, <1>2

\* One more line makes one more balance.
LEMMA BalancesAppend ==
    ASSUME NEW p, NEW i, NEW l \in Seq(Order), NEW o \in Order, NEW f, Balances(f, p, i, l)
    PROVE  \E h : /\ Balances(h, p, i, Append(l, o))
                  /\ h[Len(Append(l, o))] = f[Len(l)] - Given(p, i, o) + Taken(p, i, o)
<1> DEFINE L == Len(l)
           m == Append(l, o)
           h == [n \in 0..(L + 1) |->
                   IF n <= L THEN f[n] ELSE f[L] - Given(p, i, o) + Taken(p, i, o)]
<1>1. /\ L \in Nat /\ Len(m) = L + 1 /\ m[L + 1] = o
      /\ \A n \in 1..L : m[n] = l[n]
  BY AppendProperties, LenProperties
<1> HIDE DEF m
<1>2. h[0] = Start[p][i]
  BY <1>1 DEF Balances
<1>3. ASSUME NEW n \in 1..L
      PROVE  h[n] = h[n - 1] - Given(p, i, m[n]) + Taken(p, i, m[n])
  <2>1. n \in 0..L /\ n - 1 \in 0..L /\ n # 0 /\ m[n] = l[n]
    BY <1>1
  <2>2. f[n] = f[n - 1] - Given(p, i, l[n]) + Taken(p, i, l[n])
    BY <2>1 DEF Balances
  <2>3. h[n] = f[n] /\ h[n - 1] = f[n - 1]
    BY <1>1, <2>1
  <2> QED BY <2>1, <2>2, <2>3
<1>4. h[L + 1] = f[L] - Given(p, i, o) + Taken(p, i, o) /\ h[L] = f[L]
  BY <1>1
<1>5. Balances(h, p, i, m)
  <2> DEFINE e(n) == IF n = 0 THEN Start[p][i]
                     ELSE h[n - 1] - Given(p, i, m[n]) + Taken(p, i, m[n])
  <2>1. ASSUME NEW n \in 0..(L + 1) PROVE h[n] = e(n)
    <3>1. CASE n = 0
      BY <1>2, <3>1
    <3>2. CASE n = L + 1
      BY <1>1, <1>4, <3>2
    <3>3. CASE n \in 1..L
      BY <1>3, <3>3
    <3> QED BY <1>1, <3>1, <3>2, <3>3
  <2>2. h = [n \in 0..(L + 1) |-> h[n]]
    OBVIOUS
  <2> HIDE DEF h, e
  <2>3. h = [n \in 0..(L + 1) |-> e(n)]
    BY <2>1, <2>2
  <2> QED BY <1>1, <2>3 DEF Balances, e
<1> QED BY <1>1, <1>4, <1>5 DEF m

\* The inventories are the last balances.
LogInv ==
    /\ log \in Seq(Order)
    /\ \A p \in Known, i \in Items :
         \E h : Balances(h, p, i, log) /\ h[Len(log)] = inventory[p][i]

LEMMA LogInit == Init => LogInv
<1> SUFFICES ASSUME Init PROVE LogInv
  OBVIOUS
<1>1. log = <<>> /\ Len(log) = 0 /\ inventory = Start /\ log \in Seq(Order)
  BY DEF Init
<1>2. ASSUME NEW p \in Known, NEW i \in Items
      PROVE  \E h : Balances(h, p, i, log) /\ h[Len(log)] = inventory[p][i]
  <2> DEFINE h == [n \in 0..0 |-> Start[p][i]]
  <2>1. Balances(h, p, i, log)
    BY <1>1 DEF Balances
  <2> QED BY <1>1, <2>1
<1> QED BY <1>1, <1>2 DEF LogInv

LEMMA LogStep == LogInv /\ [SwapLogged]_vars => LogInv'
<1> SUFFICES ASSUME LogInv, [SwapLogged]_vars PROVE LogInv'
  OBVIOUS
<1>1. CASE UNCHANGED <<inventory, log>>
  BY <1>1 DEF LogInv
<1>2. ASSUME NEW o \in Order, log' = Append(log, o),
             \A p \in Known, i \in Items :
                inventory'[p][i] = inventory[p][i] - Given(p, i, o) + Taken(p, i, o)
      PROVE  LogInv'
  <2>1. log' \in Seq(Order)
    BY <1>2, AppendProperties DEF LogInv
  <2>2. ASSUME NEW p \in Known, NEW i \in Items
        PROVE  \E h : Balances(h, p, i, log') /\ h[Len(log')] = inventory'[p][i]
    <3>1. PICK f : Balances(f, p, i, log) /\ f[Len(log)] = inventory[p][i]
      BY DEF LogInv
    <3>2. \E h : /\ Balances(h, p, i, log')
                 /\ h[Len(log')] = f[Len(log)] - Given(p, i, o) + Taken(p, i, o)
      BY <1>2, <3>1, BalancesAppend, SMTT(60) DEF LogInv
    <3> QED BY <1>2, <3>1, <3>2
  <2>3. ASSUME NEW h, NEW p, NEW i PROVE Balances(h, p, i, log)' <=> Balances(h, p, i, log')
    BY DEF Balances, Given, Taken
  <2> QED BY <2>1, <2>2, <2>3 DEF LogInv
<1> QED BY <1>1, <1>2 DEF SwapLogged, vars, serverVars

\* What LogExplains sums up is the last of the balances.
LEMMA SumIsBalance == LogInv => LogExplains
<1> SUFFICES ASSUME LogInv, NEW p \in Known, NEW i \in Items
             PROVE  LET sum[n \in 0..Len(log)] ==
                            IF n = 0 THEN Start[p][i]
                            ELSE sum[n - 1] - Given(p, i, log[n]) + Taken(p, i, log[n])
                    IN  inventory[p][i] = sum[Len(log)]
  BY DEF LogExplains
<1> DEFINE s == CHOOSE f : f = [n \in 0..Len(log) |->
                                  IF n = 0 THEN Start[p][i]
                                  ELSE f[n - 1] - Given(p, i, log[n]) + Taken(p, i, log[n])]
<1>1. Len(log) \in Nat
  BY LenProperties DEF LogInv
<1>2. PICK h : Balances(h, p, i, log) /\ h[Len(log)] = inventory[p][i]
  BY DEF LogInv
<1>3. Balances(s, p, i, log)
  BY <1>2 DEF Balances
<1>4. s = h
  BY <1>1, <1>2, <1>3, BalancesUnique
<1> QED BY <1>2, <1>4

\* The audit log explains the tables: whatever times out, breaks or is tried again, every
\* inventory is what it was at the start with the logged swaps made and nothing else
\* (03_procedures.sql, sp_trade).
THEOREM LogExplainsAlways == Spec => []LogExplains
BY LogInit, LogStep, EverySwapLogged, SumIsBalance, PTL DEF Spec

-----------------------------------------------------------------------------
(* Whoever waits for a row lock waits for a smaller player than the holder of that  *)
(* lock waits for, if it waits at all: so no circle of waiting transactions exists  *)
(* (sp_trade locks LEAST before GREATEST).                                          *)
LocksAscend ==
    \A j, k \in Jobs : \A x \in Wants(j), y \in Wants(k) : x \in Holds(k) => x < y

THEOREM LocksAlwaysAscend == Spec => []LocksAscend
<1>1. DatabaseInv => LocksAscend
  <2> SUFFICES ASSUME DatabaseInv, NEW j \in Jobs, NEW k \in Jobs, NEW x \in Wants(j),
                      NEW y \in Wants(k), x \in Holds(k)
               PROVE  x < y
    BY DEF LocksAscend
  <2> DEFINE o == tx[k].order
  <2>1. tx[k].st = "hi" /\ x = LockOrder(o)[1] /\ y = LockOrder(o)[2]
    BY HoldsOf
  <2>2. Proper(o)
    BY <2>1 DEF DatabaseInv, Base, ServerTyped
  <2>3. o.a \in Nat /\ o.b \in Nat /\ o.a # o.b
    BY <2>2 DEF Proper, Order
  <2> QED BY <2>1, <2>3 DEF LockOrder
<1> QED BY <1>1, InvAlways, PTL
=============================================================================
