------------------------------ MODULE Database ------------------------------
(***************************************************************************)
(* From a confirmed trade, or a look at an inventory, to the tables: the   *)
(* worker that takes a connection from db::DbPool, db::DbConn::trade and   *)
(* select_inventory on it, the procedure sp_trade as MySQL runs it, and    *)
(* the connection given back.                                              *)
(*                                                                         *)
(* A call and the transaction it starts live apart: when the client's read *)
(* times out (3 s) the server goes on, waits for its locks (up to 50 s)    *)
(* and commits.  So the transaction belongs to the job, not to the         *)
(* connection.  Left out: the statements of trade_unsafe() (kBadTradeNoTx is *)
(* false), rows that do not fit the answer.                                *)
(***************************************************************************)
EXTENDS Integers, Sequences, FiniteSets

CONSTANTS
    Workers,         \* pool workers
    MaxJobs,         \* bound of the model: runs of handle_trade_confirm, handle_inventory
    Orders,          \* what a swap may be asked to do: TradeOrder
    Known,           \* players with a row in the table player
    Items,           \* item numbers
    Start,           \* inventory[player][item] to begin with
    MaxCount,        \* the largest item_count the column holds
    MaxSize,         \* DbPool::max_size_
    Tries,           \* kTradeRetry
    MaxFaults,       \* bound of the model: reads that time out, connections that break
    None

(* What a player is answered: the result codes of a trade. *)
Answers == {"kOk", "kNotEnough", "kInvalidArg", "kBusy", "kDbError"}

ASSUME DatabaseAssumption ==
    /\ IsFiniteSet(Workers)
    /\ Known \subseteq Nat
    /\ MaxCount \in Nat
    /\ Start \in [Known -> [Items -> 0..MaxCount]]
    /\ MaxSize \in Nat \ {0} /\ Tries \in Nat \ {0} /\ MaxFaults \in Nat
    /\ MaxJobs \in Nat
    /\ Orders \subseteq [a : Nat, aItem : Items, aCount : Nat,
                         b : Nat, bItem : Items, bCount : Nat]
    /\ None \notin Nat \cup Orders \cup Answers

Conns == 1..MaxSize
Jobs == 1..MaxJobs       \* numbered in the order they begin

VARIABLES
    idle,            \* idle_, its top at the end
    created, inUse,  \* created_, in_use_
    stopped,         \* stopped_
    warming,         \* prewarm() runs: connections it has still to try
    lease,           \* per worker: the connection it has borrowed
    open,            \* connections whose mysql_ is set: is_open()
    alive,           \* connections the server still has the other end of
    dirty,           \* connections with result sets nobody has read
    deployed,        \* the procedures are in the database
    prepared,        \* connections that were made since: stmt_trade_sp_ and the other
    pc, job,         \* per worker: where it is, what it runs
    tries,           \* per worker: attempts of trade() so far
    tx,              \* per job: the transaction of its last CALL
    inventory,       \* the table inventory
    log,             \* the table trade_log, in the order of the commits
    outcome,         \* history: what each job answered
    commits,         \* history: transactions each job has committed
    faults           \* faults so far (bound)

poolVars == <<idle, created, inUse, stopped, warming, lease>>
connVars == <<open, alive, dirty, prepared>>
workVars == <<pc, job, tries, outcome>>
serverVars == <<tx, inventory, log, commits, deployed>>
vars == <<poolVars, connVars, workVars, serverVars, faults>>

-----------------------------------------------------------------------------
(* The order and what the procedure does with it. *)

(* net_order(): the same item both ways is one move of the difference. *)
NetOrder(o) ==
    IF o.aItem # o.bItem \/ o.aCount = 0 \/ o.bCount = 0 THEN o
    ELSE IF o.aCount >= o.bCount
    THEN [o EXCEPT !.aCount = o.aCount - o.bCount, !.bCount = 0]
    ELSE [o EXCEPT !.bCount = o.bCount - o.aCount, !.aCount = 0]

(* One direction: a conditional UPDATE, then an INSERT that adds. *)
\* Mutant: the INSERT of a row that exists replaces the count.
MoveReplaces(inv, from, to, item, n) ==
    [inv EXCEPT ![from][item] = @ - n, ![to][item] = n]

Move(inv, from, to, item, n) ==
    [inv EXCEPT ![from][item] = @ - n, ![to][item] = @ + n]

(* What sp_trade finds once it holds both players: the first thing that does *)
(* not work, or the new table.  STRICT mode makes an overflow an error.       *)
Verdict(inv, o) ==
    LET half == Move(inv, o.a, o.b, o.aItem, o.aCount)
        full == Move(half, o.b, o.a, o.bItem, o.bCount)
        failed(res) == [res |-> res, inv |-> inv]
    IN  IF inv[o.a][o.aItem] < o.aCount THEN failed("notEnough")
        ELSE IF half[o.b][o.aItem] > MaxCount THEN failed("error")
        ELSE IF half[o.b][o.bItem] < o.bCount THEN failed("notEnough")
        ELSE IF full[o.a][o.bItem] > MaxCount THEN failed("error")
        ELSE [res |-> "ok", inv |-> full]

(* LEAST and GREATEST of the two players. *)
\* Mutant: locked as the order names them.
LockOrderAsGiven(o) == <<o.a, o.b>>
LockOrder(o) == IF o.a < o.b THEN <<o.a, o.b>> ELSE <<o.b, o.a>>

-----------------------------------------------------------------------------
NoTx == [st |-> "none", order |-> None, res |-> "none"]

Init ==
    /\ idle = <<>> /\ created = 0 /\ inUse = 0
    /\ stopped = FALSE
    /\ warming = MaxSize
    /\ lease = [w \in Workers |-> None]
    /\ open = {} /\ alive = {} /\ dirty = {} /\ prepared = {}
    /\ deployed \in BOOLEAN
    /\ pc = [w \in Workers |-> "idle"]
    /\ job = [w \in Workers |-> None]
    /\ tries = [w \in Workers |-> 0]
    /\ tx = [j \in Jobs |-> NoTx]
    /\ inventory = Start
    /\ log = <<>>
    /\ outcome = [j \in Jobs |-> None]
    /\ commits = [j \in Jobs |-> 0]
    /\ faults = 0

(* A DbConn object that is not in use stands for the next one made. *)
Made == {idle[i] : i \in DOMAIN idle} \cup {lease[w] : w \in Workers}
Fresh == CHOOSE c \in Conns : c \notin Made

(* prepare_all(): a statement for each procedure there is.  None is no error: *)
(* the rest of the server works without them.                                 *)
Prepared(c) == prepared' = IF deployed THEN prepared \cup {c} ELSE prepared \ {c}

Connected(c) ==
    /\ open' = open \cup {c}
    /\ alive' = alive \cup {c}
    /\ dirty' = dirty \ {c}
    /\ Prepared(c)

ClosedAll(cs) ==
    /\ open' = open \ cs
    /\ alive' = alive \ cs
    /\ dirty' = dirty \ cs
    /\ prepared' = prepared \ cs

Closed(c) == ClosedAll({c})

(* prewarm(), before the workers start: it stops at the first failure. *)
Prewarm ==
    /\ warming > 0
    /\ \/ /\ Connected(Fresh)
          /\ idle' = Append(idle, Fresh)
          /\ created' = created + 1
          /\ warming' = warming - 1
       \/ /\ warming' = 0
          /\ UNCHANGED <<idle, created, connVars>>
    /\ UNCHANGED <<inUse, stopped, lease, workVars, serverVars, faults>>

(* stop(); the owner calls it when the workers are gone, the pool allows it *)
(* at any time.                                                             *)
Stop ==
    /\ warming = 0 /\ ~stopped
    /\ stopped' = TRUE
    /\ idle' = <<>>
    /\ created' = created - Len(idle)
    /\ ClosedAll({idle[i] : i \in DOMAIN idle})
    /\ UNCHANGED <<inUse, warming, lease, workVars, serverVars, faults>>

-----------------------------------------------------------------------------
(* A worker. *)

Finish(w, answer) == outcome' = [outcome EXCEPT ![job[w]] = answer]
Goto(w, next) == pc' = [pc EXCEPT ![w] = next]

(* try_acquire(): an idle connection, or the right to open one, or nothing. *)
Lend(w, j) ==
    /\ ~stopped /\ idle # <<>>
    /\ lease' = [lease EXCEPT ![w] = idle[Len(idle)]]
    /\ idle' = SubSeq(idle, 1, Len(idle) - 1)
    /\ inUse' = inUse + 1
    /\ Goto(w, "leased")
    /\ UNCHANGED <<created, outcome>>

Reserve(w, j) ==
    /\ ~stopped /\ idle = <<>> /\ created < MaxSize
    /\ created' = created + 1
    /\ inUse' = inUse + 1
    /\ lease' = [lease EXCEPT ![w] = Fresh]
    /\ Goto(w, "opening")
    /\ UNCHANGED <<idle, outcome>>

Refuse(w, j) ==
    /\ stopped \/ (idle = <<>> /\ created >= MaxSize)
    /\ outcome' = [outcome EXCEPT ![j] = "kBusy"]
    /\ Goto(w, "idle")
    /\ UNCHANGED <<idle, created, inUse, lease>>

Begun(j) == outcome[j] # None \/ \E v \in Workers : job[v] = j

(* The job begins: handle_trade_confirm or handle_inventory asks the pool. *)
TryAcquire(w) ==
    /\ warming = 0
    /\ pc[w] = "idle"
    /\ \E j \in Jobs :
        /\ ~Begun(j) /\ \A k \in 1..j - 1 : Begun(k)
        /\ Lend(w, j) \/ Reserve(w, j) \/ Refuse(w, j)
        /\ job' = [job EXCEPT ![w] = IF pc'[w] = "idle" THEN None ELSE j]
    /\ UNCHANGED <<stopped, warming, connVars, tries, serverVars, faults>>

(* The connection is opened outside the lock, and may fail. *)
OpenDone(w) ==
    /\ pc[w] = "opening"
    /\ Connected(lease[w])
    /\ Goto(w, "leased")
    /\ UNCHANGED <<poolVars, job, tries, outcome, serverVars, faults>>

\* Mutant: only created_ is taken back.
OpenFailedStillLent(w) ==
    /\ pc[w] = "opening"
    /\ created' = created - 1
    /\ lease' = [lease EXCEPT ![w] = None]
    /\ Finish(w, "kDbError")
    /\ Goto(w, "idle")
    /\ job' = [job EXCEPT ![w] = None]
    /\ UNCHANGED <<idle, inUse, stopped, warming, connVars, tries, serverVars, faults>>

OpenFailed(w) ==
    /\ pc[w] = "opening"
    /\ created' = created - 1
    /\ inUse' = inUse - 1
    /\ lease' = [lease EXCEPT ![w] = None]
    /\ Finish(w, "kDbError")
    /\ Goto(w, "idle")
    /\ job' = [job EXCEPT ![w] = None]
    /\ UNCHANGED <<idle, stopped, warming, connVars, tries, serverVars, faults>>

(* trade(): what never reaches the server. *)
Trivial(o) == o.a = o.b \/ (o.aCount = 0 /\ o.bCount = 0)

TradeAtOnce(w) ==
    /\ pc[w] = "leased"
    /\ \E o \in Orders :
        /\ Trivial(o)
        /\ Finish(w, IF o.a = o.b THEN "kInvalidArg" ELSE "kOk")
    /\ Goto(w, "return")
    /\ UNCHANGED <<poolVars, connVars, job, tries, serverVars, faults>>

TradeBegin(w) ==
    /\ pc[w] = "leased"
    /\ \E o \in Orders :
        /\ ~Trivial(o)
        /\ tx' = [tx EXCEPT ![job[w]].order = NetOrder(o)]
    /\ tries' = [tries EXCEPT ![w] = 0]
    /\ Goto(w, "try")
    /\ UNCHANGED <<poolVars, connVars, job, outcome, inventory, log, commits, deployed,
                   faults>>

(* drop_if_connection_lost(): a lost connection is closed and the trade is    *)
(* given up, for it may have been committed.                                  *)
\* Mutant: the players are told to try again.
LostIsBusy(w) ==
    /\ Closed(lease[w])
    /\ Finish(w, "kBusy")
    /\ Goto(w, "return")

Lost(w) ==
    /\ Closed(lease[w])
    /\ Finish(w, "kDbError")
    /\ Goto(w, "return")

(* One turn of the loop of trade(): CALL sp_trade.  Without the procedure    *)
(* there are no trades, but the connection is as good as before.             *)
Call(w) ==
    /\ tx' = [tx EXCEPT ![job[w]].st = "lo", ![job[w]].res = "none"]
    /\ tries' = [tries EXCEPT ![w] = @ + 1]
    /\ Goto(w, "calling")
    /\ UNCHANGED <<connVars, outcome>>

Try(w) ==
    /\ pc[w] = "try"
    /\ \/ lease[w] \in alive \cap prepared /\ Call(w)
       \/ lease[w] \in prepared \ alive /\ Lost(w) /\ UNCHANGED <<tx, tries>>
       \/ /\ lease[w] \notin prepared
          /\ Finish(w, "kDbError") /\ Goto(w, "return")
          /\ UNCHANGED <<connVars, tx, tries>>
    /\ UNCHANGED <<poolVars, job, inventory, log, commits, deployed, faults>>

Answer(res) ==
    CASE res = "ok" -> "kOk" [] res = "notEnough" -> "kNotEnough"
      [] res = "invalid" -> "kInvalidArg" [] res = "retry" -> "kBusy"
      [] res = "error" -> "kDbError"

(* The answer is read: all its result sets, or it breaks off among them. *)
CallDone(w) ==
    /\ pc[w] = "calling" /\ lease[w] \in alive
    /\ tx[job[w]].st = "done"
    /\ IF tx[job[w]].res = "retry" /\ tries[w] < Tries
       THEN Goto(w, "try") /\ UNCHANGED <<outcome, dirty>>
       ELSE /\ Goto(w, "return")
            /\ \/ Finish(w, Answer(tx[job[w]].res)) /\ UNCHANGED dirty
               \/ /\ tx[job[w]].res \in {"ok", "notEnough", "invalid"}
                  /\ Finish(w, "kDbError")
                  /\ dirty' = dirty \cup {lease[w]}
    /\ UNCHANGED <<poolVars, open, alive, prepared, job, tries, serverVars, faults>>

(* The connection broke. *)
\* Mutant: the trade is tried again on a new connection, as a look is.
CallLostRetries(w) ==
    /\ pc[w] = "calling" /\ tries[w] < Tries
    /\ lease[w] \notin alive
    /\ Connected(lease[w])
    /\ Goto(w, "try")
    /\ UNCHANGED <<poolVars, job, tries, outcome, serverVars, faults>>

CallLost(w) ==
    /\ pc[w] = "calling" /\ lease[w] \notin alive
    /\ Lost(w)
    /\ UNCHANGED <<poolVars, job, tries, serverVars, faults>>

(* The client has waited for three seconds; the server goes on. *)
ReadTimeout(w) ==
    /\ pc[w] = "calling" /\ lease[w] \in alive
    /\ faults < MaxFaults
    /\ faults' = faults + 1
    /\ Lost(w)
    /\ UNCHANGED <<poolVars, job, tries, serverVars>>

(* CALL sp_inventory_select: the rows, or an error that breaks off among the *)
(* result sets, or a connection that is lost.                                *)
LookedUp(c) == IF c \in alive THEN {"rows", "error"} ELSE {"lost"}

(* The same without the procedure: an error, which no new connection mends.  *)
Dispatched(c) == IF c \in prepared THEN LookedUp(c) ELSE {"missing"}

(* handle_inventory: the rows are sent, or that they could not be read. *)
FinishLook(w, found) ==
    /\ Finish(w, IF found = "rows" THEN "kOk" ELSE "kDbError")
    /\ dirty' = IF found = "error" THEN dirty \cup {lease[w]} ELSE dirty
    /\ Goto(w, "return")
    /\ UNCHANGED <<open, alive, prepared>>

(* select_inventory(): connected again once, and asked again once. *)
Select(w) ==
    /\ pc[w] = "leased"
    /\ \E found \in Dispatched(lease[w]) :
        \/ found # "lost" /\ FinishLook(w, found)
        \/ found = "lost" /\ Closed(lease[w]) /\ Goto(w, "reconnect") /\ UNCHANGED outcome
    /\ UNCHANGED <<poolVars, job, tries, serverVars, faults>>

Reconnect(w) ==
    /\ pc[w] = "reconnect"
    /\ \/ Connected(lease[w]) /\ Goto(w, "reselect") /\ UNCHANGED outcome
       \/ FinishLook(w, "failed")
    /\ UNCHANGED <<poolVars, job, tries, serverVars, faults>>

Reselect(w) ==
    /\ pc[w] = "reselect"
    /\ \E found \in Dispatched(lease[w]) : FinishLook(w, found)
    /\ UNCHANGED <<poolVars, job, tries, serverVars, faults>>

(* sanitize(): what nobody has read is read, where somebody still sends it. *)
Sanitized(c) == dirty' = IF c \in alive THEN dirty \ {c} ELSE dirty

(* Lease::reset(): sanitize(), then give_back() keeps it or drops it. *)
\* Mutant: no sanitize().
ReturnUnread(w) ==
    LET c == lease[w] IN
    /\ pc[w] = "return"
    /\ inUse' = inUse - 1
    /\ IF c \in open /\ ~stopped
       THEN idle' = Append(idle, c) /\ UNCHANGED <<created, connVars>>
       ELSE created' = created - 1 /\ Closed(c) /\ UNCHANGED idle
    /\ lease' = [lease EXCEPT ![w] = None]
    /\ job' = [job EXCEPT ![w] = None]
    /\ Goto(w, "idle")
    /\ UNCHANGED <<stopped, warming, tries, outcome, serverVars, faults>>

Return(w) ==
    LET c == lease[w] IN
    /\ pc[w] = "return"
    /\ inUse' = inUse - 1
    /\ IF c \in open /\ ~stopped
       THEN /\ idle' = Append(idle, c)
            /\ Sanitized(c)
            /\ UNCHANGED <<created, open, alive, prepared>>
       ELSE /\ created' = created - 1
            /\ Closed(c)
            /\ UNCHANGED idle
    /\ lease' = [lease EXCEPT ![w] = None]
    /\ job' = [job EXCEPT ![w] = None]
    /\ Goto(w, "idle")
    /\ UNCHANGED <<stopped, warming, tries, outcome, serverVars, faults>>

-----------------------------------------------------------------------------
(* The server.  sp_trade locks two rows of player, smaller number first. *)

Holds(j) ==
    CASE tx[j].st = "hi" -> {LockOrder(tx[j].order)[1]}
      [] tx[j].st \in {"move", "commit"} -> {tx[j].order.a, tx[j].order.b}
      [] OTHER -> {}
Wants(j) ==
    CASE tx[j].st = "lo" -> {LockOrder(tx[j].order)[1]}
      [] tx[j].st = "hi" -> {LockOrder(tx[j].order)[2]}
      [] OTHER -> {}
Blocked(j) == \E k \in Jobs \ {j} : Wants(j) \cap Holds(k) # {}

(* The transaction ends; without a commit nothing of it remains. *)
Ends(j, res) == tx' = [tx EXCEPT ![j].st = "done", ![j].res = res]
ServerOnly == UNCHANGED <<poolVars, connVars, workVars>>

Lock(j) ==
    /\ tx[j].st \in {"lo", "hi"} /\ ~Blocked(j)
    /\ IF Wants(j) \subseteq Known
       THEN tx' = [tx EXCEPT ![j].st = IF @ = "lo" THEN "hi" ELSE "move"]
       ELSE Ends(j, "invalid")
    /\ ServerOnly /\ UNCHANGED <<inventory, log, commits, deployed, faults>>

(* 1205: it has waited for a lock too long. *)
LockTimeout(j) ==
    /\ Blocked(j)
    /\ Ends(j, "retry")
    /\ ServerOnly /\ UNCHANGED <<inventory, log, commits, deployed, faults>>

(* The two moves and the line of trade_log, all or nothing. *)
Moves(j) ==
    /\ tx[j].st = "move"
    /\ LET v == Verdict(inventory, tx[j].order).res IN
       \/ v = "ok" /\ tx' = [tx EXCEPT ![j].st = "commit"]
       \/ v # "ok" /\ Ends(j, v)
    /\ ServerOnly /\ UNCHANGED <<inventory, log, commits, deployed, faults>>

Commit(j) ==
    /\ tx[j].st = "commit"
    /\ inventory' = Verdict(inventory, tx[j].order).inv
    /\ log' = Append(log, tx[j].order)
    /\ commits' = [commits EXCEPT ![j] = @ + 1]
    /\ Ends(j, "ok")
    /\ ServerOnly /\ UNCHANGED <<deployed, faults>>

(* The operator runs 03_procedures.sql while the villages run. *)
Deploy ==
    /\ ~deployed
    /\ deployed' = TRUE
    /\ ServerOnly /\ UNCHANGED <<tx, inventory, log, commits, faults>>

(* A connection breaks: what has not been committed on it is rolled back. *)
Break(c) ==
    /\ c \in alive /\ faults < MaxFaults
    /\ faults' = faults + 1
    /\ alive' = alive \ {c}
    /\ tx' = [j \in Jobs |->
                IF \E w \in Workers : job[w] = j /\ lease[w] = c
                   /\ pc[w] = "calling" /\ tx[j].st # "done"
                THEN [tx[j] EXCEPT !.st = "done", !.res = "error"] ELSE tx[j]]
    /\ UNCHANGED <<poolVars, open, dirty, prepared, workVars, inventory, log, commits,
                   deployed>>

-----------------------------------------------------------------------------
Worker(w) ==
    \/ TryAcquire(w) \/ OpenDone(w) \/ OpenFailed(w)
    \/ TradeAtOnce(w) \/ TradeBegin(w) \/ Try(w) \/ CallDone(w) \/ CallLost(w)
    \/ Select(w) \/ Reconnect(w) \/ Reselect(w)
    \/ Return(w)

Server(j) == Lock(j) \/ Moves(j) \/ Commit(j)

Next ==
    \/ Prewarm \/ Stop \/ Deploy
    \/ \E w \in Workers : Worker(w) \/ ReadTimeout(w)
    \/ \E j \in Jobs : Server(j) \/ LockTimeout(j)
    \/ \E c \in Conns : Break(c)

Spec == Init /\ [][Next]_vars

(* Workers and the server run.  No lock wait and no read need ever time out. *)
FairSpec ==
    /\ Spec
    /\ WF_vars(Prewarm)
    /\ \A w \in Workers : WF_vars(Worker(w))
    /\ \A j \in Jobs : WF_vars(Server(j))

-----------------------------------------------------------------------------
TypeOK ==
    /\ idle \in Seq(Conns)
    /\ created \in 0..MaxSize /\ inUse \in 0..MaxSize /\ warming \in 0..MaxSize
    /\ stopped \in BOOLEAN
    /\ lease \in [Workers -> Conns \cup {None}]
    /\ alive \cup dirty \cup prepared \subseteq open /\ open \subseteq Conns
    /\ pc \in [Workers -> {"idle", "opening", "leased", "try", "calling", "reconnect",
                           "reselect", "return"}]
    /\ job \in [Workers -> Jobs \cup {None}]
    /\ tries \in [Workers -> 0..Tries]
    /\ inventory \in [Known -> [Items -> 0..MaxCount]]
    /\ outcome \in [Jobs -> {None} \cup Answers]
    /\ faults \in 0..MaxFaults

(* created_ is the connections there are, those being opened included, and   *)
(* in_use_ those lent: a failed open, a lost connection and a stop take back *)
(* what was counted.  Nothing is idle twice or idle and lent.                *)
CountsMatch ==
    LET lent == {w \in Workers : lease[w] # None} IN
    /\ inUse = Cardinality(lent)
    /\ created = Len(idle) + Cardinality(lent)
    /\ Cardinality(Made \ {None}) = created
    /\ stopped => idle = <<>>

(* No connection that still works waits in the pool with unread results. *)
IdleIsClean == \A i \in DOMAIN idle : idle[i] \in dirty => idle[i] \notin alive

(* The pool's books and its connections are in order. *)
PoolSound == TypeOK /\ CountsMatch /\ IdleIsClean

(* The audit log explains the tables: an inventory is what it was at the     *)
(* start with every logged swap made, and nothing else.                      *)
Given(p, i, o) == (IF o.a = p /\ o.aItem = i THEN o.aCount ELSE 0)
                  + (IF o.b = p /\ o.bItem = i THEN o.bCount ELSE 0)
Taken(p, i, o) == (IF o.b = p /\ o.aItem = i THEN o.aCount ELSE 0)
                  + (IF o.a = p /\ o.bItem = i THEN o.bCount ELSE 0)
LogExplains ==
    \A p \in Known, i \in Items :
        LET sum[n \in 0..Len(log)] ==
                IF n = 0 THEN Start[p][i]
                ELSE sum[n - 1] - Given(p, i, log[n]) + Taken(p, i, log[n])
        IN  inventory[p][i] = sum[Len(log)]

(* A swap is committed at most once, however often it is tried. *)
CommitOnce == \A j \in Jobs : commits[j] <= 1

(* What the players are told is true and stays true: after kOk the swap is   *)
(* in the tables, after a refusal it is not and will not be.  kDbError alone *)
(* says nothing.                                                             *)
ToldTheTruth ==
    \A j \in Jobs :
        /\ outcome[j] = "kOk" /\ tx[j].st # "none" => commits[j] = 1
        /\ outcome[j] \in {"kNotEnough", "kInvalidArg", "kBusy"} =>
              commits[j] = 0 /\ tx[j].st \in {"none", "done"}

(* Once, and as the players were told. *)
OnceAsTold == CommitOnce /\ ToldTheTruth

(* Every job that begins ends, and the connection comes back: as no lock has *)
(* to time out for it, no two transactions wait for each other.              *)
JobsEnd == \A w \in Workers : pc[w] # "idle" ~> pc[w] = "idle"

=============================================================================
