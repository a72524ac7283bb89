----------------------------- MODULE IdleSweep -----------------------------
(***************************************************************************)
(* The idle sweep of IocpServer (sweep_loop) against the I/O workers that  *)
(* note when a session last received something.  last_recv_ms is atomic    *)
(* and not covered by sessions_mutex_, so an I/O worker stores it at any   *)
(* point of a sweep; the sweep reads the clock once, before it takes the   *)
(* lock.  Times are unsigned integers of Width bits.  The names are apart  *)
(* from those of SendPipe, the other part of this class, so that one       *)
(* module can extend both.                                                 *)
(***************************************************************************)
EXTENDS Integers

CONSTANTS
    Sessions,
    IdleLimit,   \* idle_timeout_sec_, in ticks of the clock
    Width,       \* width of uint64_t
    MaxTime      \* bound of the model: the clock's last value

ASSUME IdleSweepAssumption ==
    /\ IdleLimit \in Nat \ {0}
    /\ Width \in Nat
    /\ MaxTime \in Nat \ {0}
    /\ MaxTime < 2^Width

VARIABLES
    clock,       \* GetTickCount64
    life,        \* "absent", "open", "closing", "removed"
    lastRecv,    \* Session::last_recv_ms
    now,         \* what the sweep read
    todo,        \* sessions the sweep has still to look at, under sessions_mutex_
    doomed,      \* sessions it is going to close
    sweeper,     \* where the sweep stands
    heard        \* history: when something was last received, or the accept

sweepVars == <<clock, life, lastRecv, now, todo, doomed, sweeper, heard>>

SweepTypeOK ==
    /\ clock \in 0..MaxTime
    /\ life \in [Sessions -> {"absent", "open", "closing", "removed"}]
    /\ lastRecv \in [Sessions -> 0..MaxTime]
    /\ now \in 0..MaxTime
    /\ todo \subseteq Sessions
    /\ doomed \subseteq {s \in Sessions : life[s] \in {"open", "closing"}}
    /\ sweeper \in {"wait", "lock", "look", "close"}
    /\ heard \in [Sessions -> 0..MaxTime]

SweepInit ==
    /\ clock = 1
    /\ life = [s \in Sessions |-> "absent"]
    /\ lastRecv = [s \in Sessions |-> 0]
    /\ now = 0
    /\ todo = {} /\ doomed = {}
    /\ sweeper = "wait"
    /\ heard = [s \in Sessions |-> 0]

Mapped == {s \in Sessions : life[s] \in {"open", "closing"}}
MapLocked == sweeper = "look"

Tick ==
    /\ clock < MaxTime
    /\ clock' = clock + 1
    /\ UNCHANGED <<life, lastRecv, now, todo, doomed, sweeper, heard>>

\* Mutant: last_recv_ms is left at 0 (session.h:187-189).
AcceptUnstamped(s) ==
    /\ ~MapLocked
    /\ life[s] = "absent"
    /\ life' = [life EXCEPT ![s] = "open"]
    /\ heard' = [heard EXCEPT ![s] = clock]
    /\ UNCHANGED <<clock, lastRecv, now, todo, doomed, sweeper>>

\* add_session: the accept counts as hearing from the session.
Accept(s) ==
    /\ ~MapLocked
    /\ life[s] = "absent"
    /\ life' = [life EXCEPT ![s] = "open"]
    /\ lastRecv' = [lastRecv EXCEPT ![s] = clock]
    /\ heard' = [heard EXCEPT ![s] = clock]
    /\ UNCHANGED <<clock, now, todo, doomed, sweeper>>

\* A receive completion, whatever it carries.
Receive(s) ==
    /\ life[s] = "open"
    /\ lastRecv' = [lastRecv EXCEPT ![s] = clock]
    /\ heard' = [heard EXCEPT ![s] = clock]
    /\ UNCHANGED <<clock, life, now, todo, doomed, sweeper>>

\* Another thread closes it.
CloseOther(s) ==
    /\ life[s] = "open"
    /\ life' = [life EXCEPT ![s] = "closing"]
    /\ UNCHANGED <<clock, lastRecv, now, todo, doomed, sweeper, heard>>

\* try_remove_session; the sweep's hold keeps a doomed session.
Remove(s) ==
    /\ ~MapLocked
    /\ life[s] = "closing"
    /\ s \notin doomed
    /\ life' = [life EXCEPT ![s] = "removed"]
    /\ UNCHANGED <<clock, lastRecv, now, todo, doomed, sweeper, heard>>

\* The sweep's timed wait is over.
Wake ==
    /\ sweeper = "wait"
    /\ now' = clock
    /\ sweeper' = "lock"
    /\ UNCHANGED <<clock, life, lastRecv, todo, doomed, heard>>

Lock ==
    /\ sweeper = "lock"
    /\ todo' = Mapped
    /\ sweeper' = "look"
    /\ UNCHANGED <<clock, life, lastRecv, now, doomed, heard>>

\* now - last, of unsigned integers.
Age(s) == (now - lastRecv[s]) % 2^Width

\* Mutant: <= instead of <.
LookTooLate(s) ==
    /\ sweeper = "look"
    /\ s \in todo
    /\ todo' = todo \ {s}
    /\ doomed' = IF life[s] = "open" /\ ~(Age(s) <= IdleLimit) THEN doomed \cup {s} ELSE doomed
    /\ UNCHANGED <<clock, life, lastRecv, now, sweeper, heard>>

\* A session that is being closed is left alone; the others get a hold to be closed with.
Look(s) ==
    /\ sweeper = "look"
    /\ s \in todo
    /\ todo' = todo \ {s}
    /\ doomed' = IF life[s] = "open" /\ ~(Age(s) < IdleLimit) THEN doomed \cup {s} ELSE doomed
    /\ UNCHANGED <<clock, life, lastRecv, now, sweeper, heard>>

Unlock ==
    /\ sweeper = "look"
    /\ todo = {}
    /\ sweeper' = "close"
    /\ UNCHANGED <<clock, life, lastRecv, now, todo, doomed, heard>>

\* close_session and release_io, outside of the lock.
CloseDoomed(s) ==
    /\ sweeper = "close"
    /\ s \in doomed
    /\ life' = [life EXCEPT ![s] = "closing"]
    /\ doomed' = doomed \ {s}
    /\ UNCHANGED <<clock, lastRecv, now, todo, sweeper, heard>>

Sleep ==
    /\ sweeper = "close"
    /\ doomed = {}
    /\ sweeper' = "wait"
    /\ UNCHANGED <<clock, life, lastRecv, now, todo, doomed, heard>>

SweepStep ==
    \/ Wake \/ Lock \/ Unlock \/ Sleep
    \/ \E s \in Sessions : Look(s) \/ CloseDoomed(s)

SweepNext ==
    \/ SweepStep
    \/ Tick
    \/ \E s \in Sessions : Accept(s) \/ Receive(s) \/ CloseOther(s) \/ Remove(s)

\* The sweep thread wakes up every interval and its steps do not block.
SweepSpec == SweepInit /\ [][SweepNext]_sweepVars
FairSweep == SweepSpec /\ WF_sweepVars(SweepStep)

-----------------------------------------------------------------------------
(* Properties *)

Picked(s) == s \in doomed' /\ s \notin doomed

\* The sweep picks nobody it has heard from within the limit, accepted sessions
\* included; the one exception is a session that received something after the
\* sweep read the clock.  What it has picked and not closed yet is still there
\* (doomed in SweepTypeOK): it holds every session it is going to close.
OnlyIdleOrRaced ==
    /\ []SweepTypeOK
    /\ [][\A s \in Sessions : Picked(s) => clock - heard[s] >= IdleLimit \/ heard[s] > now]_sweepVars

\* iocp_server.cpp:637-639: now - last is safe, last is never greater than now, so
\* a session that has just received something is not idle.
OnlyIdlePicked ==
    [][\A s \in Sessions : Picked(s) => clock - heard[s] >= IdleLimit]_sweepVars

\* A session that stays silent for the limit is closed in the end.
SilentIsClosed ==
    \A s \in Sessions :
        life[s] = "open" /\ clock - heard[s] >= IdleLimit
            ~> life[s] # "open" \/ clock - heard[s] < IdleLimit
=============================================================================
