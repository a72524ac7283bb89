------------------------------- MODULE Roster -------------------------------
(***************************************************************************)
(* The roster of a village (app::EntryTable, one lock L1) and the jobs     *)
(* that use it: handle_enter, handle_join_zone and on_session_gone of      *)
(* app/frame_router.cpp, with the member lists they send, and the S2S      *)
(* thread, which reserves seats and drains the village (app/s2s_link.cpp). *)
(*                                                                         *)
(* The pool is the serial executor module SerialQueue implements: the jobs *)
(* of one session run one at a time and in order, those of different       *)
(* sessions interleave.  A step is one critical section of L1, one send,   *)
(* or one access to a field of the session.                                *)
(***************************************************************************)
EXTENDS Integers, Sequences, FiniteSets

CONSTANTS
    Players,
    NoPlayer,
    Sessions,    \* sessions of the village, never reused
    Zones,
    NoZone,      \* Entry::in_zone = false
    NoEntry,
    NoSeat,      \* no reservation
    Workers,     \* number of pool workers: jobs that run at the same time
    Expiry,      \* min(expire_ms, reserve_expire_max_ms_)
    Overlap,     \* a player may come back while an earlier session of theirs
                 \* still has jobs to run
    Modes,       \* what the operator may ask for (TRUE: drain)
    MaxFrames    \* bound of the model: frames one session receives

ASSUME RosterAssumption ==
    /\ NoPlayer \notin Players
    /\ NoZone \notin Zones
    /\ NoEntry \notin [session : Sessions, zone : Zones \cup {NoZone}]
    /\ Workers \in Nat \ {0}
    /\ Expiry \in Nat
    /\ Overlap \in BOOLEAN
    /\ Modes \subseteq BOOLEAN
    /\ MaxFrames \in Nat

VARIABLES
    reservations,  \* player -> ticks its seat is still good for, or NoSeat
    entered,       \* player -> entry or NoEntry
    zoneIndex,     \* zone -> session -> how often the bucket holds its pointer
    draining,
    drainSent,     \* S2sLink::drain_complete_sent_
    playerId,      \* Session::player_id
    closing,       \* Session::closing
    handedOff,     \* the cleanup job was submitted
    cleaned,       \* the cleanup job has run
    jobs,          \* Session::serial_queue
    toReceive,     \* frames the session may still receive (bound)
    step,          \* where the session's running job stands
    arg,           \* the player or the zone its frame names
    tells,         \* zones whose members it has still to tell
    list, to,      \* the member list it is sending, and to whom it has not yet
    view           \* the last member list the session's client got

tableVars == <<reservations, entered, zoneIndex>>
drainVars == <<draining, drainSent>>
sessionVars == <<playerId, closing, handedOff, cleaned>>
jobVars == <<step, arg, tells, list, to>>
inputVars == <<jobs, toReceive>>
vars == <<tableVars, drainVars, sessionVars, jobVars, inputVars, view>>

Entry == [session : Sessions, zone : Zones \cup {NoZone}]
Frames == ({"enter"} \X Players) \cup ({"join"} \X Zones)
Gone == <<"gone", NoPlayer>>

TypeOK ==
    /\ reservations \in [Players -> 0..Expiry \cup {NoSeat}]
    /\ entered \in [Players -> Entry \cup {NoEntry}]
    /\ zoneIndex \in [Zones -> [Sessions -> Nat]]
    /\ draining \in BOOLEAN /\ drainSent \in BOOLEAN
    /\ playerId \in [Sessions -> Players \cup {NoPlayer}]
    /\ closing \in [Sessions -> BOOLEAN]
    /\ handedOff \in [Sessions -> BOOLEAN]
    /\ cleaned \in [Sessions -> BOOLEAN]
    /\ jobs \in [Sessions -> Seq(Frames \cup {Gone})]
    /\ toReceive \in [Sessions -> 0..MaxFrames]
    /\ step \in [Sessions -> {"idle", "enter", "consume", "insert", "check",
                              "join", "gone", "tell", "send"}]
    /\ arg \in [Sessions -> Players \cup Zones \cup {NoPlayer}]
    /\ tells \in [Sessions -> Seq(Zones)]
    /\ list \in [Sessions -> SUBSET Sessions]
    /\ to \in [Sessions -> SUBSET Sessions]
    /\ view \in [Sessions -> SUBSET Sessions]

Init ==
    /\ reservations = [p \in Players |-> NoSeat]
    /\ entered = [p \in Players |-> NoEntry]
    /\ zoneIndex = [z \in Zones |-> [s \in Sessions |-> 0]]
    /\ draining = FALSE /\ drainSent = FALSE
    /\ playerId = [s \in Sessions |-> NoPlayer]
    /\ closing = [s \in Sessions |-> FALSE]
    /\ handedOff = [s \in Sessions |-> FALSE]
    /\ cleaned = [s \in Sessions |-> FALSE]
    /\ jobs = [s \in Sessions |-> <<>>]
    /\ toReceive = [s \in Sessions |-> MaxFrames]
    /\ step = [s \in Sessions |-> "idle"]
    /\ arg = [s \in Sessions |-> NoPlayer]
    /\ tells = [s \in Sessions |-> <<>>]
    /\ list = [s \in Sessions |-> {}]
    /\ to = [s \in Sessions |-> {}]
    /\ view = [s \in Sessions |-> {}]

-----------------------------------------------------------------------------
(* EntryTable: what one critical section of L1 does *)

\* erase_from_bucket: one occurrence, if there is one.
Erase(index, z, s) ==
    IF z # NoZone /\ index[z][s] > 0
    THEN [index EXCEPT ![z][s] = @ - 1] ELSE index

\* Mutant: the caller's session is not compared with the entry's.
LeaveAnyone(p, s) ==
    IF entered[p] # NoEntry
    THEN /\ zoneIndex' = Erase(zoneIndex, entered[p].zone, entered[p].session)
         /\ entered' = [entered EXCEPT ![p] = NoEntry]
    ELSE UNCHANGED <<entered, zoneIndex>>

\* leave: only the session that entered may take the entry out.
Leave(p, s) ==
    IF entered[p] # NoEntry /\ entered[p].session = s
    THEN /\ zoneIndex' = Erase(zoneIndex, entered[p].zone, s)
         /\ entered' = [entered EXCEPT ![p] = NoEntry]
    ELSE UNCHANGED <<entered, zoneIndex>>

\* Mutant: the old bucket keeps the session.
MoveZoneKeepsOld(p, s, z) ==
    /\ zoneIndex' = [zoneIndex EXCEPT ![z][s] = @ + 1]
    /\ entered' = [entered EXCEPT ![p].zone = z]

\* move_zone, the player being entered.  The entry is found by player and its
\* session leaves the old bucket; the caller's session joins the new one.
MoveZone(p, s, z) ==
    /\ zoneIndex' = [Erase(zoneIndex, entered[p].zone, entered[p].session)
                        EXCEPT ![z][s] = @ + 1]
    /\ entered' = [entered EXCEPT ![p].zone = z]

Members(z) == {s \in Sessions : zoneIndex[z][s] > 0}

-----------------------------------------------------------------------------
(* The S2S thread and the reservation sweeper *)

\* on_request(Reserve): refused while draining, otherwise the seat's time is set anew.
Reserve(p) ==
    /\ ~draining
    /\ reservations' = [reservations EXCEPT ![p] = Expiry]
    /\ UNCHANGED <<entered, zoneIndex, drainVars, sessionVars, jobVars, inputVars, view>>

\* on_request(SetMode)
SetMode(drain) ==
    /\ draining' = drain
    /\ drainSent' = (drain /\ drainSent)
    /\ UNCHANGED <<tableVars, sessionVars, jobVars, inputVars, view>>

NoOneEntered == \A p \in Players : entered[p] = NoEntry

\* on_tick: the session server is told once that the drained village is empty.
DrainComplete ==
    /\ draining
    /\ NoOneEntered
    /\ ~drainSent
    /\ drainSent' = TRUE
    /\ UNCHANGED <<tableVars, draining, sessionVars, jobVars, inputVars, view>>

\* on_disconnected: the next session server has not been told.
LinkLost ==
    /\ drainSent
    /\ drainSent' = FALSE
    /\ UNCHANGED <<tableVars, draining, sessionVars, jobVars, inputVars, view>>

SweepExpired ==
    /\ reservations' = [p \in Players |->
                          IF reservations[p] = 0 THEN NoSeat ELSE reservations[p]]
    /\ reservations' # reservations
    /\ UNCHANGED <<entered, zoneIndex, drainVars, sessionVars, jobVars, inputVars, view>>

\* Time goes on.
Tick ==
    /\ reservations' = [p \in Players |->
                          IF reservations[p] \in 1..Expiry THEN reservations[p] - 1
                          ELSE reservations[p]]
    /\ reservations' # reservations
    /\ UNCHANGED <<entered, zoneIndex, drainVars, sessionVars, jobVars, inputVars, view>>

-----------------------------------------------------------------------------
(* What reaches a session from outside *)

\* Session o carries, or is about to carry, player p.
Speaks(o, p) ==
    \/ playerId[o] = p
    \/ arg[o] = p
    \/ \E i \in DOMAIN jobs[o] : jobs[o][i] = <<"enter", p>>

Finished(o) == cleaned[o] /\ jobs[o] = <<>> /\ step[o] = "idle"

\* drain_frames: closing is not looked at, so frames may come after the cleanup
\* job was queued or has run.
Receive(s, f) ==
    /\ toReceive[s] > 0
    /\ ~Overlap =>
         /\ ~Finished(s)
         /\ f[1] = "enter" => \A o \in Sessions \ {s} : Speaks(o, f[2]) => Finished(o)
    /\ toReceive' = [toReceive EXCEPT ![s] = @ - 1]
    /\ jobs' = [jobs EXCEPT ![s] = Append(@, f)]
    /\ UNCHANGED <<tableVars, drainVars, sessionVars, jobVars, view>>

\* close_session by any thread: closing first ...
Close(s) ==
    /\ ~closing[s]
    /\ closing' = [closing EXCEPT ![s] = TRUE]
    /\ UNCHANGED <<tableVars, drainVars, playerId, handedOff, cleaned, jobVars,
                   inputVars, view>>

\* ... then the cleanup job.
HandOff(s) ==
    /\ closing[s]
    /\ ~handedOff[s]
    /\ handedOff' = [handedOff EXCEPT ![s] = TRUE]
    /\ jobs' = [jobs EXCEPT ![s] = Append(@, Gone)]
    /\ UNCHANGED <<tableVars, drainVars, playerId, closing, cleaned, jobVars,
                   toReceive, view>>

-----------------------------------------------------------------------------
(* The jobs *)

Goto(s, label) == step' = [step EXCEPT ![s] = label]

\* The job is over; nothing of it is left.
End(s) ==
    /\ Goto(s, "idle")
    /\ arg' = [arg EXCEPT ![s] = NoPlayer]

Busy == {s \in Sessions : step[s] # "idle"}

BeginJob(s) ==
    /\ step[s] = "idle"
    /\ jobs[s] # <<>>
    /\ Cardinality(Busy) < Workers
    /\ jobs' = [jobs EXCEPT ![s] = Tail(@)]
    /\ Goto(s, Head(jobs[s])[1])
    /\ arg' = [arg EXCEPT ![s] = Head(jobs[s])[2]]
    /\ UNCHANGED <<tableVars, drainVars, sessionVars, tells, list, to, toReceive, view>>

\* handle_enter: one identity per session, none while draining; the reservation
\* is kept.
EnterAllowed(s) ==
    /\ step[s] = "enter"
    /\ IF playerId[s] # NoPlayer \/ draining
       THEN End(s)
       ELSE Goto(s, "consume") /\ UNCHANGED arg
    /\ UNCHANGED <<tableVars, drainVars, sessionVars, tells, list, to, inputVars, view>>

\* consume_reservation: gone whether it was still valid or not.
ConsumeReservation(s) ==
    /\ step[s] = "consume"
    /\ reservations' = [reservations EXCEPT ![arg[s]] = NoSeat]
    /\ IF reservations[arg[s]] \notin {0, NoSeat}
       THEN Goto(s, "insert") /\ UNCHANGED arg
       ELSE End(s)
    /\ UNCHANGED <<entered, zoneIndex, drainVars, sessionVars, tells, list, to,
                   inputVars, view>>

\* enter: refused if the player is in already; then Session::player_id.
Enter(s) ==
    /\ step[s] = "insert"
    /\ IF entered[arg[s]] # NoEntry
       THEN End(s) /\ UNCHANGED <<entered, playerId>>
       ELSE /\ entered' = [entered EXCEPT ![arg[s]] = [session |-> s, zone |-> NoZone]]
            /\ playerId' = [playerId EXCEPT ![s] = arg[s]]
            /\ Goto(s, "check")
            /\ UNCHANGED arg
    /\ UNCHANGED <<reservations, zoneIndex, drainVars, closing, handedOff, cleaned,
                   tells, list, to, inputVars, view>>

\* Mutant: closing is not looked at again.
EnterUnchecked(s) ==
    /\ step[s] = "check"
    /\ End(s)
    /\ UNCHANGED <<tableVars, drainVars, sessionVars, tells, list, to,
                   inputVars, view>>

\* The cleanup job may have run already: take the entry out again.
EnterCheck(s) ==
    /\ step[s] = "check"
    /\ IF closing[s] THEN Leave(playerId[s], s) ELSE UNCHANGED <<entered, zoneIndex>>
    /\ End(s)
    /\ UNCHANGED <<reservations, drainVars, sessionVars, tells, list, to,
                   inputVars, view>>

\* on_frame's gate: a session without an identity is closed.
JoinGate(s) ==
    /\ step[s] = "join"
    /\ playerId[s] = NoPlayer
    /\ closing' = [closing EXCEPT ![s] = TRUE]
    /\ End(s)
    /\ UNCHANGED <<tableVars, drainVars, playerId, handedOff, cleaned, tells, list, to,
                   inputVars, view>>

OldZone(z) == IF z = NoZone THEN <<>> ELSE <<z>>

\* Mutant: the new zone is not told.
JoinZoneTellsOld(s) ==
    /\ step[s] = "join"
    /\ playerId[s] # NoPlayer
    /\ IF entered[playerId[s]] = NoEntry
       THEN End(s) /\ UNCHANGED <<entered, zoneIndex, tells>>
       ELSE /\ MoveZone(playerId[s], s, arg[s])
            /\ tells' = [tells EXCEPT ![s] = OldZone(entered[playerId[s]].zone)]
            /\ Goto(s, "tell") /\ UNCHANGED arg
    /\ UNCHANGED <<reservations, drainVars, sessionVars, list, to, inputVars, view>>

\* handle_join_zone: move, then tell the new zone and the old one.
JoinZone(s) ==
    /\ step[s] = "join"
    /\ playerId[s] # NoPlayer
    /\ IF entered[playerId[s]] = NoEntry
       THEN End(s) /\ UNCHANGED <<entered, zoneIndex, tells>>
       ELSE /\ MoveZone(playerId[s], s, arg[s])
            /\ tells' = [tells EXCEPT ![s] =
                           <<arg[s]>> \o OldZone(entered[playerId[s]].zone)]
            /\ Goto(s, "tell") /\ UNCHANGED arg
    /\ UNCHANGED <<reservations, drainVars, sessionVars, list, to, inputVars, view>>

\* on_session_gone's job.  The zone told is the one the entry had.
Cleanup(s) ==
    /\ step[s] = "gone"
    /\ cleaned' = [cleaned EXCEPT ![s] = TRUE]
    /\ IF playerId[s] = NoPlayer
       THEN UNCHANGED <<entered, zoneIndex, tells>>
       ELSE LET e == entered[playerId[s]] IN
            /\ Leave(playerId[s], s)
            /\ tells' = [tells EXCEPT ![s] =
                 IF e # NoEntry /\ e.session = s THEN OldZone(e.zone) ELSE <<>>]
    /\ Goto(s, "tell")
    /\ UNCHANGED <<reservations, drainVars, playerId, closing, handedOff, arg, list, to,
                   inputVars, view>>

\* broadcast_zone_members: the list is taken under L1, with a hold on each member ...
SnapshotZone(s) ==
    /\ step[s] = "tell"
    /\ IF tells[s] = <<>>
       THEN End(s) /\ UNCHANGED <<tells, list, to>>
       ELSE /\ list' = [list EXCEPT ![s] = Members(Head(tells[s]))]
            /\ to' = [to EXCEPT ![s] = Members(Head(tells[s]))]
            /\ tells' = [tells EXCEPT ![s] = Tail(@)]
            /\ Goto(s, "send") /\ UNCHANGED arg
    /\ UNCHANGED <<tableVars, drainVars, sessionVars, inputVars, view>>

\* ... and sent outside of it to one member after the other.
SendList(s, m) ==
    /\ step[s] = "send"
    /\ m \in to[s]
    /\ to' = [to EXCEPT ![s] = @ \ {m}]
    /\ view' = [view EXCEPT ![m] = list[s]]
    /\ UNCHANGED <<tableVars, drainVars, sessionVars, step, arg, tells, list, inputVars>>

ListSent(s) ==
    /\ step[s] = "send"
    /\ to[s] = {}
    /\ Goto(s, "tell")
    /\ list' = [list EXCEPT ![s] = {}]
    /\ UNCHANGED <<tableVars, drainVars, sessionVars, arg, tells, to, inputVars, view>>

-----------------------------------------------------------------------------
JobStep(s) ==
    \/ EnterAllowed(s) \/ ConsumeReservation(s) \/ Enter(s) \/ EnterCheck(s)
    \/ JoinGate(s) \/ JoinZone(s) \/ Cleanup(s)
    \/ SnapshotZone(s) \/ ListSent(s)
    \/ \E m \in Sessions : SendList(s, m)

Environment ==
    \/ \E p \in Players : Reserve(p)
    \/ \E drain \in Modes : SetMode(drain)
    \/ LinkLost \/ SweepExpired \/ Tick
    \/ \E s \in Sessions : Close(s) \/ \E f \in Frames : Receive(s, f)

Next ==
    \/ Environment
    \/ DrainComplete
    \/ \E s \in Sessions : HandOff(s) \/ BeginJob(s) \/ JobStep(s)

Spec == Init /\ [][Next]_vars

\* A closer hands the cleanup job over, jobs run and end, every session's right
\* comes up in turn, and the tick comes back.  Nothing makes a client or the
\* session server act, and a busy pool delays a right but never for ever.
Fairness ==
    /\ \A s \in Sessions :
         WF_vars(HandOff(s)) /\ SF_vars(BeginJob(s)) /\ WF_vars(JobStep(s))
    /\ SF_vars(DrainComplete)

FairSpec == Spec /\ Fairness

-----------------------------------------------------------------------------
(* Properties *)

\* A session that entered and is not being closed is in the roster under its
\* own name: no late job of another session has taken it out, or its seat over
\* (entry_table.h:123-130).
LiveIsListed ==
    \A s \in Sessions :
        playerId[s] # NoPlayer /\ ~closing[s] =>
            entered[playerId[s]] # NoEntry /\ entered[playerId[s]].session = s

\* A session that has finished leaves no entry behind, whatever the order in
\* which its closing, its cleanup and a late Enter ran: the player can come back
\* (frame_router.cpp:407-422).
NoGhostEntry ==
    \A p \in Players : entered[p] # NoEntry =>
        LET s == entered[p].session IN
        /\ playerId[s] = p
        /\ cleaned[s] => step[s] = "check"

\* The roster is who is here: every live session under its own name, nobody who
\* has gone, and no pointer to nothing (entry_table.h:20-23, 123-130).
RosterIsLive == TypeOK /\ LiveIsListed /\ NoGhostEntry

\* The zone index says of every session exactly what its entry says, so a
\* broadcast reaches the members of a zone and nobody else, and every pointer in
\* a bucket is covered by the hold of an entry (entry_table.h:20-23).
IndexAgrees ==
    \A z \in Zones, s \in Sessions :
        zoneIndex[z][s] =
            Cardinality({p \in Players :
                entered[p] # NoEntry /\ entered[p].session = s /\ entered[p].zone = z})

\* Nothing of a session's fate is left to be processed.
Settled ==
    \A s \in Sessions : step[s] = "idle" /\ jobs[s] = <<>> /\ (closing[s] => cleaned[s])

\* When everything has been processed, all members of a zone have been sent the
\* same list and it is the zone's: no ghost to trade with, nobody invisible
\* (frame_router.cpp:188-190, 227-228).
ListsConverge ==
    Settled => \A z \in Zones : \A s \in Members(z) : view[s] = Members(z)

\* After DrainComplete the village stays empty until the drain is lifted: the
\* operator may shut it down (DESIGN-server-split.md:262).
DrainedStaysEmpty ==
    draining /\ drainSent => NoOneEntered

\* A drained village whose sessions are all closed reports it in the end: no
\* entry keeps current() above 0 for ever.
DrainEnds ==
    (draining /\ \A s \in Sessions : closing[s]) ~> (drainSent \/ ~draining)
=============================================================================
