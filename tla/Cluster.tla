------------------------------- MODULE Cluster -------------------------------
(***************************************************************************)
(* The session server (session::Registry behind session::Router, one       *)
(* mutex) and the villages' side of its protocol (app::S2sLink): who is    *)
(* registered, who plays where, where a login is sent.                     *)
(*                                                                         *)
(* A link is one connection of a village, a queue of messages each way; the*)
(* connector below it is module S2sConnector.  It may break at any time,   *)
(* each end finds out by itself, and what was received before is still     *)
(* handled: frames cut behind the one that closed the connection run after *)
(* session_gone.                                                           *)
(*                                                                         *)
(* Time is a choice: whatever may be due is.  The choice of the least      *)
(* loaded village is one of any eligible village, so the player counts     *)
(* that Register and Heartbeat carry are left out, and so are replies      *)
(* nobody acts on (HeartbeatAck, UnregisterAck, SetModeAck, DrainComplete).*)
(***************************************************************************)
EXTENDS Integers, Sequences, FiniteSets, SequencesExt

CONSTANTS
    Villages,      \* host:port of each
    Settled,       \* bound of the model: those that are registered when it begins
    Drained,       \* bound of the model: those that may drain then, their entries made anew since
    Players,
    Capacity,      \* registry_capacity
    ChunkMax,      \* players in one FullSync
    MaxLinks,      \* bound of the model: connections there are traces of at a time
    MaxLogins,     \* bound of the model: logins
    MaxTrouble,    \* bound of the model: broken links, deaths, late heartbeats, villages
                   \* that shut down, commands of the operator
    None

ASSUME ClusterAssumption ==
    /\ Capacity \in Nat \ {0} /\ ChunkMax \in Nat \ {0} /\ MaxLinks \in Nat \ {0}
    /\ MaxLogins \in Nat /\ MaxTrouble \in Nat
    /\ Drained \subseteq Settled /\ Settled \subseteq Villages /\ Cardinality(Settled) <= MaxLinks
    /\ Cardinality(Settled) <= Capacity
    /\ IsFiniteSet(Settled) /\ IsFiniteSet(Players)
    /\ None \notin [server : Nat, issue : Nat]

Links == 1..MaxLinks

VARIABLES
    \* the registry
    entries,       \* entries_: [id, host, conn, link, orphan, draining]
    record,        \* connections_: player -> server id, or 0
    booking,       \* reservations_: player -> [server, issue], or None
    nextId, nextIssue,
    parting,       \* unregister_grace_until_: links in their grace
    \* the router
    asked,         \* pending_: link -> [reserves, kicks, next]
    holds,         \* holds on the Session of each link that are not released
    gone,          \* links session_gone has run for; those never used too
    \* the network
    lost,          \* links that are closed, or not used
    up, down,      \* what is under way, to the session server and from it
    \* the villages
    conn,          \* its connection, or 0
    registered,    \* registered_
    roster,        \* EntryTable: player -> "out", "in", or "closing"
    seat,          \* EntryTable::reservations_
    drain,         \* EntryTable::draining_
    kick,          \* the Kick it is busy with: [player, seq, there], or None
    quit,          \* it shuts down: "no", "told" (Unregister is sent), "ended"
    \* histories and bounds
    refused,       \* issues a village has refused
    logins, trouble

registryVars == <<entries, record, booking, nextId, nextIssue, parting>>
routerVars == <<asked, holds>>
villageVars == <<registered, roster, seat, drain, kick, quit, refused>>
bounds == <<logins, trouble>>
vars == <<registryVars, routerVars, gone, lost, up, down, conn, villageVars, bounds>>

NothingAsked == [reserves |-> {}, kicks |-> {}, next |-> 1]

(* The first connections are those of the villages that are settled. *)
SettledAt == SetToSeq(Settled)
ConnAtFirst(v) == IF v \in Settled THEN CHOOSE l \in DOMAIN SettledAt : SettledAt[l] = v ELSE 0

Init ==
    /\ entries = {[id |-> l, host |-> SettledAt[l], conn |-> l, link |-> l, orphan |-> 0,
                   draining |-> FALSE] : l \in DOMAIN SettledAt}
    /\ record = [p \in Players |-> 0]
    /\ booking = [p \in Players |-> None]
    /\ nextId = 1 + Len(SettledAt) /\ nextIssue = 1 /\ parting = {}
    /\ asked = [l \in Links |-> NothingAsked]
    /\ holds = [l \in Links |-> IF l \in DOMAIN SettledAt THEN 1 ELSE 0]
    /\ gone = Links \ DOMAIN SettledAt /\ lost = Links \ DOMAIN SettledAt
    /\ up = [l \in Links |-> <<>>] /\ down = [l \in Links |-> <<>>]
    /\ conn = [v \in Villages |-> ConnAtFirst(v)]
    /\ registered = [v \in Villages |-> v \in Settled]
    /\ roster = [v \in Villages |-> [p \in Players |-> "out"]]
    /\ seat = [v \in Villages |-> [p \in Players |-> FALSE]]
    /\ \E d \in SUBSET Drained : drain = [v \in Villages |-> v \in d]
    /\ kick = [v \in Villages |-> None]
    /\ quit = [v \in Villages |-> "no"]
    /\ refused = {}
    /\ logins = 0 /\ trouble = 0

-----------------------------------------------------------------------------
(* Registry *)

ByConn(l) == {e \in entries : e.conn = l}          \* find_by_net_session
IdOf(l) == IF ByConn(l) = {} THEN 0 ELSE (CHOOSE e \in ByConn(l) : TRUE).id
ById(id) == {e \in entries : e.id = id}
LinkOf(id) == IF ById(id) = {} THEN 0 ELSE (CHOOSE e \in ById(id) : TRUE).link

(* orphaned_at_ms, as a rank: a later one is greater. *)
NextStamp == 1 + Max({e.orphan : e \in entries} \cup {0})

Updated(e, f) == (entries \ {e}) \cup {f}
NewEntry(l, host) ==
    [id |-> nextId, host |-> host, conn |-> l, link |-> l, orphan |-> 0, draining |-> FALSE]
(* heartbeat(): a sign of life; nothing where the connection has no entry. *)
Heard(l) == {IF e.conn = l THEN [e EXCEPT !.orphan = 0] ELSE e : e \in entries}
MarkedDraining(id, d) == {IF e.id = id THEN [e EXCEPT !.draining = d] ELSE e : e \in entries}
InGrace(l) == l \in parting
Forget(id) == [p \in Players |-> IF record[p] = id THEN 0 ELSE record[p]]
(* player_entered() overwrites; player_left() looks whose the record is. *)
PlayerRecord(p, id, entered) ==
    IF entered THEN id ELSE IF record[p] = id THEN 0 ELSE record[p]
(* attach_link(): the entry points to the Session, which gets a hold for it. *)
Attached(l) == [holds EXCEPT ![l] = @ + 1]
Released(h, l) == IF l = 0 THEN h ELSE [h EXCEPT ![l] = @ - 1]

Alive(l) == l \notin lost
(* A message to a connection that is closed goes nowhere. *)
Sent(queue, l, m) == IF Alive(l) THEN [queue EXCEPT ![l] = Append(@, m)] ELSE queue

-----------------------------------------------------------------------------
(* Router: the client side *)

HasPendingKick(row, p) == \E k \in row.kicks : k.player = p

AsksReserve(row, r) == [row EXCEPT !.reserves = @ \cup {r}, !.next = @ + 1]
AsksKick(row, k) == [row EXCEPT !.kicks = @ \cup {k}, !.next = @ + 1]

(* Somebody is logged in as p where there is a link: he is asked to leave. *)
LoginBusy(p, l) ==
    /\ IF HasPendingKick(asked[l], p) THEN UNCHANGED <<asked, down>>
       ELSE LET seq == asked[l].next IN
            /\ asked' = [asked EXCEPT ![l] = AsksKick(@,
                             [seq |-> seq, player |-> p, server |-> record[p]])]
            /\ down' = Sent(down, l, [type |-> "Kick", player |-> p, seq |-> seq])
    /\ UNCHANGED <<entries, booking, nextIssue, trouble>>

(* assign(): late ones are marked first; then a village, and its Reserve. *)
LoginAssign(p) ==
    \E late \in SUBSET {e \in entries : e.orphan = 0} :
        LET marked == {IF e \in late THEN [e EXCEPT !.orphan = NextStamp] ELSE e : e \in entries}
            eligible == {e \in marked : e.orphan = 0 /\ ~e.draining}
            falsely == {e \in late : Alive(e.conn)}
        IN
        /\ trouble + Cardinality(falsely) <= MaxTrouble
        /\ trouble' = trouble + Cardinality(falsely)
        /\ entries' = marked
        /\ IF eligible = {} THEN UNCHANGED <<booking, nextIssue, asked, down>>
           ELSE \E e \in eligible :
                /\ booking' = [booking EXCEPT ![p] = [server |-> e.id, issue |-> nextIssue]]
                /\ nextIssue' = nextIssue + 1
                /\ IF e.link = 0 THEN UNCHANGED <<asked, down>>
                   ELSE LET seq == asked[e.link].next IN
                        /\ asked' = [asked EXCEPT ![e.link] = AsksReserve(@,
                               [seq |-> seq, player |-> p, server |-> e.id, issue |-> nextIssue])]
                        /\ down' = Sent(down, e.link,
                               [type |-> "Reserve", player |-> p, seq |-> seq,
                                issue |-> nextIssue])

(* handle_session_login.  The answer is sent at once and is not followed: a *)
(* client uses the seat its village gives it.                                *)
Login(p) ==
    /\ logins < MaxLogins
    /\ logins' = logins + 1
    /\ IF record[p] # 0 /\ LinkOf(record[p]) # 0
       THEN LoginBusy(p, LinkOf(record[p]))
       ELSE LoginAssign(p)
    /\ UNCHANGED <<record, nextId, parting, holds, gone, lost, up, conn, villageVars>>

(* request_set_mode: the operator's command; it is not remembered. *)
SetMode(e, d) ==
    /\ trouble < MaxTrouble /\ trouble' = trouble + 1
    /\ entries' = MarkedDraining(e.id, d)
    /\ IF e.link = 0 THEN UNCHANGED <<asked, down>>
       ELSE /\ asked' = [asked EXCEPT ![e.link].next = @ + 1]
            /\ down' = Sent(down, e.link, [type |-> "SetMode", drain |-> d])
    /\ UNCHANGED <<record, booking, nextId, nextIssue, parting, holds, gone, lost, up,
                   conn, villageVars, logins>>

-----------------------------------------------------------------------------
(* Router: the village side.  Each handler is one critical section. *)

(* What all handlers leave alone. *)
FromVillage == UNCHANGED <<gone, conn, villageVars, bounds>>
Received(l) == up' = [up EXCEPT ![l] = Tail(@)]

Answer(l, ok) == down' = Sent(down, l, [type |-> "RegisterAck", ok |-> ok])

Room == Cardinality(entries) < Capacity

(* register_server: an orphan of the same host is revived, or there is a new *)
(* entry.  A village registers once in a connection, so that the first match, *)
(* by the connection, finds nothing.                                          *)
OnRegister(l, host) ==
    LET orphans == {e \in entries : e.host = host /\ e.orphan > 0}
        newest == CHOOSE e \in orphans : \A f \in orphans : f.orphan <= e.orphan
    IN
    /\ \/ /\ orphans # {}
          /\ entries' = Updated(newest, [newest EXCEPT !.conn = l, !.link = l, !.orphan = 0])
          /\ holds' = Released(Attached(l), newest.link)
          /\ Answer(l, TRUE)
          /\ UNCHANGED nextId
       \/ /\ orphans = {} /\ Room
          /\ entries' = entries \cup {NewEntry(l, host)}
          /\ nextId' = nextId + 1
          /\ holds' = Attached(l)
          /\ Answer(l, TRUE)
       \/ /\ orphans = {} /\ ~Room
          /\ Answer(l, FALSE)
          /\ UNCHANGED <<entries, nextId, holds>>
    /\ Received(l)
    /\ UNCHANGED <<record, booking, nextIssue, parting, asked, lost>>

\* Mutant: a heartbeat of nobody is answered like any other.
OnHeartbeatPatient(l) ==
    /\ entries' = Heard(l)
    /\ Received(l)
    /\ UNCHANGED <<record, booking, nextId, nextIssue, parting, routerVars, lost, down>>

(* A heartbeat saves an orphan; one nobody knows is cut, or it would never *)
(* register again.                                                         *)
OnHeartbeat(l) ==
    /\ entries' = Heard(l)
    /\ lost' = IF ByConn(l) = {} /\ ~InGrace(l) THEN lost \cup {l} ELSE lost
    /\ Received(l)
    /\ UNCHANGED <<record, booking, nextId, nextIssue, parting, routerVars, down>>

(* unregister(): the grace begins whether there is an entry or not. *)
Unregistered(l) ==
    /\ parting' = parting \cup {l}
    /\ entries' = entries \ ByConn(l)
    /\ record' = IF ByConn(l) = {} THEN record ELSE Forget(IdOf(l))

OnUnregister(l) ==
    /\ Unregistered(l)
    /\ holds' = IF ByConn(l) = {} THEN holds ELSE Released(holds, LinkOf(IdOf(l)))
    /\ Received(l)
    /\ UNCHANGED <<booking, nextId, nextIssue, asked, lost, down>>

(* PlayerEnter, PlayerLeave: of no interest from who is not registered. *)
OnPlayer(l, p, entered) ==
    LET id == IdOf(l) IN
    /\ record' = IF id = 0 THEN record
                 ELSE [record EXCEPT ![p] = PlayerRecord(p, id, entered)]
    /\ Received(l)
    /\ UNCHANGED <<entries, booking, nextId, nextIssue, parting, routerVars, lost, down>>

\* Mutant: a full sync only adds.
ClearedNever(id, first) == record

(* full_sync_replace: the first part clears what is this village's; players  *)
(* on record elsewhere stay there and the sender is asked to kick them.      *)
Cleared(id, first) == IF first THEN Forget(id) ELSE record

Conflicts(base, id, ids) == {p \in ids : base[p] \notin {0, id}}
Synced(base, id, ids) ==
    [p \in Players |-> IF p \in ids \ Conflicts(base, id, ids) THEN id ELSE base[p]]

(* The rows of the kicks, in some order, and their messages. *)
KickSeq(row, i) == row.next + i - 1
KicksAsked(row, order, id) ==
    [row EXCEPT !.kicks = @ \cup {[seq |-> KickSeq(row, i), player |-> order[i], server |-> id]
                                  : i \in DOMAIN order},
                !.next = @ + Len(order)]
KickMessages(row, order) ==
    [i \in DOMAIN order |->
        [type |-> "Kick", player |-> order[i], seq |-> KickSeq(row, i)]]

OnFullSync(l, first, ids) ==
    LET id == IdOf(l)
        base == Cleared(id, first)
        order == SetToSeq({p \in Conflicts(base, id, ids) : ~HasPendingKick(asked[l], p)})
    IN
    /\ IF id = 0 THEN UNCHANGED <<record, asked, down>>
       ELSE /\ record' = Synced(base, id, ids)
            /\ asked' = [asked EXCEPT ![l] = KicksAsked(@, order, id)]
            /\ down' = IF Alive(l) THEN [down EXCEPT ![l] = @ \o KickMessages(asked[l], order)]
                       ELSE down
    /\ Received(l)
    /\ UNCHANGED <<entries, booking, nextId, nextIssue, parting, holds, lost>>

\* Mutant: the reservation is known by its village alone.
OursByServer(b, r) == b # None /\ b.server = r.server

(* revoke_reservation: by the issue, for the player may have logged in again. *)
Ours(b, r) == b # None /\ b.issue = r.issue

OnReserveAck(l, seq, ok) ==
    LET found == {r \in asked[l].reserves : r.seq = seq} IN
    /\ asked' = [asked EXCEPT ![l].reserves = @ \ found]
    /\ IF ok \/ found = {} THEN UNCHANGED <<booking, entries>>
       ELSE \E r \in found :
            /\ entries' = MarkedDraining(r.server, TRUE)
            /\ booking' = IF Ours(booking[r.player], r)
                          THEN [booking EXCEPT ![r.player] = None] ELSE booking
    /\ Received(l)
    /\ UNCHANGED <<record, nextId, nextIssue, parting, holds, lost, down>>

OnKickAck(l, seq, kicked) ==
    LET found == {k \in asked[l].kicks : k.seq = seq} IN
    /\ asked' = [asked EXCEPT ![l].kicks = @ \ found]
    /\ record' = [p \in Players |->
                    IF ~kicked /\ \E k \in found : k.player = p /\ k.server = record[p]
                    THEN 0 ELSE record[p]]
    /\ Received(l)
    /\ UNCHANGED <<entries, booking, nextId, nextIssue, parting, holds, lost, down>>

(* on_s2s_frame *)
Recv(l) ==
    /\ up[l] # <<>>
    /\ LET m == Head(up[l]) IN
       \/ m.type = "Register" /\ OnRegister(l, m.host)
       \/ m.type = "Heartbeat" /\ OnHeartbeat(l)
       \/ m.type = "Unregister" /\ OnUnregister(l)
       \/ m.type \in {"PlayerEnter", "PlayerLeave"}
          /\ OnPlayer(l, m.player, m.type = "PlayerEnter")
       \/ m.type = "FullSync" /\ OnFullSync(l, m.first, m.ids)
       \/ m.type = "ReserveAck" /\ OnReserveAck(l, m.seq, m.ok)
       \/ m.type = "KickAck" /\ OnKickAck(l, m.seq, m.kicked)
    /\ FromVillage

\* Mutant: the Session is released but still pointed to.
DetachedInName(e) == [e EXCEPT !.orphan = IF @ = 0 THEN NextStamp ELSE @]

(* on_link_down *)
Detached(e) == [e EXCEPT !.orphan = IF @ = 0 THEN NextStamp ELSE @, !.link = 0]

(* on_s2s_gone.  Frames that were received are handled after it, or never. *)
Gone(l) ==
    /\ l \in lost \ gone
    /\ gone' = gone \cup {l}
    /\ entries' = {IF e.conn = l THEN Detached(e) ELSE e : e \in entries}
    /\ holds' = Released(holds, LinkOf(IdOf(l)))
    /\ asked' = [asked EXCEPT ![l] = NothingAsked]
    /\ up' \in {up, [up EXCEPT ![l] = <<>>]}
    /\ UNCHANGED <<record, booking, nextId, nextIssue, parting, lost, down, conn,
                   villageVars, bounds>>

\* Mutant: the players of the village stay on record.
SweepOrphanAlone(e) ==
    /\ e.orphan > 0
    /\ entries' = entries \ {e}
    /\ holds' = Released(holds, e.link)
    /\ UNCHANGED <<record, parting, asked>>

(* on_sweep: what is due.  A pass that finds several is several of these     *)
(* steps.  Reservations that run out only lower a load, which is left out.   *)
SweepOrphan(e) ==
    /\ e.orphan > 0
    /\ entries' = entries \ {e}
    /\ record' = Forget(e.id)
    /\ holds' = Released(holds, e.link)
    /\ UNCHANGED <<parting, asked>>

SweepAsked(l) ==
    /\ \/ \E r \in asked[l].reserves : asked' = [asked EXCEPT ![l].reserves = @ \ {r}]
       \/ \E k \in asked[l].kicks : asked' = [asked EXCEPT ![l].kicks = @ \ {k}]
    /\ UNCHANGED <<entries, record, parting, holds>>

SweepParting(l) ==
    /\ l \in parting
    /\ parting' = parting \ {l}
    /\ UNCHANGED <<entries, record, holds, asked>>

Sweep ==
    /\ \/ \E e \in entries : SweepOrphan(e)
       \/ \E l \in Links : SweepAsked(l) \/ SweepParting(l)
    /\ UNCHANGED <<booking, nextId, nextIssue, gone, lost, up, down, conn, villageVars,
                   bounds>>

-----------------------------------------------------------------------------
(* A village.  What it sends while it has no connection is dropped. *)

ToServer(v, m) == up' = IF conn[v] = 0 THEN up ELSE Sent(up, conn[v], m)
(* notify_player_enter, notify_player_leave: one way, nobody answers. *)
Notify(v, p, entered) ==
    ToServer(v, [type |-> IF entered THEN "PlayerEnter" ELSE "PlayerLeave", player |-> p])
VillageOnly == UNCHANGED <<registryVars, routerVars, gone>>

(* A link of which nothing is left stands for the next connection made. *)
Unused(l) ==
    /\ l \in lost \cap gone /\ l \notin parting
    /\ up[l] = <<>> /\ holds[l] = 0 /\ asked[l] = NothingAsked
    /\ \A v \in Villages : conn[v] # l
    /\ \A e \in entries : e.conn # l

(* on_connected *)
Connect(v) ==
    /\ conn[v] = 0 /\ quit[v] # "ended"
    /\ \E l \in Links :
        /\ Unused(l) /\ \A k \in Links : Unused(k) => l <= k
        /\ conn' = [conn EXCEPT ![v] = l]
        /\ lost' = lost \ {l} /\ gone' = gone \ {l}
        /\ up' = [up EXCEPT ![l] = <<[type |-> "Register", host |-> v]>>]
    /\ UNCHANGED <<registryVars, routerVars, down, villageVars, bounds>>

(* on_disconnected, when the village notices or after force_disconnect(). *)
Unplugged(v) ==
    /\ conn' = [conn EXCEPT ![v] = 0]
    /\ registered' = [registered EXCEPT ![v] = FALSE]
    /\ down' = [down EXCEPT ![conn[v]] = <<>>]

Disconnected(v) ==
    /\ conn[v] # 0 /\ ~Alive(conn[v]) /\ kick[v] = None
    /\ Unplugged(v)
    /\ VillageOnly /\ UNCHANGED <<lost, up, roster, seat, drain, kick, quit, refused, bounds>>

(* send_full_sync, all of it under the lock of the roster. *)
Present(v) == SetToSeq({p \in Players : roster[v][p] # "out"})
FullSync(v) ==
    LET ids == Present(v)
        n == (Len(ids) + ChunkMax - 1) \div ChunkMax
        last(i) == IF i * ChunkMax < Len(ids) THEN i * ChunkMax ELSE Len(ids)
    IN  [i \in 1..(IF n = 0 THEN 1 ELSE n) |->
            [type |-> "FullSync", first |-> i = 1,
             ids |-> {ids[k] : k \in (i - 1) * ChunkMax + 1 .. last(i)}]]

(* on_register_ack: registered, or the village hangs up and tries again. *)
TakeRegisterAck(v, ok) ==
    IF ok
    THEN /\ registered' = [registered EXCEPT ![v] = TRUE]
         /\ up' = IF Alive(conn[v]) THEN [up EXCEPT ![conn[v]] = @ \o FullSync(v)] ELSE up
         /\ down' = [down EXCEPT ![conn[v]] = Tail(@)]
         /\ UNCHANGED <<conn, lost, roster, seat, drain, kick, quit, refused>>
    ELSE /\ lost' = lost \cup {conn[v]}
         /\ Unplugged(v)
         /\ UNCHANGED <<up, roster, seat, drain, kick, quit, refused>>

(* on_request *)
TakeReserve(v, m) ==
    /\ IF drain[v]
       THEN refused' = refused \cup {m.issue} /\ UNCHANGED seat
       ELSE seat' = [seat EXCEPT ![v][m.player] = TRUE] /\ UNCHANGED refused
    /\ ToServer(v, [type |-> "ReserveAck", seq |-> m.seq, ok |-> ~drain[v]])
    /\ UNCHANGED <<drain, kick>>

TakeSetMode(v, m) ==
    /\ drain' = [drain EXCEPT ![v] = m.drain]
    /\ UNCHANGED <<up, seat, kick, refused>>

(* find_session *)
There(v, p) == roster[v][p] # "out"

(* Nobody is there, or the session is closed and then answered. *)
KickAck(seq, kicked) == [type |-> "KickAck", seq |-> seq, kicked |-> kicked]
TakeKick(v, m) ==
    /\ IF There(v, m.player)
       THEN /\ kick' = [kick EXCEPT ![v] =
                          [player |-> m.player, seq |-> m.seq, there |-> TRUE]]
            /\ UNCHANGED up
       ELSE ToServer(v, KickAck(m.seq, FALSE)) /\ UNCHANGED kick
    /\ UNCHANGED <<seat, drain, refused>>

Take(v) ==
    /\ conn[v] # 0 /\ kick[v] = None /\ down[conn[v]] # <<>>
    /\ LET m == Head(down[conn[v]]) IN
       \/ m.type = "RegisterAck" /\ TakeRegisterAck(v, m.ok)
       \/ /\ m.type # "RegisterAck"
          /\ down' = [down EXCEPT ![conn[v]] = Tail(@)]
          /\ \/ m.type = "Reserve" /\ TakeReserve(v, m)
             \/ m.type = "SetMode" /\ TakeSetMode(v, m)
             \/ m.type = "Kick" /\ TakeKick(v, m)
          /\ UNCHANGED <<conn, lost, registered, roster, quit>>
    /\ VillageOnly /\ UNCHANGED bounds

\* Mutant: the answer is all there is.
KickCloseInName(v) ==
    /\ kick[v] # None
    /\ ToServer(v, KickAck(kick[v].seq, TRUE))
    /\ kick' = [kick EXCEPT ![v] = None]
    /\ VillageOnly
    /\ UNCHANGED <<lost, down, conn, registered, roster, seat, drain, quit, refused, bounds>>

(* close_by_id: when the session that was found has left meanwhile it may be *)
(* found or not, whoever has entered since.                                  *)
ClosedById(v) == IF kick[v].there THEN {TRUE} ELSE BOOLEAN

KickClose(v) ==
    /\ kick[v] # None
    /\ \E kicked \in ClosedById(v) : ToServer(v, KickAck(kick[v].seq, kicked))
    /\ roster' = IF kick[v].there
                 THEN [roster EXCEPT ![v][kick[v].player] = "closing"] ELSE roster
    /\ kick' = [kick EXCEPT ![v] = None]
    /\ VillageOnly
    /\ UNCHANGED <<lost, down, conn, registered, seat, drain, quit, refused, bounds>>

(* on_tick.  Bound of the model: no heartbeat that would change nothing, or  *)
(* behind other messages.                                                    *)
Tick(v) ==
    /\ registered[v] /\ conn[v] # 0 /\ kick[v] = None /\ up[conn[v]] = <<>>
    /\ \A e \in ByConn(conn[v]) : e.orphan > 0
    /\ ToServer(v, [type |-> "Heartbeat"])
    /\ VillageOnly /\ UNCHANGED <<lost, down, conn, villageVars, bounds>>

(* handle_enter: a seat is used, the entry made and told under one lock. *)
Enter(v, p) ==
    /\ seat[v][p]
    /\ seat' = [seat EXCEPT ![v][p] = FALSE]
    /\ IF roster[v][p] = "out"
       THEN /\ roster' = [roster EXCEPT ![v][p] = "in"]
            /\ Notify(v, p, TRUE)
       ELSE UNCHANGED <<roster, up>>
    /\ VillageOnly
    /\ UNCHANGED <<lost, down, conn, registered, drain, kick, quit, refused, bounds>>

(* The player hangs up. *)
Close(v, p) ==
    /\ roster[v][p] = "in"
    /\ trouble < MaxTrouble /\ trouble' = trouble + 1
    /\ roster' = [roster EXCEPT ![v][p] = "closing"]
    /\ VillageOnly
    /\ UNCHANGED <<lost, up, down, conn, registered, seat, drain, kick, quit, refused, logins>>

(* on_session_gone of the village: EntryTable::leave and its notice. *)
Leave(v, p) ==
    /\ roster[v][p] = "closing"
    /\ roster' = [roster EXCEPT ![v][p] = "out"]
    /\ Notify(v, p, FALSE)
    /\ kick' = IF kick[v] # None /\ kick[v].player = p
               THEN [kick EXCEPT ![v].there = FALSE] ELSE kick
    /\ VillageOnly
    /\ UNCHANGED <<lost, down, conn, registered, seat, drain, quit, refused, bounds>>

(* unregister_and_wait *)
Quit(v) ==
    /\ registered[v] /\ quit[v] = "no"
    /\ trouble < MaxTrouble /\ trouble' = trouble + 1
    /\ quit' = [quit EXCEPT ![v] = "told"]
    /\ ToServer(v, [type |-> "Unregister"])
    /\ VillageOnly
    /\ UNCHANGED <<lost, down, conn, registered, roster, seat, drain, kick, refused, logins>>

-----------------------------------------------------------------------------
(* What goes wrong. *)

Break(l) ==
    /\ Alive(l)
    /\ trouble < MaxTrouble /\ trouble' = trouble + 1
    /\ lost' = lost \cup {l}
    /\ UNCHANGED <<registryVars, routerVars, gone, up, down, conn, villageVars, logins>>

(* Nothing of the process is left. *)
Ended(v) ==
    /\ lost' = IF conn[v] = 0 THEN lost ELSE lost \cup {conn[v]}
    /\ down' = IF conn[v] = 0 THEN down ELSE [down EXCEPT ![conn[v]] = <<>>]
    /\ conn' = [conn EXCEPT ![v] = 0]
    /\ registered' = [registered EXCEPT ![v] = FALSE]
    /\ roster' = [roster EXCEPT ![v] = [p \in Players |-> "out"]]
    /\ seat' = [seat EXCEPT ![v] = [p \in Players |-> FALSE]]
    /\ drain' = [drain EXCEPT ![v] = FALSE]
    /\ kick' = [kick EXCEPT ![v] = None]
    /\ VillageOnly /\ UNCHANGED <<up, refused, logins>>

(* A village dies and is started again. *)
Die(v) ==
    /\ quit[v] = "no"
    /\ trouble < MaxTrouble /\ trouble' = trouble + 1
    /\ Ended(v)
    /\ UNCHANGED quit

(* A village that has said so ends when its players are gone. *)
Stop(v) ==
    /\ quit[v] = "told" /\ \A p \in Players : roster[v][p] = "out"
    /\ quit' = [quit EXCEPT ![v] = "ended"]
    /\ Ended(v)
    /\ UNCHANGED trouble

-----------------------------------------------------------------------------
S2s(v) == Connect(v) \/ Disconnected(v) \/ Take(v) \/ KickClose(v)
Router(l) == Recv(l) \/ Gone(l)

Next ==
    \/ \E p \in Players : Login(p)
    \/ \E e \in entries, d \in BOOLEAN : SetMode(e, d)
    \/ \E l \in Links : Router(l) \/ Break(l)
    \/ Sweep
    \/ \E v \in Villages : S2s(v) \/ Tick(v) \/ Quit(v) \/ Die(v) \/ Stop(v)
    \/ \E v \in Villages, p \in Players :
        Enter(v, p) \/ Close(v, p) \/ Leave(v, p)

Spec == Init /\ [][Next]_vars

(* What the system does by itself, each by the variable that shows it: frames *)
(* and messages are handled, a connection that is closed is noticed at both  *)
(* ends, a village connects, kicks and keeps its time, a closed session is   *)
(* cleaned up, and the sweep comes back.  Players, the operator and what     *)
(* goes wrong are free.                                                      *)
Received_(l) == up[l] # <<>> /\ Received(l)
Taken(v) == conn[v] # 0 /\ kick[v] = None /\ down[conn[v]] # <<>>
            /\ down' = [down EXCEPT ![conn[v]] = Tail(@)]
Plugged(v) == conn[v] = 0 /\ quit[v] # "ended"
              /\ \E l \in Links : Unused(l) /\ conn' = [conn EXCEPT ![v] = l]
Noticed(v) == conn[v] # 0 /\ ~Alive(conn[v]) /\ kick[v] = None /\ conn' = [conn EXCEPT ![v] = 0]

FairSpec ==
    /\ Spec
    /\ \A l \in Links :
        /\ WF_up(Received_(l))
        /\ WF_gone(l \in lost /\ gone' = gone \cup {l})
    /\ \A v \in Villages :
        /\ WF_down(Taken(v)) /\ WF_conn(Plugged(v)) /\ WF_conn(Noticed(v))
        /\ WF_kick(kick' = [kick EXCEPT ![v] = None])
        /\ WF_vars(Tick(v))
    /\ \A v \in Villages, p \in Players :
        WF_roster(roster[v][p] = "closing" /\ roster' = [roster EXCEPT ![v][p] = "out"])
    /\ WF_entries(\E e \in entries : e.orphan > 0 /\ entries' = entries \ {e})

-----------------------------------------------------------------------------
TypeOK ==
    /\ entries \subseteq [id : 1..nextId - 1, host : Villages, conn : Links,
                          link : Links \cup {0}, orphan : Nat, draining : BOOLEAN]
    /\ record \in [Players -> 0..nextId - 1]
    /\ Cardinality(entries) <= Capacity
    /\ \A p \in Players : booking[p] # None => booking[p].issue < nextIssue
    /\ parting \subseteq Links /\ gone \subseteq lost /\ lost \subseteq Links
    /\ conn \in [Villages -> Links \cup {0}]
    /\ registered \in [Villages -> BOOLEAN]
    /\ roster \in [Villages -> [Players -> {"out", "in", "closing"}]]
    /\ seat \in [Villages -> [Players -> BOOLEAN]]
    /\ \A v, w \in Villages : v # w /\ conn[v] = conn[w] => conn[v] = 0

(* Every Session of a link is held as often as the table points to it: once  *)
(* while an entry has it, and no longer, whichever of revival, Unregister,   *)
(* session_gone and the sweep takes it away.                                 *)
HoldsBalanced ==
    /\ \A l \in Links : holds[l] = Cardinality({e \in entries : e.link = l})
    /\ \A e \in entries : e.link \in {0, e.conn}
    /\ \A e, f \in entries : e # f => e.id # f.id /\ e.conn # f.conn

(* The tables of the registry agree: a record belongs to an entry there is,  *)
(* and an entry that is good for an assignment has a link, unless its        *)
(* connection is gone and a frame was handled behind session_gone.           *)
TablesAgree ==
    /\ \A p \in Players : record[p] # 0 => ById(record[p]) # {}
    /\ \A e \in entries : e.orphan = 0 /\ e.link = 0 => e.conn \in gone
    /\ \A e \in entries : e.conn \notin gone => e.link = e.conn

(* The server's tables, and the holds they account for, belong together. *)
RegistrySound == TypeOK /\ HoldsBalanced /\ TablesAgree

(* When a registered village and the server have nothing under way, the      *)
(* server knows nobody there who is not: what was lost with an earlier link  *)
(* is made good by the full sync.                                            *)
AtRest(v) ==
    /\ registered[v] /\ conn[v] # 0 /\ Alive(conn[v])
    /\ up[conn[v]] = <<>> /\ down[conn[v]] = <<>>
NoGhosts ==
    \A v \in Villages : AtRest(v) =>
        \A e \in ByConn(conn[v]), p \in Players : record[p] = e.id => roster[v][p] # "out"

(* Only what a village has refused is taken back: not the reservation of a  *)
(* later login of the same player.                                          *)
RevokesRefused ==
    [][\A p \in Players :
        booking[p] # None /\ booking'[p] = None => booking[p].issue \in refused]_vars

(* A player whom a Kick is under way for, so that another login can get in,  *)
(* is off the record of his village in the end, or the connection is lost    *)
(* over which it was sent.                                                   *)
PlaysAt(p, v) ==
    \E e \in entries : e.host = v /\ e.link # 0 /\ Alive(e.link) /\ record[p] = e.id
AskedToLeave(p, v) ==
    /\ PlaysAt(p, v) /\ conn[v] # 0
    /\ \E i \in DOMAIN down[conn[v]] :
        down[conn[v]][i].type = "Kick" /\ down[conn[v]][i].player = p
KickedOff ==
    \A v \in Villages, p \in Players : AskedToLeave(p, v) ~> ~PlaysAt(p, v)

(* A village that runs and does not shut down is on the table again in the   *)
(* end, with the connection it has, whatever was lost or judged dead: unless *)
(* a frame handled behind session_gone has left an entry nobody judges, for  *)
(* only a login does.                                                        *)
Known(v) == conn[v] # 0 /\ \E e \in entries : e.link = conn[v] /\ e.orphan = 0
Unjudged == \E e \in entries : e.orphan = 0 /\ e.conn \in gone
Heals == \A v \in Villages : []<>(Known(v) \/ quit[v] # "no" \/ Unjudged)

=============================================================================
