---------------------------- MODULE RosterProofs ----------------------------
(***************************************************************************)
(* Proofs about the roster: who is in it (RosterIsLive), whatever sessions *)
(* a player opens, and the zone index (IndexAgrees), as long as a player   *)
(* comes back only when an earlier session has finished; of one worker     *)
(* also the member lists the clients end up with (ListsConverge).          *)
(***************************************************************************)
EXTENDS Roster, FiniteSetTheorems, SequenceTheorems, TLAPS

-----------------------------------------------------------------------------
(* The inductive invariants *)

Entering == {"enter", "consume", "insert", "check"}

\* What a running job works with.
JobInv(s) ==
    /\ step[s] \in Entering => arg[s] \in Players
    /\ step[s] = "join" => arg[s] \in Zones
    /\ step[s] \in {"consume", "insert"} => playerId[s] = NoPlayer
    /\ step[s] = "check" => playerId[s] # NoPlayer

\* The cleanup job comes after closing, and is handed over once.
GoneInv(s) ==
    /\ handedOff[s] => closing[s]
    /\ cleaned[s] \/ step[s] = "gone" => handedOff[s]
    /\ \A i \in 1..Len(jobs[s]) : jobs[s][i][1] = "gone" => handedOff[s]

SessionsInv == \A s \in Sessions : JobInv(s) /\ GoneInv(s)

\* Session o has entered as player p, is entering, or has yet to.
Names(o, p) ==
    \/ playerId[o] = p
    \/ step[o] \in Entering /\ arg[o] = p
    \/ \E i \in 1..Len(jobs[o]) : jobs[o][i] = <<"enter", p>>

\* Of two sessions of a player one has finished.
OneSpeaker ==
    \A s, o \in Sessions : \A p \in Players :
        Names(s, p) /\ Names(o, p) => s = o \/ Finished(s) \/ Finished(o)

\* Session s is in the roster, in zone z.
Here(s, z) ==
    /\ playerId[s] # NoPlayer
    /\ entered[playerId[s]] # NoEntry
    /\ entered[playerId[s]].session = s
    /\ entered[playerId[s]].zone = z

\* A bucket holds a session once or not at all.
IndexInv ==
    \A z \in Zones, s \in Sessions : zoneIndex[z][s] = IF Here(s, z) THEN 1 ELSE 0

\* Session s has still to tell the members of zone z.
ToTell(s, z) == step[s] \in {"tell", "send"} /\ \E i \in 1..Len(tells[s]) : tells[s][i] = z

\* Session s is sending the list of zone z, and not yet to m.
Sending(s, z, m) == step[s] = "send" /\ list[s] = Members(z) /\ m \in to[s]

\* Of one worker: one job runs at a time.
OneJob == \A s, o \in Sessions : step[s] # "idle" /\ step[o] # "idle" => s = o

\* Whoever has just entered is in no zone yet.
NotInZoneYet == \A s \in Sessions, z \in Zones : step[s] = "check" => ~Here(s, z)

\* The list that is being sent is of now, and goes to the members only.
FreshList ==
    \A s \in Sessions : step[s] = "send" =>
        \E z \in Zones : list[s] = Members(z) /\ to[s] \subseteq Members(z)

\* A member who has not got the present list is going to get it.
Told ==
    \A z \in Zones : \A m \in Members(z) :
        view[m] = Members(z) \/ \E s \in Sessions : ToTell(s, z) \/ Sending(s, z, m)

TellInv == OneJob /\ NotInZoneYet /\ FreshList /\ Told

-----------------------------------------------------------------------------
(* Lemmas about the operators *)

\* A queue of jobs: what its first job is, and what is in it after one more and one less.
LEMMA QueueOps ==
    ASSUME NEW q \in Seq(Frames \cup {Gone})
    PROVE  /\ q # <<>> => /\ 1 \in 1..Len(q) /\ Head(q) = q[1]
                          /\ Head(q) \in Frames \cup {Gone}
                          /\ Tail(q) \in Seq(Frames \cup {Gone})
                          /\ \A i \in 1..Len(Tail(q)) : i + 1 \in 1..Len(q) /\ Tail(q)[i] = q[i + 1]
           /\ \A f \in Frames \cup {Gone} :
                /\ Append(q, f) \in Seq(Frames \cup {Gone})
                /\ \A i \in 1..Len(Append(q, f)) :
                     (i \in 1..Len(q) /\ Append(q, f)[i] = q[i]) \/ Append(q, f)[i] = f
<1>1. Len(q) \in Nat /\ \A i \in 1..Len(q) : q[i] \in Frames \cup {Gone}
  BY LenProperties, ElementOfSeq
<1>2. ASSUME q # <<>>
      PROVE  /\ 1 \in 1..Len(q) /\ Head(q) = q[1]
             /\ Head(q) \in Frames \cup {Gone}
             /\ Tail(q) \in Seq(Frames \cup {Gone})
             /\ \A i \in 1..Len(Tail(q)) : i + 1 \in 1..Len(q) /\ Tail(q)[i] = q[i + 1]
  <2>1. Len(q) # 0
    BY <1>2, EmptySeq
  <2>2. /\ Tail(q) \in Seq(Frames \cup {Gone}) /\ Len(Tail(q)) = Len(q) - 1 /\ Head(q) = q[1]
        /\ \A i \in 1..Len(Tail(q)) : Tail(q)[i] = q[i + 1]
    BY <1>2, HeadTailProperties
  <2> QED BY <1>1, <2>1, <2>2
<1>3. ASSUME NEW f \in Frames \cup {Gone}
      PROVE  /\ Append(q, f) \in Seq(Frames \cup {Gone})
             /\ \A i \in 1..Len(Append(q, f)) :
                  (i \in 1..Len(q) /\ Append(q, f)[i] = q[i]) \/ Append(q, f)[i] = f
  <2>1. /\ Append(q, f) \in Seq(Frames \cup {Gone}) /\ Len(Append(q, f)) = Len(q) + 1
        /\ \A i \in 1..Len(q) : Append(q, f)[i] = q[i]
        /\ Append(q, f)[Len(q) + 1] = f
    BY AppendProperties
  <2> QED BY <1>1, <2>1
<1> QED BY <1>2, <1>3

\* What a frame names.
LEMMA JobKinds ==
    ASSUME NEW f \in Frames \cup {Gone}
    PROVE  \/ f[1] = "enter" /\ f[2] \in Players /\ f = <<"enter", f[2]>>
           \/ f[1] = "join" /\ f[2] \in Zones /\ \A p : f # <<"enter", p>>
           \/ f[1] = "gone" /\ f[2] = NoPlayer /\ f = Gone /\ \A p : f # <<"enter", p>>
BY DEF Frames, Gone

\* Erasing a pointer leaves a count a count.
LEMMA EraseTyped ==
    ASSUME NEW index \in [Zones -> [Sessions -> Nat]], NEW z \in Zones \cup {NoZone},
           NEW s \in Sessions
    PROVE  /\ Erase(index, z, s) \in [Zones -> [Sessions -> Nat]]
           /\ \A y \in Zones, o \in Sessions :
                Erase(index, z, s)[y][o] =
                    IF y = z /\ o = s /\ index[z][s] > 0 THEN index[y][o] - 1 ELSE index[y][o]
<1>1. CASE z # NoZone /\ index[z][s] > 0
  <2>1. z \in Zones /\ index[z] \in [Sessions -> Nat] /\ index[z][s] - 1 \in Nat
    BY <1>1
  <2>2. Erase(index, z, s) = [index EXCEPT ![z][s] = index[z][s] - 1]
    BY <1>1 DEF Erase
  <2> QED BY <1>1, <2>1, <2>2
<1>2. CASE ~(z # NoZone /\ index[z][s] > 0)
  <2>1. Erase(index, z, s) = index
    BY <1>2 DEF Erase
  <2> QED BY <1>2, <2>1, RosterAssumption
<1> QED BY <1>1, <1>2

-----------------------------------------------------------------------------
(* Types *)

LEMMA TypedInit == Init => TypeOK
<1> SUFFICES ASSUME Init PROVE TypeOK
  OBVIOUS
<1>1. <<>> \in Seq(Frames \cup {Gone}) /\ <<>> \in Seq(Zones)
  BY EmptySeq
<1>2. MaxFrames \in 0..MaxFrames
  BY RosterAssumption
<1>3. /\ reservations \in [Players -> 0..Expiry \cup {NoSeat}]
      /\ entered \in [Players -> Entry \cup {NoEntry}]
      /\ zoneIndex \in [Zones -> [Sessions -> Nat]]
      /\ draining \in BOOLEAN /\ drainSent \in BOOLEAN
  BY DEF Init
<1>4. /\ playerId \in [Sessions -> Players \cup {NoPlayer}]
      /\ closing \in [Sessions -> BOOLEAN] /\ handedOff \in [Sessions -> BOOLEAN]
      /\ cleaned \in [Sessions -> BOOLEAN]
      /\ jobs \in [Sessions -> Seq(Frames \cup {Gone})]
      /\ toReceive \in [Sessions -> 0..MaxFrames]
  BY <1>1, <1>2 DEF Init
<1>5. /\ step \in [Sessions -> {"idle", "enter", "consume", "insert", "check",
                              "join", "gone", "tell", "send"}]
      /\ arg \in [Sessions -> Players \cup Zones \cup {NoPlayer}]
      /\ tells \in [Sessions -> Seq(Zones)]
      /\ list \in [Sessions -> SUBSET Sessions]
      /\ to \in [Sessions -> SUBSET Sessions]
      /\ view \in [Sessions -> SUBSET Sessions]
  BY <1>1 DEF Init
<1> QED BY <1>3, <1>4, <1>5 DEF TypeOK

\* A session's own entry goes, or nothing does.
LEMMA LeaveTyped ==
    ASSUME TypeOK, NEW s \in Sessions, playerId[s] # NoPlayer, Leave(playerId[s], s)
    PROVE  /\ entered' \in [Players -> Entry \cup {NoEntry}]
           /\ zoneIndex' \in [Zones -> [Sessions -> Nat]]
<1> DEFINE p == playerId[s]
<1>1. p \in Players
  BY DEF TypeOK
<1>2. CASE entered[p] # NoEntry /\ entered[p].session = s
  <2>1. entered[p].zone \in Zones \cup {NoZone}
    BY <1>1, <1>2 DEF TypeOK, Entry
  <2>2. /\ zoneIndex' = Erase(zoneIndex, entered[p].zone, s)
        /\ entered' = [entered EXCEPT ![p] = NoEntry]
    BY <1>2 DEF Leave
  <2> QED BY <2>1, <2>2, EraseTyped DEF TypeOK
<1>3. CASE ~(entered[p] # NoEntry /\ entered[p].session = s)
  BY <1>3 DEF Leave, TypeOK
<1> QED BY <1>2, <1>3

LEMMA MoveTyped ==
    ASSUME TypeOK, NEW p \in Players, NEW s \in Sessions, NEW z \in Zones,
           entered[p] # NoEntry, MoveZone(p, s, z)
    PROVE  /\ entered' \in [Players -> Entry \cup {NoEntry}]
           /\ zoneIndex' \in [Zones -> [Sessions -> Nat]]
<1> DEFINE index == Erase(zoneIndex, entered[p].zone, entered[p].session)
<1>1. /\ entered[p] \in Entry /\ entered[p].session \in Sessions
      /\ entered[p].zone \in Zones \cup {NoZone}
  BY DEF TypeOK, Entry
<1>2. index \in [Zones -> [Sessions -> Nat]]
  BY <1>1, EraseTyped DEF TypeOK
<1>3. zoneIndex' = [index EXCEPT ![z][s] = index[z][s] + 1]
  BY DEF MoveZone
<1>4. [entered[p] EXCEPT !.zone = z] \in Entry
  BY <1>1 DEF Entry
<1>5. entered' = [entered EXCEPT ![p] = [entered[p] EXCEPT !.zone = z]]
  BY DEF MoveZone
<1> HIDE DEF index
<1> QED BY <1>2, <1>3, <1>4, <1>5 DEF TypeOK

LEMMA TypedStep ==
    ASSUME TypeOK, SessionsInv, Next
    PROVE  TypeOK'
<1> USE DEF TypeOK
<1>1. ASSUME NEW p \in Players, Reserve(p) PROVE TypeOK'
  BY <1>1, RosterAssumption DEF Reserve, drainVars, sessionVars, jobVars, inputVars
<1>2. ASSUME NEW d \in Modes, SetMode(d) PROVE TypeOK'
  BY <1>2, RosterAssumption DEF SetMode, tableVars, sessionVars, jobVars, inputVars
<1>3. CASE LinkLost
  BY <1>3 DEF LinkLost, tableVars, sessionVars, jobVars, inputVars
<1>4. CASE SweepExpired
  BY <1>4 DEF SweepExpired, drainVars, sessionVars, jobVars, inputVars
<1>5. CASE Tick
  <2>1. \A p \in Players : reservations'[p] \in 0..Expiry \cup {NoSeat}
    BY <1>5, RosterAssumption DEF Tick
  <2>2. reservations' \in [Players -> 0..Expiry \cup {NoSeat}]
    BY <1>5, <2>1 DEF Tick
  <2> QED BY <1>5, <2>2 DEF Tick, drainVars, sessionVars, jobVars, inputVars
<1>6. ASSUME NEW s \in Sessions, Close(s) PROVE TypeOK'
  BY <1>6 DEF Close, tableVars, drainVars, jobVars, inputVars
<1>7. ASSUME NEW s \in Sessions, NEW f \in Frames, Receive(s, f) PROVE TypeOK'
  <2>1. Append(jobs[s], f) \in Seq(Frames \cup {Gone})
    BY QueueOps
  <2>2. toReceive[s] - 1 \in 0..MaxFrames
    BY <1>7, RosterAssumption DEF Receive
  <2> QED BY <1>7, <2>1, <2>2 DEF Receive, tableVars, drainVars, sessionVars, jobVars
<1>8. CASE DrainComplete
  BY <1>8 DEF DrainComplete, tableVars, sessionVars, jobVars, inputVars
<1>9. ASSUME NEW s \in Sessions, HandOff(s) PROVE TypeOK'
  <2>1. Append(jobs[s], Gone) \in Seq(Frames \cup {Gone})
    BY QueueOps
  <2> QED BY <1>9, <2>1 DEF HandOff, tableVars, drainVars, jobVars
<1>10. ASSUME NEW s \in Sessions, BeginJob(s) PROVE TypeOK'
  <2> DEFINE f == Head(jobs[s])
  <2>1. f \in Frames \cup {Gone} /\ Tail(jobs[s]) \in Seq(Frames \cup {Gone})
    BY <1>10, QueueOps DEF BeginJob
  <2>2. f[1] \in {"enter", "join", "gone"} /\ f[2] \in Players \cup Zones \cup {NoPlayer}
    BY <2>1, JobKinds
  <2> HIDE DEF f
  <2>3. step' = [step EXCEPT ![s] = f[1]] /\ arg' = [arg EXCEPT ![s] = f[2]]
    BY <1>10 DEF BeginJob, Goto, f
  <2> QED BY <1>10, <2>1, <2>2, <2>3, SMTT(60)
          DEF BeginJob, tableVars, drainVars, sessionVars
<1>11. ASSUME NEW s \in Sessions, EnterAllowed(s) PROVE TypeOK'
  BY <1>11 DEF EnterAllowed, End, Goto, tableVars, drainVars, sessionVars, inputVars
<1>12. ASSUME NEW s \in Sessions, ConsumeReservation(s) PROVE TypeOK'
  BY <1>12 DEF ConsumeReservation, End, Goto, drainVars, sessionVars, inputVars
<1>13. ASSUME NEW s \in Sessions, Enter(s) PROVE TypeOK'
  <2>1. arg[s] \in Players
    BY <1>13 DEF Enter, SessionsInv, JobInv, Entering
  <2>2. [session |-> s, zone |-> NoZone] \in Entry
    BY DEF Entry
  <2>3. CASE entered[arg[s]] = NoEntry
    <3> DEFINE e == [session |-> s, zone |-> NoZone]
    <3>1. /\ entered' = [entered EXCEPT ![arg[s]] = e]
          /\ playerId' = [playerId EXCEPT ![s] = arg[s]]
          /\ step' = [step EXCEPT ![s] = "check"] /\ arg' = arg
          /\ UNCHANGED <<reservations, zoneIndex, drainVars, closing, handedOff, cleaned,
                         tells, list, to, inputVars, view>>
      BY <1>13, <2>3 DEF Enter, Goto
    <3> HIDE DEF e
    <3> QED BY <2>1, <2>2, <3>1 DEF e, drainVars, inputVars
  <2>4. CASE entered[arg[s]] # NoEntry
    BY <1>13, <2>4 DEF Enter, End, Goto, drainVars, inputVars
  <2> QED BY <2>3, <2>4
<1>14. ASSUME NEW s \in Sessions, EnterCheck(s) PROVE TypeOK'
  <2>1. playerId[s] # NoPlayer
    BY <1>14 DEF EnterCheck, SessionsInv, JobInv
  <2>2. /\ entered' \in [Players -> Entry \cup {NoEntry}]
        /\ zoneIndex' \in [Zones -> [Sessions -> Nat]]
    BY <1>14, <2>1, LeaveTyped DEF EnterCheck
  <2> QED BY <1>14, <2>2 DEF EnterCheck, End, Goto, drainVars, sessionVars, inputVars
<1>15. ASSUME NEW s \in Sessions, JoinGate(s) PROVE TypeOK'
  BY <1>15 DEF JoinGate, End, Goto, tableVars, drainVars, inputVars
<1>16. ASSUME NEW s \in Sessions, JoinZone(s) PROVE TypeOK'
  <2> DEFINE p == playerId[s]
  <2>1. p \in Players /\ arg[s] \in Zones
    BY <1>16 DEF JoinZone, SessionsInv, JobInv
  <2>2. CASE entered[p] = NoEntry
    BY <1>16, <2>2 DEF JoinZone, End, Goto, drainVars, sessionVars, inputVars
  <2>3. CASE entered[p] # NoEntry
    <3>1. /\ entered' \in [Players -> Entry \cup {NoEntry}]
          /\ zoneIndex' \in [Zones -> [Sessions -> Nat]]
      BY <1>16, <2>1, <2>3, MoveTyped DEF JoinZone
    <3>2. entered[p].zone \in Zones \cup {NoZone}
      BY <2>1, <2>3 DEF Entry
    <3>3. <<arg[s]>> \o OldZone(entered[p].zone) \in Seq(Zones)
      BY <2>1, <3>2 DEF OldZone
    <3> QED BY <1>16, <2>3, <3>1, <3>3, ZenonT(60)
            DEF JoinZone, Goto, drainVars, sessionVars, inputVars
  <2> QED BY <2>2, <2>3
<1>17. ASSUME NEW s \in Sessions, Cleanup(s) PROVE TypeOK'
  <2>1. CASE playerId[s] = NoPlayer
    BY <1>17, <2>1 DEF Cleanup, Goto, drainVars, inputVars
  <2>2. CASE playerId[s] # NoPlayer
    <3> DEFINE e == entered[playerId[s]]
    <3>1. /\ entered' \in [Players -> Entry \cup {NoEntry}]
          /\ zoneIndex' \in [Zones -> [Sessions -> Nat]]
      BY <1>17, <2>2, LeaveTyped DEF Cleanup
    <3> DEFINE told == IF e # NoEntry /\ e.session = s THEN OldZone(e.zone) ELSE <<>>
    <3>2. told \in Seq(Zones)
      BY <2>2 DEF Entry, OldZone
    <3>3. tells' = [tells EXCEPT ![s] = told]
      BY <1>17, <2>2 DEF Cleanup
    <3> HIDE DEF told
    <3> QED BY <1>17, <3>1, <3>2, <3>3 DEF Cleanup, Goto, drainVars, inputVars
  <2> QED BY <2>1, <2>2
<1>18. ASSUME NEW s \in Sessions, SnapshotZone(s) PROVE TypeOK'
  <2>1. CASE tells[s] = <<>>
    BY <1>18, <2>1 DEF SnapshotZone, End, Goto, tableVars, drainVars, sessionVars, inputVars
  <2>2. CASE tells[s] # <<>>
    <3>1. Tail(tells[s]) \in Seq(Zones)
      BY <2>2, HeadTailProperties
    <3>2. Members(Head(tells[s])) \in SUBSET Sessions
      BY DEF Members
    <3> DEFINE members == Members(Head(tells[s]))
    <3>3. /\ list' = [list EXCEPT ![s] = members] /\ to' = [to EXCEPT ![s] = members]
          /\ tells' = [tells EXCEPT ![s] = Tail(tells[s])]
          /\ step' = [step EXCEPT ![s] = "send"] /\ arg' = arg /\ view' = view
          /\ UNCHANGED <<tableVars, drainVars, sessionVars, inputVars>>
      BY <1>18, <2>2 DEF SnapshotZone, Goto
    <3> HIDE DEF members
    <3>4. /\ list' \in [Sessions -> SUBSET Sessions] /\ to' \in [Sessions -> SUBSET Sessions]
          /\ tells' \in [Sessions -> Seq(Zones)]
      BY <3>1, <3>2, <3>3 DEF members
    <3> QED BY <3>3, <3>4 DEF tableVars, drainVars, sessionVars, inputVars
  <2> QED BY <2>1, <2>2
<1>19. ASSUME NEW s \in Sessions, NEW m \in Sessions, SendList(s, m) PROVE TypeOK'
  BY <1>19 DEF SendList, tableVars, drainVars, sessionVars, inputVars
<1>20. ASSUME NEW s \in Sessions, ListSent(s) PROVE TypeOK'
  BY <1>20 DEF ListSent, Goto, tableVars, drainVars, sessionVars, inputVars
<1> QED BY <1>1, <1>2, <1>3, <1>4, <1>5, <1>6, <1>7, <1>8, <1>9, <1>10, <1>11, <1>12, <1>13,
           <1>14, <1>15, <1>16, <1>17, <1>18, <1>19, <1>20 DEF Next, Environment, JobStep

-----------------------------------------------------------------------------
(* Jobs and cleanup *)

LEMMA SessionsInit == Init => SessionsInv
<1> SUFFICES ASSUME Init, NEW s \in Sessions PROVE JobInv(s) /\ GoneInv(s)
  BY DEF SessionsInv
<1>1. jobs[s] = <<>> /\ Len(jobs[s]) = 0
  BY DEF Init
<1> QED BY <1>1 DEF Init, JobInv, GoneInv, Entering

\* A session nothing of which the two invariants speak about has changed.
Untouched(o) ==
    /\ step'[o] = step[o] /\ arg'[o] = arg[o] /\ playerId'[o] = playerId[o]
    /\ handedOff'[o] = handedOff[o] /\ cleaned'[o] = cleaned[o]
    /\ closing[o] => closing'[o]
    /\ jobs'[o] = jobs[o]

LEMMA UntouchedKept ==
    ASSUME NEW o \in Sessions, JobInv(o), GoneInv(o), Untouched(o)
    PROVE  JobInv(o)' /\ GoneInv(o)'
BY DEF Untouched, JobInv, GoneInv

\* What a step of one session leaves of the others.
LEMMA StepsOfOne ==
    ASSUME TypeOK, NEW s \in Sessions,
           \/ HandOff(s) \/ BeginJob(s) \/ JobStep(s) \/ Close(s)
           \/ \E f \in Frames : Receive(s, f),
           NEW o \in Sessions, o # s
    PROVE  Untouched(o)
<1> USE DEF TypeOK, Untouched
<1>1. CASE HandOff(s)
  BY <1>1 DEF HandOff, jobVars
<1>2. CASE BeginJob(s)
  BY <1>2 DEF BeginJob, Goto, sessionVars
<1>3. CASE JobStep(s)
  <2>1. CASE EnterAllowed(s)
    BY <2>1 DEF EnterAllowed, End, Goto, sessionVars, inputVars
  <2>2. CASE ConsumeReservation(s)
    BY <2>2 DEF ConsumeReservation, End, Goto, sessionVars, inputVars
  <2>3. CASE Enter(s)
    BY <2>3 DEF Enter, End, Goto, inputVars
  <2>4. CASE EnterCheck(s)
    BY <2>4 DEF EnterCheck, End, Goto, sessionVars, inputVars
  <2>5. CASE JoinGate(s)
    BY <2>5 DEF JoinGate, End, Goto, inputVars
  <2>6. CASE JoinZone(s)
    BY <2>6 DEF JoinZone, End, Goto, sessionVars, inputVars
  <2>7. CASE Cleanup(s)
    BY <2>7 DEF Cleanup, Goto, inputVars
  <2>8. CASE SnapshotZone(s)
    BY <2>8 DEF SnapshotZone, End, Goto, sessionVars, inputVars
  <2>9. CASE ListSent(s)
    BY <2>9 DEF ListSent, Goto, sessionVars, inputVars
  <2>10. CASE \E m \in Sessions : SendList(s, m)
    BY <2>10 DEF SendList, sessionVars, inputVars
  <2> QED BY <1>3, <2>1, <2>2, <2>3, <2>4, <2>5, <2>6, <2>7, <2>8, <2>9, <2>10 DEF JobStep
<1>4. CASE Close(s)
  BY <1>4 DEF Close, jobVars, inputVars
<1>5. CASE \E f \in Frames : Receive(s, f)
  BY <1>5 DEF Receive, sessionVars, jobVars
<1> QED BY <1>1, <1>2, <1>3, <1>4, <1>5

\* The steps of the S2S thread and of the clock leave all sessions alone.
Elsewhere ==
    \/ \E p \in Players : Reserve(p)
    \/ \E drain \in Modes : SetMode(drain)
    \/ LinkLost \/ SweepExpired \/ Tick \/ DrainComplete

LEMMA ElsewhereLeaves ==
    ASSUME Elsewhere
    PROVE  UNCHANGED <<entered, zoneIndex, sessionVars, jobVars, inputVars>>
BY DEF Elsewhere, Reserve, SetMode, LinkLost, SweepExpired, Tick, DrainComplete, tableVars

\* A step is a step of one session, or leaves them all alone.
LEMMA StepKinds ==
    ASSUME Next
    PROVE  \/ Elsewhere
           \/ \E s \in Sessions :
                \/ HandOff(s) \/ BeginJob(s) \/ JobStep(s) \/ Close(s)
                \/ \E f \in Frames : Receive(s, f)
BY DEF Next, Environment, Elsewhere

LEMMA SessionsStep ==
    ASSUME TypeOK, SessionsInv, Next
    PROVE  SessionsInv'
<1>1. CASE Elsewhere
  <2>1. \A o \in Sessions : Untouched(o)
    BY <1>1, ElsewhereLeaves DEF sessionVars, jobVars, inputVars, Untouched
  <2> QED BY <2>1, UntouchedKept DEF SessionsInv
<1>2. ASSUME NEW s \in Sessions,
             \/ HandOff(s) \/ BeginJob(s) \/ JobStep(s) \/ Close(s)
             \/ \E f \in Frames : Receive(s, f)
      PROVE  SessionsInv'
  <2>0. JobInv(s) /\ GoneInv(s)
    BY DEF SessionsInv
  <2>a. SUFFICES JobInv(s)' /\ GoneInv(s)'
    <3>1. ASSUME NEW o \in Sessions, o # s PROVE JobInv(o)' /\ GoneInv(o)'
      <4>1. JobInv(o) /\ GoneInv(o) /\ Untouched(o)
        BY <1>2, <3>1, StepsOfOne DEF SessionsInv
      <4> QED BY <4>1, UntouchedKept
    <3> QED BY <2>a, <3>1 DEF SessionsInv
  <2> USE DEF TypeOK, JobInv, GoneInv, Entering
  <2>1. CASE HandOff(s)
    BY <2>0, <2>1 DEF HandOff, jobVars
  <2>2. CASE BeginJob(s)
    <3> DEFINE f == Head(jobs[s])
    <3>1. /\ f \in Frames \cup {Gone} /\ f = jobs[s][1] /\ 1 \in 1..Len(jobs[s])
          /\ \A i \in 1..Len(Tail(jobs[s])) :
                i + 1 \in 1..Len(jobs[s]) /\ Tail(jobs[s])[i] = jobs[s][i + 1]
      BY <2>2, QueueOps DEF BeginJob
    <3>2. \/ f[1] = "enter" /\ f[2] \in Players
          \/ f[1] = "join" /\ f[2] \in Zones
          \/ f[1] = "gone"
      BY <3>1, JobKinds
    <3>3. f[1] = "gone" => handedOff[s]
      BY <2>0, <3>1
    <3> HIDE DEF f
    <3>4. /\ step'[s] = f[1] /\ arg'[s] = f[2] /\ jobs'[s] = Tail(jobs[s])
          /\ UNCHANGED sessionVars
      BY <2>2 DEF BeginJob, Goto, f
    <3>5. \A i \in 1..Len(jobs'[s]) : jobs'[s][i][1] = "gone" => handedOff'[s]
      BY <2>0, <3>1, <3>4 DEF sessionVars
    <3> QED BY <2>0, <3>2, <3>3, <3>4, <3>5 DEF sessionVars
  <2>3. CASE JobStep(s)
    <3>1. CASE EnterAllowed(s)
      BY <2>0, <3>1 DEF EnterAllowed, End, Goto, sessionVars, inputVars
    <3>2. CASE ConsumeReservation(s)
      BY <2>0, <3>2 DEF ConsumeReservation, End, Goto, sessionVars, inputVars
    <3>3. CASE Enter(s)
      BY <2>0, <3>3, RosterAssumption DEF Enter, End, Goto, inputVars
    <3>4. CASE EnterCheck(s)
      BY <2>0, <3>4 DEF EnterCheck, End, Goto, sessionVars, inputVars
    <3>5. CASE JoinGate(s)
      BY <2>0, <3>5 DEF JoinGate, End, Goto, inputVars
    <3>6. CASE JoinZone(s)
      BY <2>0, <3>6 DEF JoinZone, End, Goto, sessionVars, inputVars
    <3>7. CASE Cleanup(s)
      BY <2>0, <3>7 DEF Cleanup, Goto, inputVars
    <3>8. CASE SnapshotZone(s)
      BY <2>0, <3>8 DEF SnapshotZone, End, Goto, sessionVars, inputVars
    <3>9. CASE ListSent(s)
      BY <2>0, <3>9 DEF ListSent, Goto, sessionVars, inputVars
    <3>10. CASE \E m \in Sessions : SendList(s, m)
      BY <2>0, <3>10 DEF SendList, sessionVars, inputVars
    <3> QED BY <2>3, <3>1, <3>2, <3>3, <3>4, <3>5, <3>6, <3>7, <3>8, <3>9, <3>10 DEF JobStep
  <2>4. CASE Close(s)
    BY <2>0, <2>4 DEF Close, jobVars, inputVars
  <2>5. ASSUME NEW f \in Frames, Receive(s, f) PROVE JobInv(s)' /\ GoneInv(s)'
    <3>1. f[1] # "gone"
      BY DEF Frames
    <3>2. \A i \in 1..Len(Append(jobs[s], f)) :
             (i \in 1..Len(jobs[s]) /\ Append(jobs[s], f)[i] = jobs[s][i])
                \/ Append(jobs[s], f)[i] = f
      BY QueueOps
    <3>3. jobs'[s] = Append(jobs[s], f) /\ UNCHANGED <<sessionVars, jobVars>>
      BY <2>5 DEF Receive
    <3> QED BY <2>0, <3>1, <3>2, <3>3 DEF sessionVars, jobVars
  <2> QED BY <1>2, <2>1, <2>2, <2>3, <2>4, <2>5
<1> QED BY <1>1, <1>2, StepKinds

-----------------------------------------------------------------------------
(* Who is in the roster *)

\* leave takes out the session's own entry and no other.
LEMMA LeaveEffect ==
    ASSUME TypeOK, NEW s \in Sessions, playerId[s] # NoPlayer, Leave(playerId[s], s),
           NEW q \in Players
    PROVE  entered'[q] = IF q = playerId[s] /\ entered[q] # NoEntry /\ entered[q].session = s
                         THEN NoEntry ELSE entered[q]
BY DEF Leave, TypeOK

\* move_zone leaves everybody in who was in, under the same session.
LEMMA MoveEffect ==
    ASSUME TypeOK, NEW p \in Players, NEW s \in Sessions, NEW z \in Zones,
           entered[p] # NoEntry, MoveZone(p, s, z), NEW q \in Players
    PROVE  /\ q # p => entered'[q] = entered[q]
           /\ entered'[p] # NoEntry /\ entered'[p].session = entered[p].session
           /\ entered'[p].zone = z
<1>1. entered[p] \in Entry
  BY DEF TypeOK
<1>2. /\ [entered[p] EXCEPT !.zone = z] \in Entry
      /\ [entered[p] EXCEPT !.zone = z].session = entered[p].session
      /\ [entered[p] EXCEPT !.zone = z].zone = z
  BY <1>1 DEF Entry
<1>3. entered' = [entered EXCEPT ![p] = [entered[p] EXCEPT !.zone = z]]
  BY DEF MoveZone
<1> QED BY <1>2, <1>3, RosterAssumption DEF TypeOK, Entry

RosterInv == LiveIsListed /\ NoGhostEntry

LEMMA RosterInit == Init => RosterInv
BY DEF Init, RosterInv, LiveIsListed, NoGhostEntry

\* A step that changes neither the roster nor who the sessions are.
LEMMA RosterKept ==
    ASSUME TypeOK, RosterInv, entered' = entered, playerId' = playerId, cleaned' = cleaned,
           \A o \in Sessions : closing[o] => closing'[o],
           \A o \in Sessions : step[o] = "check" => step'[o] = "check"
    PROVE  RosterInv'
<1>1. LiveIsListed'
  BY DEF RosterInv, LiveIsListed
<1>2. NoGhostEntry'
  <2> SUFFICES ASSUME NEW p \in Players, entered[p] # NoEntry
               PROVE  /\ playerId[entered[p].session] = p
                      /\ cleaned[entered[p].session] => step'[entered[p].session] = "check"
    BY DEF NoGhostEntry
  <2>1. entered[p].session \in Sessions
    BY DEF TypeOK, Entry
  <2> QED BY <2>1 DEF RosterInv, NoGhostEntry
<1> QED BY <1>1, <1>2 DEF RosterInv

LEMMA RosterStep ==
    ASSUME TypeOK, SessionsInv, RosterInv, Next
    PROVE  RosterInv'
<1>1. CASE Elsewhere
  BY <1>1, ElsewhereLeaves, RosterKept DEF sessionVars, jobVars
<1>2. ASSUME NEW s \in Sessions, HandOff(s) PROVE RosterInv'
  BY <1>2, RosterKept DEF HandOff, tableVars, jobVars
<1>3. ASSUME NEW s \in Sessions, BeginJob(s) PROVE RosterInv'
  <2>1. \A o \in Sessions : step[o] = "check" => step'[o] = "check"
    BY <1>3 DEF BeginJob, Goto, TypeOK
  <2> QED BY <1>3, <2>1, RosterKept DEF BeginJob, tableVars, sessionVars
<1>4. ASSUME NEW s \in Sessions, Close(s) PROVE RosterInv'
  <2>1. \A o \in Sessions : closing[o] => closing'[o]
    BY <1>4 DEF Close, TypeOK
  <2> QED BY <1>4, <2>1, RosterKept DEF Close, tableVars, jobVars
<1>5. ASSUME NEW s \in Sessions, NEW f \in Frames, Receive(s, f) PROVE RosterInv'
  BY <1>5, RosterKept DEF Receive, tableVars, sessionVars, jobVars
<1>6. ASSUME NEW s \in Sessions, JobStep(s) PROVE RosterInv'
  <2>1. CASE EnterAllowed(s)
    <3>1. \A o \in Sessions : step[o] = "check" => step'[o] = "check"
      BY <2>1 DEF EnterAllowed, End, Goto, TypeOK
    <3> QED BY <2>1, <3>1, RosterKept DEF EnterAllowed, tableVars, sessionVars
  <2>2. CASE ConsumeReservation(s)
    <3>1. \A o \in Sessions : step[o] = "check" => step'[o] = "check"
      BY <2>2 DEF ConsumeReservation, End, Goto, TypeOK
    <3> QED BY <2>2, <3>1, RosterKept DEF ConsumeReservation, sessionVars
  <2>3. CASE Enter(s) /\ entered[arg[s]] # NoEntry
    <3>1. \A o \in Sessions : step[o] = "check" => step'[o] = "check"
      BY <2>3 DEF Enter, End, Goto, TypeOK
    <3> QED BY <2>3, <3>1, RosterKept DEF Enter
  <2>4. CASE Enter(s) /\ entered[arg[s]] = NoEntry
    <3> DEFINE a == arg[s]
               e == [session |-> s, zone |-> NoZone]
    <3>1. a \in Players /\ playerId[s] = NoPlayer
      BY <2>4 DEF Enter, SessionsInv, JobInv, Entering
    <3>2. e # NoEntry /\ e.session = s
      BY RosterAssumption
    <3> HIDE DEF a, e
    <3>3. /\ entered' = [entered EXCEPT ![a] = e] /\ playerId' = [playerId EXCEPT ![s] = a]
          /\ closing' = closing /\ cleaned' = cleaned /\ step' = [step EXCEPT ![s] = "check"]
          /\ entered[a] = NoEntry
      BY <2>4 DEF Enter, Goto, a, e
    <3>4. LiveIsListed'
      <4> SUFFICES ASSUME NEW o \in Sessions, playerId'[o] # NoPlayer, ~closing'[o]
                   PROVE  /\ entered'[playerId'[o]] # NoEntry
                          /\ entered'[playerId'[o]].session = o
        BY DEF LiveIsListed
      <4>1. CASE o = s
        BY <3>1, <3>2, <3>3, <4>1 DEF TypeOK
      <4>2. CASE o # s
        <5>1. playerId'[o] = playerId[o] /\ playerId[o] \in Players
          BY <3>3, <4>2 DEF TypeOK
        <5>2. entered[playerId[o]] # NoEntry /\ entered[playerId[o]].session = o
          BY <3>3, <5>1 DEF RosterInv, LiveIsListed
        <5> QED BY <3>3, <5>1, <5>2 DEF TypeOK
      <4> QED BY <4>1, <4>2
    <3>5. NoGhostEntry'
      <4> SUFFICES ASSUME NEW p \in Players, entered'[p] # NoEntry
                   PROVE  /\ playerId'[entered'[p].session] = p
                          /\ cleaned'[entered'[p].session] => step'[entered'[p].session] = "check"
        BY DEF NoGhostEntry
      <4>1. CASE p = a
        BY <3>1, <3>2, <3>3, <4>1 DEF TypeOK
      <4>2. CASE p # a
        <5>1. entered'[p] = entered[p]
          BY <3>3, <4>2 DEF TypeOK
        <5>2. entered[p].session \in Sessions
          BY <5>1 DEF TypeOK, Entry
        <5>3. /\ playerId[entered[p].session] = p
              /\ cleaned[entered[p].session] => step[entered[p].session] = "check"
          BY <5>1 DEF RosterInv, NoGhostEntry
        <5>4. entered[p].session # s
          BY <3>1, <5>3, RosterAssumption
        <5> QED BY <3>3, <5>1, <5>2, <5>3, <5>4 DEF TypeOK
      <4> QED BY <4>1, <4>2
    <3> QED BY <3>4, <3>5 DEF RosterInv
  <2>5. CASE EnterCheck(s) /\ ~closing[s]
    <3>1. /\ entered' = entered /\ UNCHANGED sessionVars
          /\ step' = [step EXCEPT ![s] = "idle"]
      BY <2>5 DEF EnterCheck, End, Goto
    <3>2. ~cleaned[s]
      BY <2>5 DEF SessionsInv, GoneInv
    <3>3. NoGhostEntry'
      <4> SUFFICES ASSUME NEW p \in Players, entered[p] # NoEntry
                   PROVE  /\ playerId[entered[p].session] = p
                          /\ cleaned[entered[p].session] => step'[entered[p].session] = "check"
        BY <3>1 DEF NoGhostEntry, sessionVars
      <4>1. entered[p].session \in Sessions
        BY DEF TypeOK, Entry
      <4> QED BY <3>1, <3>2, <4>1 DEF RosterInv, NoGhostEntry, TypeOK
    <3>4. LiveIsListed'
      BY <3>1 DEF RosterInv, LiveIsListed, sessionVars
    <3> QED BY <3>3, <3>4 DEF RosterInv
  <2>6. CASE \/ EnterCheck(s) /\ closing[s]
             \/ Cleanup(s) /\ playerId[s] # NoPlayer
    <3>1. /\ Leave(playerId[s], s) /\ playerId[s] # NoPlayer /\ playerId[s] \in Players
          /\ closing[s] /\ closing' = closing /\ playerId' = playerId
      BY <2>6 DEF EnterCheck, Cleanup, sessionVars, SessionsInv, JobInv, GoneInv, TypeOK
    <3>2. \A o \in Sessions : o # s => cleaned'[o] = cleaned[o] /\ step'[o] = step[o]
      BY <2>6 DEF EnterCheck, Cleanup, sessionVars, End, Goto, TypeOK
    <3>3. LiveIsListed'
      <4> SUFFICES ASSUME NEW o \in Sessions, playerId[o] # NoPlayer, ~closing[o]
                   PROVE  entered'[playerId[o]] # NoEntry /\ entered'[playerId[o]].session = o
        BY <3>1 DEF LiveIsListed
      <4>1. o # s /\ playerId[o] \in Players
        BY <3>1 DEF TypeOK
      <4>2. entered[playerId[o]] # NoEntry /\ entered[playerId[o]].session = o
        BY DEF RosterInv, LiveIsListed
      <4> QED BY <3>1, <4>1, <4>2, LeaveEffect
    <3>4. NoGhostEntry'
      <4> SUFFICES ASSUME NEW p \in Players, entered'[p] # NoEntry
                   PROVE  /\ playerId[entered'[p].session] = p
                          /\ cleaned'[entered'[p].session] => step'[entered'[p].session] = "check"
        BY <3>1 DEF NoGhostEntry
      <4>1. entered'[p] = entered[p] /\ ~(p = playerId[s] /\ entered[p].session = s)
        BY <3>1, LeaveEffect
      <4>2. entered[p].session \in Sessions
        BY <4>1 DEF TypeOK, Entry
      <4>3. /\ playerId[entered[p].session] = p
            /\ cleaned[entered[p].session] => step[entered[p].session] = "check"
        BY <4>1 DEF RosterInv, NoGhostEntry
      <4> QED BY <3>2, <4>1, <4>2, <4>3
    <3> QED BY <3>3, <3>4 DEF RosterInv
  <2>7. CASE Cleanup(s) /\ playerId[s] = NoPlayer
    <3>1. /\ entered' = entered /\ playerId' = playerId /\ closing' = closing
          /\ \A o \in Sessions : o # s => cleaned'[o] = cleaned[o] /\ step'[o] = step[o]
      BY <2>7 DEF Cleanup, Goto, TypeOK
    <3>2. LiveIsListed'
      BY <3>1 DEF RosterInv, LiveIsListed
    <3>3. NoGhostEntry'
      <4> SUFFICES ASSUME NEW p \in Players, entered[p] # NoEntry
                   PROVE  /\ playerId[entered[p].session] = p
                          /\ cleaned'[entered[p].session] => step'[entered[p].session] = "check"
        BY <3>1 DEF NoGhostEntry
      <4>1. entered[p].session \in Sessions
        BY DEF TypeOK, Entry
      <4>2. /\ playerId[entered[p].session] = p
            /\ cleaned[entered[p].session] => step[entered[p].session] = "check"
        BY DEF RosterInv, NoGhostEntry
      <4>3. entered[p].session # s
        BY <2>7, <4>2, RosterAssumption
      <4> QED BY <3>1, <4>1, <4>2, <4>3
    <3> QED BY <3>2, <3>3 DEF RosterInv
  <2>8. CASE JoinGate(s)
    <3>1. /\ \A o \in Sessions : closing[o] => closing'[o]
          /\ \A o \in Sessions : step[o] = "check" => step'[o] = "check"
      BY <2>8 DEF JoinGate, End, Goto, TypeOK
    <3> QED BY <2>8, <3>1, RosterKept DEF JoinGate, tableVars
  <2>9. CASE JoinZone(s) /\ entered[playerId[s]] = NoEntry
    <3>1. \A o \in Sessions : step[o] = "check" => step'[o] = "check"
      BY <2>9 DEF JoinZone, End, Goto, TypeOK
    <3> QED BY <2>9, <3>1, RosterKept DEF JoinZone, sessionVars
  <2>10. CASE JoinZone(s) /\ entered[playerId[s]] # NoEntry
    <3> DEFINE q == playerId[s]
    <3>1. q \in Players /\ arg[s] \in Zones /\ MoveZone(q, s, arg[s])
      BY <2>10 DEF JoinZone, SessionsInv, JobInv, TypeOK
    <3>2. \A o \in Sessions : step[o] = "check" => step'[o] = "check"
      BY <2>10 DEF JoinZone, Goto, TypeOK
    <3>3. UNCHANGED sessionVars
      BY <2>10 DEF JoinZone
    <3>4. ASSUME NEW p \in Players
          PROVE  /\ entered'[p] # NoEntry <=> entered[p] # NoEntry
                 /\ entered[p] # NoEntry => entered'[p].session = entered[p].session
      BY <2>10, <3>1, MoveEffect
    <3>5. LiveIsListed'
      <4> SUFFICES ASSUME NEW o \in Sessions, playerId[o] # NoPlayer, ~closing[o]
                   PROVE  entered'[playerId[o]] # NoEntry /\ entered'[playerId[o]].session = o
        BY <3>3 DEF LiveIsListed, sessionVars
      <4>1. playerId[o] \in Players
        BY DEF TypeOK
      <4> QED BY <3>4, <4>1 DEF RosterInv, LiveIsListed
    <3>6. NoGhostEntry'
      <4> SUFFICES ASSUME NEW p \in Players, entered'[p] # NoEntry
                   PROVE  /\ playerId[entered'[p].session] = p
                          /\ cleaned[entered'[p].session] => step'[entered'[p].session] = "check"
        BY <3>3 DEF NoGhostEntry, sessionVars
      <4>1. entered[p] # NoEntry /\ entered'[p].session = entered[p].session
        BY <3>4
      <4>2. entered[p].session \in Sessions
        BY <4>1 DEF TypeOK, Entry
      <4> QED BY <3>2, <4>1, <4>2 DEF RosterInv, NoGhostEntry
    <3> QED BY <3>5, <3>6 DEF RosterInv
  <2>11. CASE SnapshotZone(s)
    <3>1. \A o \in Sessions : step[o] = "check" => step'[o] = "check"
      BY <2>11 DEF SnapshotZone, End, Goto, TypeOK
    <3> QED BY <2>11, <3>1, RosterKept DEF SnapshotZone, tableVars, sessionVars
  <2>12. CASE ListSent(s)
    <3>1. \A o \in Sessions : step[o] = "check" => step'[o] = "check"
      BY <2>12 DEF ListSent, Goto, TypeOK
    <3> QED BY <2>12, <3>1, RosterKept DEF ListSent, tableVars, sessionVars
  <2>13. CASE \E m \in Sessions : SendList(s, m)
    BY <2>13, RosterKept DEF SendList, tableVars, sessionVars
  <2> QED BY <1>6, <2>1, <2>2, <2>3, <2>4, <2>5, <2>6, <2>7, <2>8, <2>9, <2>10, <2>11, <2>12,
             <2>13 DEF JobStep
<1> QED BY <1>1, <1>2, <1>3, <1>4, <1>5, <1>6, StepKinds

-----------------------------------------------------------------------------
(* One session at a time *)

LEMMA OneSpeakerInit == Init => OneSpeaker
<1> SUFFICES ASSUME Init, NEW s \in Sessions, NEW p \in Players PROVE ~Names(s, p)
  BY DEF OneSpeaker
<1>1. Len(jobs[s]) = 0
  BY DEF Init
<1> QED BY <1>1, RosterAssumption DEF Init, Names, Entering

\* A session comes to name a player only by a frame it receives.
LEMMA NamesKept ==
    ASSUME TypeOK, SessionsInv, Next, NEW o \in Sessions, NEW p \in Players, Names(o, p)'
    PROVE  Names(o, p) \/ Receive(o, <<"enter", p>>)
<1>1. CASE Elsewhere
  BY <1>1, ElsewhereLeaves DEF sessionVars, jobVars, inputVars, Names
<1>2. ASSUME NEW s \in Sessions,
             \/ HandOff(s) \/ BeginJob(s) \/ JobStep(s) \/ Close(s)
             \/ \E f \in Frames : Receive(s, f),
             o # s
      PROVE  Names(o, p)
  <2>1. Untouched(o)
    BY <1>2, StepsOfOne
  <2> QED BY <2>1 DEF Untouched, Names
<1>3. CASE HandOff(o)
  <2>1. \A i \in 1..Len(Append(jobs[o], Gone)) :
           (i \in 1..Len(jobs[o]) /\ Append(jobs[o], Gone)[i] = jobs[o][i])
              \/ Append(jobs[o], Gone)[i] = Gone
    BY QueueOps DEF TypeOK
  <2>2. Gone # <<"enter", p>>
    BY DEF Gone
  <2>3. jobs'[o] = Append(jobs[o], Gone) /\ playerId' = playerId /\ UNCHANGED jobVars
    BY <1>3 DEF HandOff, TypeOK
  <2> QED BY <2>1, <2>2, <2>3 DEF Names, jobVars
<1>4. CASE BeginJob(o)
  <2> DEFINE f == Head(jobs[o])
  <2>1. /\ f \in Frames \cup {Gone} /\ f = jobs[o][1] /\ 1 \in 1..Len(jobs[o])
        /\ \A i \in 1..Len(Tail(jobs[o])) :
              i + 1 \in 1..Len(jobs[o]) /\ Tail(jobs[o])[i] = jobs[o][i + 1]
    BY <1>4, QueueOps DEF BeginJob, TypeOK
  <2>2. f[1] \in Entering => f = <<"enter", f[2]>>
    BY <2>1, JobKinds DEF Entering
  <2> HIDE DEF f
  <2>3. /\ step'[o] = f[1] /\ arg'[o] = f[2] /\ jobs'[o] = Tail(jobs[o])
        /\ playerId' = playerId
    BY <1>4 DEF BeginJob, Goto, f, sessionVars, TypeOK
  <2>4. CASE playerId'[o] = p
    BY <2>3, <2>4 DEF Names
  <2>5. CASE step'[o] \in Entering /\ arg'[o] = p
    BY <2>1, <2>2, <2>3, <2>5 DEF Names
  <2>6. ASSUME NEW i \in 1..Len(jobs'[o]), jobs'[o][i] = <<"enter", p>> PROVE Names(o, p)
    BY <2>1, <2>3, <2>6 DEF Names
  <2> QED BY <2>4, <2>5, <2>6 DEF Names
<1>5. CASE JobStep(o)
  <2>1. jobs' = jobs
    BY <1>5 DEF JobStep, EnterAllowed, ConsumeReservation, Enter, EnterCheck, JoinGate,
                JoinZone, Cleanup, SnapshotZone, ListSent, SendList, inputVars
  <2>2. CASE Enter(o)
    BY <2>1, <2>2 DEF Enter, End, Goto, TypeOK, Names, Entering
  <2>3. CASE ~Enter(o)
    <3>1. playerId' = playerId
      BY <1>5, <2>3 DEF JobStep, EnterAllowed, ConsumeReservation, EnterCheck, JoinGate,
                        JoinZone, Cleanup, SnapshotZone, ListSent, SendList, sessionVars
    <3>2. step'[o] \in Entering => step[o] \in Entering /\ arg'[o] = arg[o]
      <4> USE DEF End, Goto, TypeOK, Entering
      <4>1. CASE EnterAllowed(o) \/ ConsumeReservation(o) \/ EnterCheck(o)
        BY <4>1 DEF EnterAllowed, ConsumeReservation, EnterCheck
      <4>2. CASE JoinGate(o) \/ JoinZone(o) \/ Cleanup(o)
        BY <4>2 DEF JoinGate, JoinZone, Cleanup
      <4>3. CASE SnapshotZone(o) \/ ListSent(o) \/ \E m \in Sessions : SendList(o, m)
        BY <4>3 DEF SnapshotZone, ListSent, SendList
      <4> QED BY <1>5, <2>3, <4>1, <4>2, <4>3 DEF JobStep
    <3> QED BY <2>1, <3>1, <3>2 DEF Names
  <2> QED BY <2>2, <2>3
<1>6. CASE Close(o)
  BY <1>6 DEF Close, jobVars, inputVars, Names
<1>7. ASSUME NEW f \in Frames, Receive(o, f) PROVE Names(o, p) \/ f = <<"enter", p>>
  <2>1. \A i \in 1..Len(Append(jobs[o], f)) :
           (i \in 1..Len(jobs[o]) /\ Append(jobs[o], f)[i] = jobs[o][i])
              \/ Append(jobs[o], f)[i] = f
    BY QueueOps DEF TypeOK
  <2>2. jobs'[o] = Append(jobs[o], f) /\ UNCHANGED <<sessionVars, jobVars>>
    BY <1>7 DEF Receive, TypeOK
  <2> QED BY <2>1, <2>2 DEF Names, sessionVars, jobVars
<1> QED BY <1>1, <1>2, <1>3, <1>4, <1>5, <1>6, <1>7, StepKinds

\* A session that has finished does nothing any more, if clients do not come back too early.
LEMMA FinishedKept ==
    ASSUME ~Overlap, TypeOK, SessionsInv, Next, NEW o \in Sessions, Finished(o)
    PROVE  Finished(o)'
<1>1. CASE Elsewhere
  BY <1>1, ElsewhereLeaves DEF sessionVars, jobVars, inputVars, Finished
<1>2. ASSUME NEW s \in Sessions,
             \/ HandOff(s) \/ BeginJob(s) \/ JobStep(s) \/ Close(s)
             \/ \E f \in Frames : Receive(s, f)
      PROVE  Finished(o)'
  <2>1. CASE o # s
    <3>1. Untouched(o)
      BY <1>2, <2>1, StepsOfOne
    <3> QED BY <3>1 DEF Untouched, Finished
  <2>2. CASE o = s
    <3>1. ~HandOff(o) /\ ~BeginJob(o)
      BY DEF HandOff, BeginJob, Finished, SessionsInv, GoneInv
    <3>2. ~JobStep(o)
      BY DEF JobStep, EnterAllowed, ConsumeReservation, Enter, EnterCheck, JoinGate,
             JoinZone, Cleanup, SnapshotZone, ListSent, SendList, Finished
    <3>3. ~\E f \in Frames : Receive(o, f)
      BY DEF Receive
    <3>4. Close(o)
      BY <1>2, <2>2, <3>1, <3>2, <3>3
    <3> QED BY <3>4 DEF Close, jobVars, inputVars, Finished
  <2> QED BY <2>1, <2>2
<1> QED BY <1>1, <1>2, StepKinds

LEMMA OneSpeakerStep ==
    ASSUME ~Overlap, TypeOK, SessionsInv, OneSpeaker, Next
    PROVE  OneSpeaker'
<1> SUFFICES ASSUME NEW s \in Sessions, NEW o \in Sessions, NEW p \in Players,
                    Names(s, p)', Names(o, p)', s # o
             PROVE  Finished(s)' \/ Finished(o)'
  BY DEF OneSpeaker
<1>1. ASSUME NEW a \in Sessions, NEW b \in Sessions, a # b, Names(b, p)',
             Receive(a, <<"enter", p>>)
      PROVE  Finished(b)'
  <2>1. <<"enter", p>> \in Frames
    BY DEF Frames
  <2>2. Untouched(b)
    BY <1>1, <2>1, StepsOfOne
  <2>3. Names(b, p)
    BY <1>1, <2>2 DEF Untouched, Names
  <2>4. Speaks(b, p)
    <3>1. DOMAIN jobs[b] = 1..Len(jobs[b])
      BY LenProperties DEF TypeOK
    <3> QED BY <2>3, <3>1 DEF Names, Speaks
  <2>5. \A x \in Sessions \ {a} : Speaks(x, p) => Finished(x)
    BY <1>1 DEF Receive
  <2>6. Finished(b)
    BY <1>1, <2>4, <2>5
  <2> QED BY <2>6, FinishedKept
<1>2. CASE Names(s, p) /\ Names(o, p)
  BY <1>2, FinishedKept DEF OneSpeaker
<1>3. CASE ~(Names(s, p) /\ Names(o, p))
  BY <1>1, <1>3, NamesKept
<1> QED BY <1>2, <1>3

-----------------------------------------------------------------------------
(* The zone index *)

LEMMA IndexInit == Init => IndexInv
BY DEF Init, IndexInv, Here

LEMMA IndexKept ==
    ASSUME IndexInv, entered' = entered, zoneIndex' = zoneIndex, playerId' = playerId
    PROVE  IndexInv'
BY DEF IndexInv, Here

\* The roster never says two things of one session.
LEMMA OneEntry ==
    ASSUME TypeOK, RosterInv, NEW s \in Sessions, NEW p \in Players,
           entered[p] # NoEntry, entered[p].session = s
    PROVE  playerId[s] = p /\ playerId[s] # NoPlayer
BY RosterAssumption DEF RosterInv, NoGhostEntry

\* A late zone change finds the entry of its own session, if players do not come back
\* too early.
LEMMA OwnEntry ==
    ASSUME TypeOK, RosterInv, OneSpeaker, NEW s \in Sessions, JoinZone(s),
           entered[playerId[s]] # NoEntry
    PROVE  entered[playerId[s]].session = s
<1> DEFINE p == playerId[s]
           o == entered[p].session
<1>1. p \in Players /\ step[s] = "join"
  BY DEF JoinZone, TypeOK
<1>2. o \in Sessions
  BY <1>1 DEF TypeOK, Entry
<1>3. playerId[o] = p /\ (cleaned[o] => step[o] = "check")
  BY <1>1 DEF RosterInv, NoGhostEntry
<1>4. Names(s, p) /\ Names(o, p)
  BY <1>3 DEF Names
<1>5. ~Finished(s) /\ ~Finished(o)
  BY <1>1, <1>3 DEF Finished
<1> QED BY <1>1, <1>2, <1>4, <1>5 DEF OneSpeaker

LEMMA IndexStep ==
    ASSUME TypeOK, SessionsInv, RosterInv, OneSpeaker, IndexInv, Next
    PROVE  IndexInv'
<1>1. CASE Elsewhere
  BY <1>1, ElsewhereLeaves, IndexKept DEF sessionVars
<1>2. ASSUME NEW s \in Sessions,
             \/ HandOff(s) \/ BeginJob(s) \/ Close(s) \/ \E f \in Frames : Receive(s, f)
      PROVE  IndexInv'
  BY <1>2, IndexKept DEF HandOff, BeginJob, Close, Receive, tableVars, sessionVars
<1>3. ASSUME NEW s \in Sessions, Enter(s) PROVE IndexInv'
  <2>1. CASE entered[arg[s]] # NoEntry
    BY <1>3, <2>1, IndexKept DEF Enter
  <2>2. CASE entered[arg[s]] = NoEntry
    <3> DEFINE a == arg[s]
               e == [session |-> s, zone |-> NoZone]
    <3>1. a \in Players /\ playerId[s] = NoPlayer
      BY <1>3 DEF Enter, SessionsInv, JobInv, Entering
    <3>2. e.zone = NoZone /\ e.session = s
      OBVIOUS
    <3> HIDE DEF a, e
    <3>3. /\ entered' = [entered EXCEPT ![a] = e] /\ playerId' = [playerId EXCEPT ![s] = a]
          /\ zoneIndex' = zoneIndex /\ entered[a] = NoEntry
      BY <1>3, <2>2 DEF Enter, a, e
    <3>4. ASSUME NEW z \in Zones, NEW o \in Sessions PROVE Here(o, z)' <=> Here(o, z)
      <4>1. CASE o = s
        <5>1. ~Here(o, z)
          BY <3>1, <4>1 DEF Here
        <5>2. ~Here(o, z)'
          BY <3>1, <3>2, <3>3, <4>1, RosterAssumption DEF Here, TypeOK
        <5> QED BY <5>1, <5>2
      <4>2. CASE o # s
        <5>1. playerId'[o] = playerId[o] /\ playerId[o] \in Players \cup {NoPlayer}
          BY <3>3, <4>2 DEF TypeOK
        <5>2. CASE playerId[o] = a
          BY <3>1, <3>2, <3>3, <4>2, <5>1, <5>2 DEF Here, TypeOK
        <5>3. CASE playerId[o] # a
          BY <3>3, <5>1, <5>3 DEF Here, TypeOK
        <5> QED BY <5>2, <5>3
      <4> QED BY <4>1, <4>2
    <3> QED BY <3>3, <3>4 DEF IndexInv
  <2> QED BY <2>1, <2>2
<1>4. ASSUME NEW s \in Sessions, playerId[s] # NoPlayer, Leave(playerId[s], s),
             playerId' = playerId
      PROVE  IndexInv'
  <2> DEFINE p == playerId[s]
  <2>1. p \in Players
    BY <1>4 DEF TypeOK
  <2>2. CASE ~(entered[p] # NoEntry /\ entered[p].session = s)
    BY <1>4, <2>2, IndexKept DEF Leave
  <2>3. CASE entered[p] # NoEntry /\ entered[p].session = s
    <3> DEFINE y == entered[p].zone
    <3>1. y \in Zones \cup {NoZone}
      BY <2>1, <2>3 DEF TypeOK, Entry
    <3>2. zoneIndex' = Erase(zoneIndex, y, s) /\ entered' = [entered EXCEPT ![p] = NoEntry]
      BY <1>4, <2>3 DEF Leave
    <3>3. ASSUME NEW z \in Zones, NEW o \in Sessions
          PROVE  zoneIndex'[z][o] = IF z = y /\ o = s /\ zoneIndex[y][s] > 0
                                    THEN zoneIndex[z][o] - 1 ELSE zoneIndex[z][o]
      BY <3>1, <3>2, EraseTyped DEF TypeOK
    <3>4. ASSUME NEW z \in Zones, NEW o \in Sessions
          PROVE  /\ zoneIndex[z][o] = IF Here(o, z) THEN 1 ELSE 0
                 /\ Here(s, z) <=> z = y
      BY <1>4, <2>3 DEF IndexInv, Here
    <3>5. ASSUME NEW z \in Zones PROVE ~Here(s, z)'
      BY <1>4, <2>1, <3>2 DEF Here, TypeOK
    <3>6. ASSUME NEW z \in Zones, NEW o \in Sessions, o # s PROVE Here(o, z)' <=> Here(o, z)
      <4>1. playerId[o] # p => entered'[playerId[o]] = entered[playerId[o]]
        BY <3>2
      <4>2. playerId[o] = p => ~Here(o, z) /\ ~Here(o, z)'
        BY <1>4, <2>1, <2>3, <3>2, <3>6 DEF Here, TypeOK
      <4> QED BY <1>4, <4>1, <4>2 DEF Here
    <3> HIDE DEF p, y
    <3>7. ASSUME NEW z \in Zones, NEW o \in Sessions
          PROVE  zoneIndex'[z][o] = IF Here(o, z)' THEN 1 ELSE 0
      <4>1. CASE o = s /\ z = y
        BY <3>3, <3>4, <3>5, <4>1
      <4>2. CASE o = s /\ z # y
        BY <3>3, <3>4, <3>5, <4>2
      <4>3. CASE o # s
        BY <3>3, <3>4, <3>6, <4>3
      <4> QED BY <4>1, <4>2, <4>3
    <3> QED BY <3>7 DEF IndexInv
  <2> QED BY <2>2, <2>3
<1>5. ASSUME NEW s \in Sessions, JoinZone(s), entered[playerId[s]] # NoEntry
      PROVE  IndexInv'
  <2> DEFINE p == playerId[s]
             y == entered[p].zone
             x == arg[s]
             index == Erase(zoneIndex, y, s)
  <2>1. /\ p \in Players /\ p # NoPlayer /\ x \in Zones /\ playerId' = playerId
        /\ entered[p].session = s /\ MoveZone(p, s, x)
    BY <1>5, OwnEntry DEF JoinZone, SessionsInv, JobInv, TypeOK, sessionVars
  <2>2. y \in Zones \cup {NoZone}
    BY <1>5, <2>1 DEF TypeOK, Entry
  <2>3. /\ index \in [Zones -> [Sessions -> Nat]]
        /\ zoneIndex' = [index EXCEPT ![x][s] = index[x][s] + 1]
    <3>1. index \in [Zones -> [Sessions -> Nat]]
      BY <2>2, EraseTyped DEF TypeOK
    <3>2. zoneIndex' = [index EXCEPT ![x][s] = @ + 1]
      BY <2>1 DEF MoveZone
    <3> QED BY <3>1, <3>2
  <2>4. ASSUME NEW z \in Zones, NEW o \in Sessions
        PROVE  index[z][o] = IF z = y /\ o = s /\ zoneIndex[y][s] > 0
                             THEN zoneIndex[z][o] - 1 ELSE zoneIndex[z][o]
    BY <2>2, EraseTyped DEF TypeOK
  <2>5. ASSUME NEW z \in Zones, NEW o \in Sessions
        PROVE  zoneIndex'[z][o] = IF z = x /\ o = s THEN index[z][o] + 1 ELSE index[z][o]
    <3> HIDE DEF index, x
    <3> QED BY <2>1, <2>3
  <2>6. ASSUME NEW z \in Zones, NEW o \in Sessions
        PROVE  /\ zoneIndex[z][o] = IF Here(o, z) THEN 1 ELSE 0
               /\ Here(s, z) <=> z = y
    BY <1>5, <2>1 DEF IndexInv, Here
  <2>7. ASSUME NEW q \in Players
        PROVE  /\ q # p => entered'[q] = entered[q]
               /\ entered'[p] # NoEntry /\ entered'[p].session = s /\ entered'[p].zone = x
    BY <1>5, <2>1, MoveEffect
  <2>8. ASSUME NEW z \in Zones PROVE Here(s, z)' <=> z = x
    BY <2>1, <2>7 DEF Here
  <2>9. ASSUME NEW z \in Zones, NEW o \in Sessions, o # s PROVE Here(o, z)' <=> Here(o, z)
    <3>1. CASE playerId[o] = p
      BY <2>1, <2>7, <2>9, <3>1 DEF Here
    <3>2. CASE playerId[o] # p
      BY <2>1, <2>7, <3>2 DEF Here, TypeOK
    <3> QED BY <3>1, <3>2
  <2> HIDE DEF p, y, x, index
  <2>10. ASSUME NEW z \in Zones, NEW o \in Sessions
         PROVE  zoneIndex'[z][o] = IF Here(o, z)' THEN 1 ELSE 0
    <3>1. CASE o # s
      BY <2>4, <2>5, <2>6, <2>9, <3>1
    <3>2. CASE o = s
      <4>1. index[z][s] = 0
        BY <2>4, <2>6
      <4> QED BY <2>5, <2>8, <3>2, <4>1
    <3> QED BY <3>1, <3>2
  <2> QED BY <2>10 DEF IndexInv
<1>6. ASSUME NEW s \in Sessions, JobStep(s) PROVE IndexInv'
  <2>1. CASE \/ EnterAllowed(s) \/ ConsumeReservation(s) \/ JoinGate(s)
             \/ SnapshotZone(s) \/ ListSent(s) \/ \E m \in Sessions : SendList(s, m)
    BY <2>1, IndexKept DEF EnterAllowed, ConsumeReservation, JoinGate, SnapshotZone, ListSent,
                           SendList, tableVars, sessionVars
  <2>2. CASE EnterCheck(s)
    <3>1. playerId[s] # NoPlayer /\ playerId' = playerId
      BY <2>2 DEF EnterCheck, SessionsInv, JobInv, sessionVars
    <3>2. CASE closing[s]
      BY <1>4, <2>2, <3>1, <3>2 DEF EnterCheck
    <3>3. CASE ~closing[s]
      BY <2>2, <3>1, <3>3, IndexKept DEF EnterCheck
    <3> QED BY <3>2, <3>3
  <2>3. CASE Cleanup(s) /\ playerId[s] = NoPlayer
    BY <2>3, IndexKept DEF Cleanup
  <2>4. CASE Cleanup(s) /\ playerId[s] # NoPlayer
    BY <1>4, <2>4 DEF Cleanup
  <2>5. CASE JoinZone(s) /\ entered[playerId[s]] = NoEntry
    BY <2>5, IndexKept DEF JoinZone, sessionVars
  <2>6. CASE JoinZone(s) /\ entered[playerId[s]] # NoEntry
    BY <1>5, <2>6
  <2> QED BY <1>3, <1>6, <2>1, <2>2, <2>3, <2>4, <2>5, <2>6 DEF JobStep
<1> QED BY <1>1, <1>2, <1>6, StepKinds

\* Counting the entries is looking for the one there may be.
LEMMA EntriesAreHere ==
    ASSUME TypeOK, RosterInv, IndexInv
    PROVE  IndexAgrees
<1> SUFFICES ASSUME NEW z \in Zones, NEW s \in Sessions
             PROVE  zoneIndex[z][s] =
                      Cardinality({p \in Players :
                          entered[p] # NoEntry /\ entered[p].session = s /\ entered[p].zone = z})
  BY DEF IndexAgrees
<1> DEFINE E == {p \in Players :
                    entered[p] # NoEntry /\ entered[p].session = s /\ entered[p].zone = z}
<1>1. E = IF Here(s, z) THEN {playerId[s]} ELSE {}
  <2>1. ASSUME NEW p \in E PROVE p = playerId[s] /\ Here(s, z)
    <3>1. playerId[s] = p /\ playerId[s] # NoPlayer
      BY OneEntry
    <3> QED BY <3>1 DEF Here
  <2>2. Here(s, z) => playerId[s] \in E
    BY DEF Here, TypeOK
  <2> QED BY <2>1, <2>2
<1>2. Cardinality(E) = IF Here(s, z) THEN 1 ELSE 0
  BY <1>1, FS_EmptySet, FS_Singleton
<1> QED BY <1>2 DEF IndexInv

-----------------------------------------------------------------------------
(* What the clients have been told *)

\* What a job has to tell: its first zone, or one of the rest.
LEMMA FirstToTell ==
    ASSUME NEW q \in Seq(Zones), q # <<>>
    PROVE  /\ Head(q) \in Zones
           /\ \A i \in 1..Len(q) :
                q[i] = Head(q) \/ \E j \in 1..Len(Tail(q)) : Tail(q)[j] = q[i]
<1>1. /\ Len(q) \in Nat \ {0} /\ Head(q) = q[1] /\ q[1] \in Zones
      /\ Len(Tail(q)) = Len(q) - 1
      /\ \A i \in 1..Len(Tail(q)) : Tail(q)[i] = q[i + 1]
  BY LenProperties, ElementOfSeq, EmptySeq, HeadTailProperties
<1>2. ASSUME NEW i \in 1..Len(q), i # 1
      PROVE  i - 1 \in 1..Len(Tail(q)) /\ Tail(q)[i - 1] = q[i]
  BY <1>1, <1>2
<1> QED BY <1>1, <1>2

\* A zone that was left is to be told.
LEMMA OldToTell ==
    ASSUME NEW y \in Zones
    PROVE  1 \in 1..Len(OldZone(y)) /\ OldZone(y)[1] = y
BY RosterAssumption DEF OldZone

\* A bucket's members are the sessions that are here, so nobody is in two zones.
LEMMA MembersAreHere ==
    ASSUME IndexInv, NEW s \in Sessions, NEW z \in Zones
    PROVE  /\ s \in Members(z) <=> Here(s, z)
           /\ \A y \in Zones : s \in Members(z) /\ s \in Members(y) => y = z
BY DEF IndexInv, Members, Here

\* Which job runs, if there is one worker.
LEMMA OneJobStep ==
    ASSUME Workers = 1, TypeOK, OneJob, Next
    PROVE  OneJob'
<1>1. CASE Elsewhere
  BY <1>1, ElsewhereLeaves DEF jobVars, OneJob
<1>2. ASSUME NEW s \in Sessions, HandOff(s) \/ Close(s) \/ \E f \in Frames : Receive(s, f)
      PROVE  OneJob'
  BY <1>2 DEF HandOff, Close, Receive, jobVars, OneJob
<1>3. ASSUME NEW s \in Sessions, BeginJob(s) PROVE OneJob'
  <2>1. Busy = {}
    <3> SUFFICES ASSUME NEW o \in Busy PROVE FALSE
      OBVIOUS
    <3>1. Busy = {o}
      BY DEF OneJob, Busy
    <3>2. Cardinality(Busy) = 1
      BY <3>1, FS_Singleton
    <3> QED BY <1>3, <3>2 DEF BeginJob
  <2>2. \A o \in Sessions : o # s => step'[o] = step[o]
    BY <1>3 DEF BeginJob, Goto, TypeOK
  <2> QED BY <2>1, <2>2 DEF OneJob, Busy
<1>4. ASSUME NEW s \in Sessions, JobStep(s) PROVE OneJob'
  <2>1. \A o \in Sessions : o # s => step'[o] = step[o]
    BY <1>4, StepsOfOne DEF Untouched
  <2>2. step[s] # "idle"
    BY <1>4 DEF JobStep, EnterAllowed, ConsumeReservation, Enter, EnterCheck, JoinGate,
                JoinZone, Cleanup, SnapshotZone, ListSent, SendList
  <2> QED BY <2>1, <2>2 DEF OneJob
<1> QED BY <1>1, <1>2, <1>3, <1>4, StepKinds

LEMMA TellInit == Init => TellInv
BY DEF Init, TellInv, OneJob, NotInZoneYet, FreshList, Told, Members

\* Nothing is left to be told when nobody is telling.
LEMMA AllTold ==
    ASSUME Told, \A s \in Sessions : step[s] \notin {"tell", "send"}
    PROVE  \A z \in Zones : \A m \in Members(z) : view[m] = Members(z)
BY DEF Told, ToTell, Sending

\* A step that changes no bucket, before and after which no list is under way.
LEMMA QuietKept ==
    ASSUME TellInv, zoneIndex' = zoneIndex, view' = view,
           \A s \in Sessions : step[s] \notin {"tell", "send"},
           \A s \in Sessions : step'[s] \notin {"tell", "send"}
    PROVE  FreshList' /\ Told'
<1>1. \A z \in Zones : Members(z)' = Members(z)
  BY DEF Members
<1>2. Told'
  BY <1>1, AllTold DEF TellInv, Told
<1> QED BY <1>2 DEF FreshList

\* A step that changes nothing the lists are made of.
LEMMA TellKept ==
    ASSUME TellInv, zoneIndex' = zoneIndex, entered' = entered, playerId' = playerId,
           UNCHANGED jobVars, view' = view
    PROVE  NotInZoneYet' /\ FreshList' /\ Told'
<1>1. \A z \in Zones : Members(z)' = Members(z)
  BY DEF Members
<1>2. NotInZoneYet'
  BY DEF TellInv, NotInZoneYet, Here, jobVars
<1>3. FreshList'
  BY <1>1 DEF TellInv, FreshList, jobVars
<1>4. Told'
  BY <1>1 DEF TellInv, Told, ToTell, Sending, jobVars
<1> QED BY <1>2, <1>3, <1>4

\* A job that has changed buckets has to tell each of their zones.
LEMMA MovedIsTold ==
    ASSUME TellInv, NEW s \in Sessions, \A o \in Sessions \ {s} : step'[o] = "idle",
           \A o \in Sessions : step[o] \notin {"tell", "send"},
           step'[s] = "tell", view' = view,
           \A z \in Zones : Members(z)' = Members(z) \/ ToTell(s, z)'
    PROVE  NotInZoneYet' /\ FreshList' /\ Told'
<1>1. NotInZoneYet' /\ FreshList'
  BY DEF NotInZoneYet, FreshList
<1>2. Told'
  BY AllTold DEF TellInv, Told
<1> QED BY <1>1, <1>2

LEMMA TellStep ==
    ASSUME Workers = 1, TypeOK, SessionsInv, RosterInv, OneSpeaker, IndexInv, TellInv, Next
    PROVE  TellInv'
<1>0. OneJob'
  BY OneJobStep DEF TellInv
<1>1. CASE Elsewhere
  <2>1. view' = view
    BY <1>1 DEF Elsewhere, Reserve, SetMode, LinkLost, SweepExpired, Tick, DrainComplete
  <2> QED BY <1>0, <1>1, <2>1, ElsewhereLeaves, TellKept DEF sessionVars, TellInv
<1>2. ASSUME NEW s \in Sessions, HandOff(s) \/ Close(s) \/ \E f \in Frames : Receive(s, f)
      PROVE  TellInv'
  <2>1. /\ zoneIndex' = zoneIndex /\ entered' = entered /\ playerId' = playerId
        /\ UNCHANGED jobVars /\ view' = view
    BY <1>2 DEF HandOff, Close, Receive, tableVars, sessionVars
  <2> QED BY <1>0, <2>1, TellKept DEF TellInv
<1>3. ASSUME NEW s \in Sessions, BeginJob(s) PROVE TellInv'
  <2>1. step'[s] \in {"enter", "join", "gone"}
    <3>1. Head(jobs[s]) \in Frames \cup {Gone}
      BY <1>3, QueueOps DEF BeginJob, TypeOK
    <3>2. Head(jobs[s])[1] \in {"enter", "join", "gone"}
      BY <3>1, JobKinds
    <3> QED BY <1>3, <3>2 DEF BeginJob, Goto, TypeOK
  <2>2. ASSUME NEW o \in Sessions, o # s PROVE step'[o] = "idle" /\ step[o] = "idle"
    <3>1. step'[o] = step[o]
      BY <1>3, <2>2 DEF BeginJob, Goto, TypeOK
    <3> QED BY <1>0, <2>1, <2>2, <3>1 DEF OneJob
  <2>3. step[s] = "idle" /\ zoneIndex' = zoneIndex /\ view' = view
    BY <1>3 DEF BeginJob, tableVars
  <2>4. FreshList' /\ Told'
    BY <2>1, <2>2, <2>3, QuietKept
  <2>5. NotInZoneYet'
    BY <2>1, <2>2 DEF NotInZoneYet
  <2> QED BY <1>0, <2>4, <2>5 DEF TellInv
<1>4. ASSUME NEW s \in Sessions, JobStep(s) PROVE TellInv'
  <2>1. ASSUME NEW o \in Sessions, o # s PROVE step'[o] = "idle" /\ step[o] = "idle"
    <3>1. step[s] # "idle"
      BY <1>4 DEF JobStep, EnterAllowed, ConsumeReservation, Enter, EnterCheck, JoinGate,
                  JoinZone, Cleanup, SnapshotZone, ListSent, SendList
    <3>2. step'[o] = step[o]
      BY <1>4, <2>1, StepsOfOne DEF Untouched
    <3> QED BY <2>1, <3>1, <3>2 DEF TellInv, OneJob
  <2>2. ASSUME step[s] \notin {"tell", "send"}, step'[s] \notin {"tell", "send"},
               step'[s] # "check", zoneIndex' = zoneIndex, view' = view
        PROVE  NotInZoneYet' /\ FreshList' /\ Told'
    <3>1. FreshList' /\ Told'
      BY <2>1, <2>2, QuietKept
    <3> QED BY <2>1, <2>2, <3>1 DEF NotInZoneYet
  <2>3. CASE \/ EnterAllowed(s) \/ ConsumeReservation(s) \/ JoinGate(s)
             \/ JoinZone(s) /\ entered[playerId[s]] = NoEntry
    <3>1. /\ step[s] \notin {"tell", "send"} /\ step'[s] \notin {"tell", "send", "check"}
          /\ zoneIndex' = zoneIndex /\ view' = view
      BY <2>3 DEF EnterAllowed, ConsumeReservation, JoinGate, JoinZone, End, Goto, tableVars,
                  TypeOK
    <3> QED BY <1>0, <2>2, <3>1 DEF TellInv
  <2>4. CASE Enter(s)
    <3>1. /\ step[s] = "insert" /\ step'[s] \in {"idle", "check"}
          /\ zoneIndex' = zoneIndex /\ view' = view
      BY <2>4 DEF Enter, End, Goto, TypeOK
    <3>2. FreshList' /\ Told'
      BY <2>1, <3>1, QuietKept
    <3>3. ASSUME NEW z \in Zones, step'[s] = "check" PROVE ~Here(s, z)'
      <4>1. arg[s] \in Players
        BY <2>4 DEF Enter, SessionsInv, JobInv, Entering
      <4>2. /\ playerId'[s] = arg[s]
            /\ entered'[arg[s]] = [session |-> s, zone |-> NoZone]
        BY <2>4, <3>3, <4>1 DEF Enter, End, Goto, TypeOK
      <4> QED BY <4>2, RosterAssumption DEF Here
    <3>4. NotInZoneYet'
      BY <2>1, <3>3 DEF NotInZoneYet
    <3> QED BY <1>0, <3>2, <3>4 DEF TellInv
  <2>5. CASE EnterCheck(s)
    <3> DEFINE p == playerId[s]
    <3>1. /\ p \in Players /\ p # NoPlayer /\ step[s] = "check" /\ step'[s] = "idle"
          /\ view' = view
      BY <2>5 DEF EnterCheck, End, Goto, SessionsInv, JobInv, TypeOK
    <3>2. CASE closing[s] /\ entered[p] # NoEntry /\ entered[p].session = s
      <4>1. entered[p].zone \in Zones \cup {NoZone}
        BY <3>1, <3>2 DEF TypeOK, Entry
      <4>2. entered[p].zone = NoZone
        BY <3>1, <3>2, <4>1 DEF TellInv, NotInZoneYet, Here
      <4>3. zoneIndex' = zoneIndex
        BY <2>5, <3>2, <4>2 DEF EnterCheck, Leave, Erase
      <4> QED BY <1>0, <2>2, <3>1, <4>3 DEF TellInv
    <3>3. CASE ~(closing[s] /\ entered[p] # NoEntry /\ entered[p].session = s)
      <4>1. zoneIndex' = zoneIndex
        BY <2>5, <3>3 DEF EnterCheck, Leave
      <4> QED BY <1>0, <2>2, <3>1, <4>1 DEF TellInv
    <3> QED BY <3>2, <3>3
  <2>6. CASE JoinZone(s) /\ entered[playerId[s]] # NoEntry
    <3> DEFINE p == playerId[s]
    <3>1. /\ p \in Players /\ arg[s] \in Zones /\ entered[p].session = s
          /\ entered[p].zone \in Zones \cup {NoZone}
      BY <2>6, OwnEntry DEF JoinZone, SessionsInv, JobInv, TypeOK, Entry
    <3> PICK x \in Zones, y \in Zones \cup {NoZone} : x = arg[s] /\ y = entered[p].zone
      BY <3>1
    <3>2. /\ step[s] = "join" /\ step'[s] = "tell" /\ view' = view
          /\ tells'[s] = <<x>> \o OldZone(y)
          /\ zoneIndex' = [Erase(zoneIndex, y, s) EXCEPT ![x][s] = @ + 1]
      BY <2>6, <3>1 DEF JoinZone, MoveZone, Goto, TypeOK
    <3>3. ToTell(s, x)' /\ (y # NoZone => ToTell(s, y)')
      <4> DEFINE q == <<x>> \o OldZone(y)
      <4>1. /\ \E i \in 1..Len(q) : q[i] = x
            /\ y # NoZone => \E i \in 1..Len(q) : q[i] = y
        <5>1. 1 \in 1..Len(q) /\ q[1] = x
          BY DEF OldZone
        <5>2. y # NoZone => 2 \in 1..Len(q) /\ q[2] = y
          BY DEF OldZone
        <5> QED BY <5>1, <5>2
      <4>2. tells'[s] = q /\ step'[s] = "tell"
        BY <3>2
      <4> HIDE DEF q
      <4> QED BY <4>1, <4>2 DEF ToTell
    <3>4. ASSUME NEW z \in Zones, z # x, z # y PROVE Members(z)' = Members(z)
      <4>1. \A o \in Sessions : Erase(zoneIndex, y, s)[z][o] = zoneIndex[z][o]
        BY <3>4, EraseTyped, ZenonT(60) DEF TypeOK
      <4>2. Erase(zoneIndex, y, s) \in [Zones -> [Sessions -> Nat]]
        BY EraseTyped DEF TypeOK
      <4>3. \A o \in Sessions : zoneIndex'[z][o] = zoneIndex[z][o]
        BY <3>2, <3>4, <4>1, <4>2
      <4> QED BY <4>3 DEF Members
    <3>5. \A z \in Zones : Members(z)' = Members(z) \/ ToTell(s, z)'
      BY <3>3, <3>4, RosterAssumption
    <3>6. NotInZoneYet' /\ FreshList' /\ Told'
      BY <2>1, <3>2, <3>5, MovedIsTold
    <3> QED BY <1>0, <3>6 DEF TellInv
  <2>7. CASE Cleanup(s)
    <3> DEFINE p == playerId[s]
    <3>1. step[s] = "gone" /\ step'[s] = "tell" /\ view' = view
      BY <2>7 DEF Cleanup, Goto, TypeOK
    <3>2. ASSUME NEW z \in Zones PROVE Members(z)' = Members(z) \/ ToTell(s, z)'
      <4>1. CASE p # NoPlayer /\ entered[p] # NoEntry /\ entered[p].session = s
        <5>1. p \in Players /\ entered[p].zone \in Zones \cup {NoZone}
          BY <4>1 DEF TypeOK, Entry
        <5> PICK y \in Zones \cup {NoZone} : y = entered[p].zone
          BY <5>1
        <5>2. zoneIndex' = Erase(zoneIndex, y, s) /\ tells'[s] = OldZone(y)
          BY <2>7, <4>1 DEF Cleanup, Leave, TypeOK
        <5>3. CASE z = y
          BY <3>1, <5>2, <5>3, OldToTell DEF ToTell
        <5>4. CASE z # y
          <6>1. \A o \in Sessions : zoneIndex'[z][o] = zoneIndex[z][o]
            BY <5>2, <5>4, EraseTyped DEF TypeOK
          <6> QED BY <6>1 DEF Members
        <5> QED BY <5>3, <5>4
      <4>2. CASE ~(p # NoPlayer /\ entered[p] # NoEntry /\ entered[p].session = s)
        <5>1. zoneIndex' = zoneIndex
          BY <2>7, <4>2 DEF Cleanup, Leave
        <5> QED BY <5>1 DEF Members
      <4> QED BY <4>1, <4>2
    <3>3. NotInZoneYet' /\ FreshList' /\ Told'
      BY <2>1, <3>1, <3>2, MovedIsTold
    <3> QED BY <1>0, <3>3 DEF TellInv
  <2>8. CASE SnapshotZone(s) /\ tells[s] = <<>>
    <3>1. /\ step[s] = "tell" /\ step'[s] = "idle" /\ zoneIndex' = zoneIndex /\ view' = view
      BY <2>8 DEF SnapshotZone, End, Goto, tableVars, TypeOK
    <3>2. \A z \in Zones : Members(z)' = Members(z)
      BY <3>1 DEF Members
    <3>3. ASSUME NEW z \in Zones, NEW m \in Members(z) PROVE view[m] = Members(z)
      <4>1. \A o \in Sessions : ~ToTell(o, z) /\ ~Sending(o, z, m)
        <5>1. Len(tells[s]) = 0
          BY <2>8
        <5>2. ~ToTell(s, z) /\ ~Sending(s, z, m)
          BY <3>1, <5>1 DEF ToTell, Sending
        <5> QED BY <2>1, <5>2 DEF ToTell, Sending
      <4> QED BY <4>1 DEF TellInv, Told
    <3>4. Told'
      BY <3>1, <3>2, <3>3 DEF Told
    <3>5. NotInZoneYet' /\ FreshList'
      BY <2>1, <3>1 DEF NotInZoneYet, FreshList
    <3> QED BY <1>0, <3>4, <3>5 DEF TellInv
  <2>9. CASE SnapshotZone(s) /\ tells[s] # <<>>
    <3>0. tells[s] \in Seq(Zones) /\ Head(tells[s]) \in Zones
      BY <2>9, FirstToTell DEF TypeOK
    <3> PICK h \in Zones : h = Head(tells[s])
      BY <3>0
    <3>1. /\ step[s] = "tell" /\ step'[s] = "send" /\ zoneIndex' = zoneIndex /\ view' = view
          /\ list'[s] = Members(h) /\ to'[s] = Members(h) /\ tells'[s] = Tail(tells[s])
      BY <2>9 DEF SnapshotZone, Goto, tableVars, TypeOK
    <3>2. \A z \in Zones : Members(z)' = Members(z)
      BY <3>1 DEF Members
    <3>3. ASSUME NEW z \in Zones, NEW m \in Members(z)
          PROVE  view[m] = Members(z) \/ ToTell(s, z)' \/ Sending(s, z, m)'
      <4>1. view[m] = Members(z) \/ \E o \in Sessions : ToTell(o, z) \/ Sending(o, z, m)
        BY DEF TellInv, Told
      <4>2. \A o \in Sessions : ~Sending(o, z, m)
        BY <2>1, <3>1 DEF Sending
      <4>3. \A o \in Sessions : ToTell(o, z) => o = s
        BY <2>1 DEF ToTell
      <4>4. ToTell(s, z) => z = h \/ ToTell(s, z)'
        BY <2>9, <3>0, <3>1, FirstToTell DEF ToTell
      <4>5. z = h => Sending(s, z, m)'
        BY <3>1, <3>2 DEF Sending
      <4> QED BY <4>1, <4>2, <4>3, <4>4, <4>5
    <3>4. Told'
      BY <3>1, <3>2, <3>3 DEF Told
    <3>5. FreshList'
      <4>1. list'[s] = Members(h)' /\ to'[s] \subseteq Members(h)'
        BY <3>1, <3>2
      <4> QED BY <2>1, <4>1 DEF FreshList
    <3>6. NotInZoneYet'
      BY <2>1, <3>1 DEF NotInZoneYet
    <3> QED BY <1>0, <3>4, <3>5, <3>6 DEF TellInv
  <2>10. ASSUME NEW r \in Sessions, SendList(s, r) PROVE TellInv'
    <3>1. /\ step[s] = "send" /\ step' = step /\ tells' = tells /\ list' = list
          /\ zoneIndex' = zoneIndex /\ r \in to[s] /\ to'[s] = to[s] \ {r}
          /\ view'[r] = list[s] /\ \A m \in Sessions : m # r => view'[m] = view[m]
      BY <2>10 DEF SendList, tableVars, TypeOK
    <3>2. \A z \in Zones : Members(z)' = Members(z)
      BY <3>1 DEF Members
    <3>3. PICK y \in Zones : list[s] = Members(y) /\ to[s] \subseteq Members(y)
      BY <3>1 DEF TellInv, FreshList
    <3>4. ASSUME NEW z \in Zones, NEW m \in Members(z)
          PROVE  view'[m] = Members(z) \/ ToTell(s, z)' \/ Sending(s, z, m)'
      <4>1. m \in Sessions
        BY DEF Members
      <4>2. CASE m = r
        <5>1. z = y
          BY <3>1, <3>3, <4>1, <4>2, MembersAreHere
        <5> QED BY <3>1, <3>3, <4>2, <5>1
      <4>3. CASE m # r
        <5>1. view[m] = Members(z) \/ \E o \in Sessions : ToTell(o, z) \/ Sending(o, z, m)
          BY DEF TellInv, Told
        <5>2. \A o \in Sessions : ToTell(o, z) \/ Sending(o, z, m) => o = s
          BY <2>1 DEF ToTell, Sending
        <5>3. ToTell(s, z) => ToTell(s, z)'
          BY <3>1 DEF ToTell
        <5>4. Sending(s, z, m) => Sending(s, z, m)'
          BY <3>1, <3>2, <4>3 DEF Sending
        <5> QED BY <3>1, <4>1, <4>3, <5>1, <5>2, <5>3, <5>4
      <4> QED BY <4>2, <4>3
    <3>5. Told'
      BY <3>2, <3>4 DEF Told
    <3>6. FreshList'
      <4>1. list'[s] = Members(y)' /\ to'[s] \subseteq Members(y)'
        BY <3>1, <3>2, <3>3
      <4> QED BY <2>1, <4>1 DEF FreshList
    <3>7. NotInZoneYet'
      BY <2>1, <3>1 DEF NotInZoneYet
    <3> QED BY <1>0, <3>5, <3>6, <3>7 DEF TellInv
  <2>11. CASE ListSent(s)
    <3>1. /\ step[s] = "send" /\ step'[s] = "tell" /\ tells' = tells /\ to[s] = {}
          /\ zoneIndex' = zoneIndex /\ view' = view
      BY <2>11 DEF ListSent, Goto, tableVars, TypeOK
    <3>2. \A z \in Zones : Members(z)' = Members(z)
      BY <3>1 DEF Members
    <3>3. ASSUME NEW z \in Zones, NEW m \in Members(z)
          PROVE  view[m] = Members(z) \/ ToTell(s, z)'
      <4>1. view[m] = Members(z) \/ \E o \in Sessions : ToTell(o, z) \/ Sending(o, z, m)
        BY DEF TellInv, Told
      <4>2. \A o \in Sessions : ToTell(o, z) \/ Sending(o, z, m) => o = s
        BY <2>1 DEF ToTell, Sending
      <4>3. ~Sending(s, z, m)
        BY <3>1 DEF Sending
      <4>4. ToTell(s, z) => ToTell(s, z)'
        BY <3>1 DEF ToTell
      <4> QED BY <4>1, <4>2, <4>3, <4>4
    <3>4. Told'
      BY <3>1, <3>2, <3>3 DEF Told
    <3>5. NotInZoneYet' /\ FreshList'
      BY <2>1, <3>1 DEF NotInZoneYet, FreshList
    <3> QED BY <1>0, <3>4, <3>5 DEF TellInv
  <2> QED BY <1>4, <2>3, <2>4, <2>5, <2>6, <2>7, <2>8, <2>9, <2>10, <2>11 DEF JobStep
<1> QED BY <1>1, <1>2, <1>3, <1>4, StepKinds

-----------------------------------------------------------------------------
(* The theorems *)

LEMMA StutterKeeps ==
    ASSUME UNCHANGED vars
    PROVE  /\ TypeOK => TypeOK'
           /\ SessionsInv => SessionsInv'
           /\ RosterInv => RosterInv'
           /\ OneSpeaker => OneSpeaker'
           /\ IndexInv => IndexInv'
<1> USE DEF vars, tableVars, drainVars, sessionVars, jobVars, inputVars
<1>1. TypeOK => TypeOK'
  BY DEF TypeOK
<1>2. SessionsInv => SessionsInv'
  BY DEF SessionsInv, JobInv, GoneInv
<1>3. RosterInv => RosterInv'
  BY DEF RosterInv, LiveIsListed, NoGhostEntry
<1>4. OneSpeaker => OneSpeaker'
  BY DEF OneSpeaker, Names, Finished
<1>5. IndexInv => IndexInv'
  BY DEF IndexInv, Here
<1> QED BY <1>1, <1>2, <1>3, <1>4, <1>5

\* Whoever has entered and is not being closed is in the roster under its own name, and
\* a session that has finished leaves no entry behind, in whatever order closing, cleanup
\* and late frames run and whatever sessions a player has at a time (handle_enter,
\* on_session_gone, EntryTable::leave).
THEOREM RosterIsLiveAlways == Spec => []RosterIsLive
<1> DEFINE Inv == TypeOK /\ SessionsInv /\ RosterInv
<1>1. Init => Inv
  BY TypedInit, SessionsInit, RosterInit
<1>2. Inv /\ [Next]_vars => Inv'
  BY TypedStep, SessionsStep, RosterStep, StutterKeeps
<1>3. Inv => RosterIsLive
  BY DEF RosterIsLive, RosterInv
<1> QED BY <1>1, <1>2, <1>3, PTL DEF Spec

\* The buckets of the zone index and the entries are two pictures of one fact
\* (EntryTable::enter, move_zone, leave, erase_from_bucket), as long as a player comes
\* back only when every earlier session of theirs has finished; the counterexample TLC
\* finds without that is move_zone's lookup by player alone.
THEOREM IndexAgreesAlways ==
    ASSUME ~Overlap
    PROVE  Spec => []IndexAgrees
<1> DEFINE Inv == TypeOK /\ SessionsInv /\ RosterInv /\ OneSpeaker /\ IndexInv
<1>1. Init => Inv
  BY TypedInit, SessionsInit, RosterInit, OneSpeakerInit, IndexInit
<1>2. Inv /\ [Next]_vars => Inv'
  BY TypedStep, SessionsStep, RosterStep, OneSpeakerStep, IndexStep, StutterKeeps
<1>3. Inv => IndexAgrees
  BY EntriesAreHere
<1> QED BY <1>1, <1>2, <1>3, PTL DEF Spec

\* When everything has been processed, the members of a zone have been sent the same
\* list and it is the zone's (handle_join_zone, on_session_gone,
\* broadcast_zone_members), if one worker runs the jobs and a player comes back only
\* when every earlier session has finished; with two workers TLC finds lists that
\* overtake each other.
THEOREM ListsConvergeAlways ==
    ASSUME ~Overlap, Workers = 1
    PROVE  Spec => []ListsConverge
<1> DEFINE Inv == TypeOK /\ SessionsInv /\ RosterInv /\ OneSpeaker /\ IndexInv /\ TellInv
<1>1. Init => Inv
  BY TypedInit, SessionsInit, RosterInit, OneSpeakerInit, IndexInit, TellInit
<1>2. Inv /\ Next => Inv'
  BY TypedStep, SessionsStep, RosterStep, OneSpeakerStep, IndexStep, TellStep
<1>3. Inv /\ UNCHANGED vars => Inv'
  <2>1. UNCHANGED vars => /\ zoneIndex' = zoneIndex /\ entered' = entered
                          /\ playerId' = playerId /\ UNCHANGED jobVars /\ view' = view
    BY DEF vars, tableVars, sessionVars
  <2>2. TellInv /\ UNCHANGED vars => TellInv'
    BY <2>1, TellKept DEF TellInv, OneJob, jobVars
  <2> QED BY <2>2, StutterKeeps
<1>4. Inv => ListsConverge
  BY AllTold DEF TellInv, ListsConverge, Settled
<1> QED BY <1>1, <1>2, <1>3, <1>4, PTL DEF Spec
=============================================================================
