------------------------------- MODULE Trade -------------------------------
(***************************************************************************)
(* Trade windows between two sessions: world/trade.h and the trade         *)
(* handlers of app/frame_router.cpp.                                       *)
(*                                                                         *)
(* Two sessions in a trade share one Trade object, each through its own    *)
(* atomic<shared_ptr<Trade>>.  A handler runs on the serial queue of its   *)
(* session (module SerialQueue), so every session is one process; it loads *)
(* its own pointer without a lock, finds and holds the partner through the *)
(* roster, locks both game_mutexes (L2) and only then looks whether its    *)
(* own trade is still the one it loaded.  A section under both locks is    *)
(* one action.  What a handler tells the clients goes out after the        *)
(* unlock, while it still holds the partner (label "send").                *)
(*                                                                         *)
(* All sessions are in one zone and belong to different players.  What the *)
(* messages say changes nothing here and is left out, and so is a          *)
(* confirmation that finds no database connection.                         *)
(***************************************************************************)
EXTENDS Integers, FiniteSets, Sequences

CONSTANTS
    Sessions,   \* the connected sessions
    Leavers,    \* those that may disconnect
    Offers,     \* what a side may put into its slot
    NoOffer,    \* the empty slot
    MaxTrades,  \* bound: trades begun (g_next_trade_id)
    None        \* a null pointer

ASSUME SessionsAssumption == IsFiniteSet(Sessions)
ASSUME NoOfferAssumption == NoOffer \in Offers
ASSUME MaxTradesAssumption == MaxTrades \in Nat
ASSUME NoneAssumption == None \notin Sessions /\ None \notin 0..MaxTrades

Trades == 1..MaxTrades
Sides == {"a", "b"}

VARIABLES
    listed,    \* the sessions in the roster (EntryTable::entered_)
    trade,     \* Session::trade of each session
    trades,    \* the Trade objects, and what they hold
    next,      \* g_next_trade_id
    pc,        \* where each session's handler is
    op,        \* what it was asked to do
    loaded,    \* the trade it loaded before it locked anything
    peer,      \* the session it holds
    holds,     \* the holds that trade handlers have on each session
    agreed,    \* history: the offers each side confirmed
    swapped    \* history: how often DbConn::trade was called for a trade

vars == <<listed, trade, trades, next, pc, op, loaded, peer, holds, agreed, swapped>>

history == <<agreed, swapped>>

Unused == [a |-> None, b |-> None, open |-> FALSE,
           offer |-> [x \in Sides |-> NoOffer],
           confirm |-> [x \in Sides |-> FALSE]]

TradeObjects ==
    [a : Sessions \cup {None}, b : Sessions \cup {None}, open : BOOLEAN,
     offer : [Sides -> Offers], confirm : [Sides -> BOOLEAN]]

SideOf(t, s) == IF trades[t].a = s THEN "a" ELSE "b"
PeerOf(t, s) == IF trades[t].a = s THEN trades[t].b ELSE trades[t].a

NoOperation == [kind |-> "none"]
Operations == {NoOperation, [kind |-> "request"], [kind |-> "cancel"],
               [kind |-> "gone"]}
    \cup [kind : {"answer"}, accept : BOOLEAN]
    \cup [kind : {"set"}, offer : Offers]
    \cup [kind : {"confirm"}, on : BOOLEAN]

Init ==
    /\ listed = Sessions
    /\ trade = [s \in Sessions |-> None]
    /\ trades = [t \in Trades |-> Unused]
    /\ next = 1
    /\ pc = [s \in Sessions |-> "idle"]
    /\ op = [s \in Sessions |-> NoOperation]
    /\ loaded = [s \in Sessions |-> None]
    /\ peer = [s \in Sessions |-> None]
    /\ holds = [s \in Sessions |-> 0]
    /\ agreed = [t \in Trades |-> [x \in Sides |-> None]]
    /\ swapped = [t \in Trades |-> 0]

-----------------------------------------------------------------------------
(* Steps that several handlers share.                                      *)

Goto(s, label) == pc' = [pc EXCEPT ![s] = label]

\* The handler ends: it gives its hold back; a closed session ran its last.
Finish(s) ==
    /\ holds' = IF peer[s] = None THEN holds
                                  ELSE [holds EXCEPT ![peer[s]] = @ - 1]
    /\ peer' = [peer EXCEPT ![s] = None]
    /\ loaded' = [loaded EXCEPT ![s] = None]
    /\ op' = [op EXCEPT ![s] = NoOperation]
    /\ Goto(s, IF op[s].kind = "gone" THEN "over" ELSE "idle")

\* The handler goes on.
Then(s, label) == Goto(s, label) /\ UNCHANGED <<op, loaded, peer, holds>>

\* Everything is sent: the handler is over.
Sent(s) ==
    /\ pc[s] = "send"
    /\ Finish(s)
    /\ UNCHANGED <<listed, trade, trades, next, history>>

\* Every later handler: load the own trade; without one there is nothing
\* to do.
Load(s, operation) ==
    /\ pc[s] = "idle"
    /\ trade[s] # None
    /\ op' = [op EXCEPT ![s] = operation]
    /\ loaded' = [loaded EXCEPT ![s] = trade[s]]
    /\ Goto(s, "find")
    /\ UNCHANGED <<peer, holds>>

\* EntryTable::find_acquire_by_session_id on peer_sid_of.
Find(s) ==
    /\ pc[s] = "find"
    /\ LET p == PeerOf(loaded[s], s) IN
       IF p \in listed
       THEN /\ peer' = [peer EXCEPT ![s] = p]
            /\ holds' = [holds EXCEPT ![p] = @ + 1]
            /\ Goto(s, "lock")
       ELSE /\ Goto(s, "alone")
            /\ UNCHANGED <<peer, holds>>
    /\ UNCHANGED <<listed, trade, trades, next, op, loaded, history>>

\* Mutant: Without a partner the handler gives up before it clears anything.
ClearOwnNot(s) ==
    /\ pc[s] = "alone"
    /\ Finish(s)
    /\ UNCHANGED <<listed, trade, trades, next, history>>

\* The partner is not in the roster: the own pointer is cleared, under the
\* own lock alone.
ClearOwn(s) ==
    /\ pc[s] = "alone"
    /\ trade' = IF trade[s] = loaded[s] THEN [trade EXCEPT ![s] = None] ELSE trade
    /\ Finish(s)
    /\ UNCHANGED <<listed, trades, next, history>>

\* Under both locks: is the own trade still the one that was loaded?
Locked(s, kind) == pc[s] = "lock" /\ op[s].kind = kind
Current(s) == trade[s] = loaded[s]

\* The window goes away on both sides.
ClearBoth(s) == trade' = [trade EXCEPT ![s] = None, ![peer[s]] = None]

-----------------------------------------------------------------------------
(* handle_trade_req.                                                       *)

StartRequest(s, p) ==
    /\ pc[s] = "idle"
    /\ trade[s] = None
    /\ p \in listed \ {s}
    /\ op' = [op EXCEPT ![s] = [kind |-> "request"]]
    /\ peer' = [peer EXCEPT ![s] = p]
    /\ holds' = [holds EXCEPT ![p] = @ + 1]
    /\ Goto(s, "look")
    /\ UNCHANGED <<listed, trade, trades, next, loaded, history>>

\* Mutant: The early return of the busy check keeps its hold.
LookLeaks(s) ==
    /\ pc[s] = "look"
    /\ IF trade[peer[s]] = None
       THEN Then(s, "lock")
       ELSE /\ peer' = [peer EXCEPT ![s] = None]
            /\ op' = [op EXCEPT ![s] = NoOperation]
            /\ Goto(s, "idle")
            /\ UNCHANGED <<loaded, holds>>
    /\ UNCHANGED <<listed, trade, trades, next, history>>

\* The check before the locks.
Look(s) ==
    /\ pc[s] = "look"
    /\ IF trade[peer[s]] = None THEN Then(s, "lock") ELSE Finish(s)
    /\ UNCHANGED <<listed, trade, trades, next, history>>

\* Neither is in a trade; after MaxTrades trades every request is refused.
Free(s) == trade[s] = None /\ trade[peer[s]] = None /\ next \in Trades

Request(s) ==
    /\ Locked(s, "request")
    /\ \/ /\ Free(s)
          /\ trades' = [trades EXCEPT ![next] =
                          [Unused EXCEPT !.a = s, !.b = peer[s]]]
          /\ trade' = [trade EXCEPT ![s] = next, ![peer[s]] = next]
          /\ next' = next + 1
          /\ Then(s, "send")
       \/ /\ ~Free(s)
          /\ Finish(s)
          /\ UNCHANGED <<trade, trades, next>>
    /\ UNCHANGED <<listed, history>>

-----------------------------------------------------------------------------
(* handle_trade_answer.                                                    *)

StartAnswer(s, accept) ==
    /\ Load(s, [kind |-> "answer", accept |-> accept])
    /\ UNCHANGED <<listed, trade, trades, next, history>>

\* Only the side that was asked may answer, and only once.
Answer(s) ==
    /\ Locked(s, "answer")
    /\ LET t == loaded[s]
           mine == Current(s) /\ ~trades[t].open /\ trades[t].b = s
       IN  \/ /\ mine /\ op[s].accept
              /\ trades' = [trades EXCEPT ![t].open = TRUE]
              /\ Then(s, "send")
              /\ UNCHANGED trade
           \/ /\ mine /\ ~op[s].accept
              /\ ClearBoth(s)
              /\ Then(s, "send")
              /\ UNCHANGED trades
           \/ /\ ~mine
              /\ Finish(s)
              /\ UNCHANGED <<trade, trades>>
    /\ UNCHANGED <<listed, history, next>>

-----------------------------------------------------------------------------
(* handle_trade_set_item.                                                  *)

StartSetItem(s, offer) ==
    /\ Load(s, [kind |-> "set", offer |-> offer])
    /\ UNCHANGED <<listed, trade, trades, next, history>>

ResetConfirm == [x \in Sides |-> FALSE]

\* Mutant: A changed slot takes back only the confirmation of the side it is on.
SetItemResetsOwn(s) ==
    /\ Locked(s, "set")
    /\ LET t == loaded[s]
           x == SideOf(t, s)
       IN  \/ /\ Current(s) /\ trades[t].open
              /\ trades' = [trades EXCEPT ![t].offer[x] = op[s].offer,
                                          ![t].confirm[x] = FALSE]
              /\ Then(s, "send")
           \/ /\ ~(Current(s) /\ trades[t].open)
              /\ Finish(s)
              /\ UNCHANGED trades
    /\ UNCHANGED <<listed, trade, history, next>>

SetItem(s) ==
    /\ Locked(s, "set")
    /\ LET t == loaded[s]
           offers == [trades[t].offer EXCEPT ![SideOf(t, s)] = op[s].offer]
       IN  \/ /\ Current(s) /\ trades[t].open
              /\ trades' = [trades EXCEPT ![t].offer = offers,
                                          ![t].confirm = ResetConfirm]
              /\ Then(s, "send")
           \/ /\ ~(Current(s) /\ trades[t].open)
              /\ Finish(s)
              /\ UNCHANGED trades
    /\ UNCHANGED <<listed, trade, history, next>>

-----------------------------------------------------------------------------
(* handle_trade_confirm.                                                   *)

StartConfirm(s, on) ==
    /\ Load(s, [kind |-> "confirm", on |-> on])
    /\ UNCHANGED <<listed, trade, trades, next, history>>

Confirmed(t, x, on) == [trades[t].confirm EXCEPT ![x] = on]

\* Mutant: The second confirmation ends the trade on its own side only.
ConfirmClearsOwn(s) ==
    /\ Locked(s, "confirm")
    /\ LET t == loaded[s]
           x == SideOf(t, s)
       IN  \/ /\ Current(s) /\ trades[t].open
              /\ trades' = [trades EXCEPT ![t].confirm = Confirmed(t, x, op[s].on)]
              /\ agreed' = [agreed EXCEPT ![t][x] =
                              IF op[s].on THEN trades[t].offer ELSE None]
              /\ IF \A y \in Sides : Confirmed(t, x, op[s].on)[y]
                 THEN /\ trade' = [trade EXCEPT ![s] = None]
                      /\ Then(s, "swap")
                 ELSE /\ UNCHANGED trade
                      /\ Then(s, "send")
           \/ /\ ~(Current(s) /\ trades[t].open)
              /\ Finish(s)
              /\ UNCHANGED <<trade, trades, agreed>>
    /\ UNCHANGED <<listed, swapped, next>>

\* The second confirmation ends the trade and goes on to the database.
Confirm(s) ==
    /\ Locked(s, "confirm")
    /\ LET t == loaded[s]
           x == SideOf(t, s)
       IN  \/ /\ Current(s) /\ trades[t].open
              /\ trades' = [trades EXCEPT ![t].confirm = Confirmed(t, x, op[s].on)]
              /\ agreed' = [agreed EXCEPT ![t][x] =
                              IF op[s].on THEN trades[t].offer ELSE None]
              /\ IF \A y \in Sides : Confirmed(t, x, op[s].on)[y]
                 THEN /\ ClearBoth(s)
                      /\ Then(s, "swap")
                 ELSE /\ UNCHANGED trade
                      /\ Then(s, "send")
           \/ /\ ~(Current(s) /\ trades[t].open)
              /\ Finish(s)
              /\ UNCHANGED <<trade, trades, agreed>>
    /\ UNCHANGED <<listed, swapped, next>>

\* DbConn::trade, outside every lock; the result goes to both sides.
Swap(s) ==
    /\ pc[s] = "swap"
    /\ swapped' = [swapped EXCEPT ![loaded[s]] = @ + 1]
    /\ Then(s, "send")
    /\ UNCHANGED <<listed, trade, trades, next, agreed>>

-----------------------------------------------------------------------------
(* clear_trade: cancelling, moving to another zone, and the cleanup of a   *)
(* closed session.                                                         *)

StartCancel(s) ==
    /\ Load(s, [kind |-> "cancel"])
    /\ UNCHANGED <<listed, trade, trades, next, history>>

\* on_session_gone: the roster first.
Leave(s) ==
    /\ s \in Leavers \cap listed
    /\ pc[s] = "idle"
    /\ listed' = listed \ {s}
    /\ op' = [op EXCEPT ![s] = [kind |-> "gone"]]
    /\ Goto(s, "left")
    /\ UNCHANGED <<trade, trades, next, loaded, peer, holds, history>>

\* ... then its trade.
LoadGone(s) ==
    /\ pc[s] = "left"
    /\ IF trade[s] = None
       THEN Finish(s)
       ELSE /\ loaded' = [loaded EXCEPT ![s] = trade[s]]
            /\ Goto(s, "find")
            /\ UNCHANGED <<op, peer, holds>>
    /\ UNCHANGED <<listed, trade, trades, next, history>>

\* Mutant: clear_trade gives the hold back and returns the partner all the same.
ClearTradeReturnsPeer(s) ==
    /\ Locked(s, "cancel") \/ Locked(s, "gone")
    /\ \/ /\ Current(s)
          /\ ClearBoth(s)
          /\ Then(s, "send")
       \/ /\ ~Current(s)
          /\ holds' = [holds EXCEPT ![peer[s]] = @ - 1]
          /\ Goto(s, "send")
          /\ UNCHANGED <<trade, op, loaded, peer>>
    /\ UNCHANGED <<listed, trades, next, history>>

\* Mutant: clear_trade does not look again under the locks.
ClearTradeBlind(s) ==
    /\ Locked(s, "cancel") \/ Locked(s, "gone")
    /\ ClearBoth(s)
    /\ Then(s, "send")
    /\ UNCHANGED <<listed, trades, next, history>>

ClearTrade(s) ==
    /\ Locked(s, "cancel") \/ Locked(s, "gone")
    /\ \/ /\ Current(s)
          /\ ClearBoth(s)
          /\ Then(s, "send")
       \/ /\ ~Current(s)
          /\ Finish(s)
          /\ UNCHANGED trade
    /\ UNCHANGED <<listed, trades, next, history>>

-----------------------------------------------------------------------------

Step(s) ==
    \/ Sent(s) \/ Find(s) \/ ClearOwn(s)
    \/ Look(s) \/ Request(s) \/ Answer(s) \/ SetItem(s)
    \/ Confirm(s) \/ Swap(s) \/ LoadGone(s) \/ ClearTrade(s)

Frame(s) ==
    \/ \E p \in Sessions : StartRequest(s, p)
    \/ \E accept \in BOOLEAN : StartAnswer(s, accept)
    \/ \E offer \in Offers : StartSetItem(s, offer)
    \/ \E on \in BOOLEAN : StartConfirm(s, on)
    \/ StartCancel(s)

Next == \E s \in Sessions : Frame(s) \/ Step(s) \/ Leave(s)

Spec == Init /\ [][Next]_vars

(* The worker that has the execution right of a session runs its handler   *)
(* to the end (SerialQueue, NoStarvation); what clients do is up to them.  *)
Fairness == \A s \in Sessions : WF_vars(Step(s))

FairSpec == Spec /\ Fairness

-----------------------------------------------------------------------------
(* Properties.                                                             *)

\* Every variable has its type; in particular no hold is given back twice.
TypeOK ==
    /\ listed \subseteq Sessions
    /\ trade \in [Sessions -> Trades \cup {None}]
    /\ trades \in [Trades -> TradeObjects]
    /\ next \in 1..MaxTrades + 1
    /\ pc \in [Sessions -> {"idle", "look", "find", "lock", "alone", "send",
                            "swap", "left", "over"}]
    /\ op \in [Sessions -> Operations]
    /\ loaded \in [Sessions -> Trades \cup {None}]
    /\ peer \in [Sessions -> Sessions \cup {None}]
    /\ holds \in [Sessions -> Nat]
    /\ agreed \in [Trades -> [Sides -> [Sides -> Offers] \cup {None}]]
    /\ swapped \in [Trades -> Nat]

\* Whatever way a handler ends, the hold it took on its partner is given
\* back once (the returns of frame_router.cpp:635-1036).
HoldsBalanced ==
    \A p \in Sessions : holds[p] = Cardinality({s \in Sessions : peer[s] = p})

\* The database is asked only for what each side confirmed while the slots
\* were as they are in the order: a slot that changes takes both
\* confirmations back (world/trade.h:82-86).
SwapAsAgreed ==
    \A s \in Sessions : pc[s] = "swap" =>
        \A x \in Sides : agreed[loaded[s]][x] = trades[loaded[s]].offer

\* A trade goes to the database at most once, whoever confirms again or
\* late (frame_router.cpp:961-969).
SwapOnce == \A t \in Trades : swapped[t] <= 1

\* Two listed sessions never disagree on whether they trade with each
\* other.  docs/CODING_RULES.md:223 says that the revalidation is there
\* lest a trade that the partner has begun meanwhile is cleared.
OneWindow ==
    \A s \in listed : trade[s] # None =>
        LET p == PeerOf(trade[s], s) IN p \in listed => trade[p] = trade[s]

\* Once the cleanup of a closed session is over nobody is in a trade with
\* it (frame_router.cpp:1343-1345).
NoDeadWindow ==
    \A s \in listed : trade[s] # None => pc[PeerOf(trade[s], s)] # "over"

\* A handler that cancels, or that starts looking for a partner who has
\* left, gets its session out of that trade.
EndsWindow ==
    \A s \in Sessions, t \in Trades :
        ( /\ trade[s] = t /\ loaded[s] = t
          /\ \/ op[s].kind \in {"cancel", "gone"}
             \/ pc[s] = "find" /\ PeerOf(t, s) \notin listed )
        ~> (trade[s] # t)

=============================================================================
