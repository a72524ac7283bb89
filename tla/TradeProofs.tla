---------------------------- MODULE TradeProofs ----------------------------
(***************************************************************************)
(* TLAPS proofs about Trade, for any finite set of sessions, any offers,   *)
(* any number of trades and any set of sessions that may leave.            *)
(***************************************************************************)
EXTENDS Trade, FiniteSetTheorems, TLAPS

\* Session s is one of the two sides of trade t.
Party(t, s) == trades[t].a = s \/ trades[t].b = s

\* A trade that has begun is between two different sessions.
Begun ==
    \A t \in Trades : t < next =>
        /\ trades[t].a \in Sessions /\ trades[t].b \in Sessions
        /\ trades[t].a # trades[t].b

\* A session is in, or has loaded, only trades that it is a side of.
OwnTrades ==
    \A s \in Sessions :
        /\ trade[s] # None => trade[s] < next /\ Party(trade[s], s)
        /\ loaded[s] # None => loaded[s] < next /\ Party(loaded[s], s)

\* What a handler has in its hands at each of its labels.
Control ==
    \A s \in Sessions :
        /\ pc[s] \in {"find", "alone", "swap"} => loaded[s] # None
        /\ pc[s] \in {"idle", "find", "alone", "left", "over"} => peer[s] = None
        /\ pc[s] \in {"look", "lock", "swap"} => peer[s] # None /\ peer[s] # s
        /\ pc[s] = "look" => op[s].kind = "request"
        /\ pc[s] = "lock" /\ op[s].kind # "request" =>
              loaded[s] # None /\ peer[s] = PeerOf(loaded[s], s)

Sound == TypeOK /\ HoldsBalanced /\ Begun /\ OwnTrades /\ Control

\* Nobody is in trade t.
Cleared(t) == \A r \in Sessions : trade[r] # t

\* A confirmation that stands is for the slots as they are.
StandingAgreed ==
    \A t \in Trades, x \in Sides :
        trades[t].confirm[x] => agreed[t][x] = trades[t].offer

\* Before the database is asked both confirmations stand, nobody is in the
\* trade and nobody else asks for it.
SwapReady ==
    \A s \in Sessions : pc[s] = "swap" =>
        /\ Cleared(loaded[s])
        /\ \A x \in Sides : trades[loaded[s]].confirm[x]
        /\ swapped[loaded[s]] = 0
        /\ \A r \in Sessions \ {s} : pc[r] = "swap" => loaded[r] # loaded[s]

\* A trade the database was asked for is over.
SwapDone ==
    \A t \in Trades : swapped[t] # 0 =>
        /\ t < next /\ swapped[t] = 1 /\ Cleared(t)
        /\ \A s \in Sessions : pc[s] = "swap" => loaded[s] # t

Settling == StandingAgreed /\ SwapReady /\ SwapDone

\* While nobody leaves, who is in a trade has a partner who is in it too.
Mutual ==
    /\ listed = Sessions
    /\ \A s \in Sessions :
          /\ pc[s] # "alone"
          /\ trade[s] # None => trade[PeerOf(trade[s], s)] = trade[s]

-----------------------------------------------------------------------------
(* Holds *)

Holders(p) == {s \in Sessions : peer[s] = p}

LEMMA HoldersFinite == \A p : IsFiniteSet(Holders(p))
BY SessionsAssumption, FS_Subset DEF Holders

\* A session on which a handler has a hold is counted.
LEMMA HeldIsCounted ==
    ASSUME TypeOK, HoldsBalanced, NEW s \in Sessions, peer[s] # None
    PROVE  peer[s] \in Sessions /\ holds[peer[s]] \in Nat \ {0}
<1>1. peer[s] \in Sessions
  BY DEF TypeOK
<1>2. s \in Holders(peer[s])
  BY DEF Holders
<1>3. Cardinality(Holders(peer[s])) # 0
  BY <1>2, HoldersFinite, FS_EmptySet
<1>4. holds[peer[s]] = Cardinality(Holders(peer[s]))
  BY <1>1 DEF HoldsBalanced, Holders
<1> QED BY <1>1, <1>3, <1>4 DEF TypeOK

\* Finding a partner adds one hold and one holder.
LEMMA TakingHold ==
    ASSUME TypeOK, HoldsBalanced, NEW s \in Sessions, NEW p \in Sessions,
           peer[s] = None, peer' = [peer EXCEPT ![s] = p],
           holds' = [holds EXCEPT ![p] = @ + 1]
    PROVE  /\ HoldsBalanced' /\ holds' \in [Sessions -> Nat]
           /\ peer' \in [Sessions -> Sessions \cup {None}]
<1> USE NoneAssumption
<1>1. holds' \in [Sessions -> Nat] /\ peer' \in [Sessions -> Sessions \cup {None}]
  BY DEF TypeOK
<1>2. ASSUME NEW q \in Sessions PROVE holds'[q] = Cardinality({r \in Sessions : peer'[r] = q})
  <2>1. CASE q = p
    <3>1. {r \in Sessions : peer'[r] = q} = Holders(q) \cup {s}
      BY <2>1 DEF TypeOK, Holders
    <3>2. s \notin Holders(q)
      BY DEF Holders
    <3>3. Cardinality(Holders(q) \cup {s}) = Cardinality(Holders(q)) + 1
      BY <3>2, HoldersFinite, FS_AddElement
    <3> QED BY <2>1, <3>1, <3>3 DEF TypeOK, HoldsBalanced, Holders
  <2>2. CASE q # p
    <3>1. {r \in Sessions : peer'[r] = q} = Holders(q)
      BY <2>2 DEF TypeOK, Holders
    <3> QED BY <2>2, <3>1 DEF TypeOK, HoldsBalanced, Holders
  <2> QED BY <2>1, <2>2
<1> QED BY <1>1, <1>2 DEF HoldsBalanced

\* A handler that ends gives its hold back.
LEMMA GivingHold ==
    ASSUME TypeOK, HoldsBalanced, NEW s \in Sessions, Finish(s)
    PROVE  /\ HoldsBalanced' /\ holds' \in [Sessions -> Nat]
           /\ peer' \in [Sessions -> Sessions \cup {None}]
<1> USE NoneAssumption
<1>1. peer' = [peer EXCEPT ![s] = None] /\ peer' \in [Sessions -> Sessions \cup {None}]
  BY DEF TypeOK, Finish
<1>2. CASE peer[s] = None
  <2>1. holds' = holds /\ peer' = peer
    BY <1>2, <1>1 DEF Finish, TypeOK
  <2> QED BY <2>1 DEF HoldsBalanced, TypeOK
<1>3. CASE peer[s] # None
  <2> DEFINE p == peer[s]
  <2>1. p \in Sessions /\ holds[p] \in Nat \ {0} /\ holds' = [holds EXCEPT ![p] = @ - 1]
    BY <1>3, HeldIsCounted DEF Finish
  <2> HIDE DEF p
  <2>2. holds' \in [Sessions -> Nat]
    <3>1. holds[p] - 1 \in Nat
      BY <2>1
    <3> QED BY <2>1, <3>1 DEF TypeOK
  <2>3. ASSUME NEW q \in Sessions PROVE holds'[q] = Cardinality({r \in Sessions : peer'[r] = q})
    <3>1. CASE q = p
      <4>1. {r \in Sessions : peer'[r] = q} = Holders(q) \ {s}
        BY <3>1, <1>1, <1>3 DEF TypeOK, Holders, p
      <4>2. s \in Holders(q)
        BY <3>1 DEF Holders, p
      <4>3. Cardinality(Holders(q) \ {s}) = Cardinality(Holders(q)) - 1
        BY <4>2, HoldersFinite, FS_RemoveElement
      <4>4. holds[q] = Cardinality(Holders(q))
        BY DEF HoldsBalanced, Holders
      <4>5. holds'[q] = holds[q] - 1
        BY <2>1, <3>1 DEF TypeOK
      <4> QED BY <4>1, <4>3, <4>4, <4>5
    <3>2. CASE q # p
      <4>1. {r \in Sessions : peer'[r] = q} = Holders(q)
        BY <3>2, <1>1 DEF TypeOK, Holders, p
      <4> QED BY <2>1, <3>2, <4>1 DEF TypeOK, HoldsBalanced, Holders
    <3> QED BY <3>1, <3>2
  <2> QED BY <1>1, <2>2, <2>3 DEF HoldsBalanced
<1> QED BY <1>2, <1>3

-----------------------------------------------------------------------------
(* Type correctness *)

\* What an operation carries.
LEMMA OperationFields ==
    \A o \in Operations :
        /\ o.kind = "set" => o.offer \in Offers
        /\ o.kind = "confirm" => o.on \in BOOLEAN
BY SMT DEF Operations, NoOperation

\* A trade whose confirmations, and whose slots, change is still a trade.
LEMMA ChangedConfirm ==
    ASSUME NEW r \in TradeObjects, NEW confirm \in [Sides -> BOOLEAN]
    PROVE  [r EXCEPT !.confirm = confirm] \in TradeObjects
BY DEF TradeObjects

LEMMA ChangedOffer ==
    ASSUME NEW r \in TradeObjects, NEW offers \in [Sides -> Offers],
           NEW confirm \in [Sides -> BOOLEAN]
    PROVE  [r EXCEPT !.offer = offers, !.confirm = confirm] \in TradeObjects
BY DEF TradeObjects

LEMMA NewTrade ==
    ASSUME NEW s \in Sessions, NEW p \in Sessions
    PROVE  [Unused EXCEPT !.a = s, !.b = p] \in TradeObjects
BY NoOfferAssumption DEF TradeObjects, Unused

Labels == {"idle", "look", "find", "lock", "alone", "send", "swap", "left", "over"}

\* A handler that ends keeps the types of what belongs to it.
LEMMA FinishTyped ==
    ASSUME TypeOK, HoldsBalanced, NEW s \in Sessions, Finish(s)
    PROVE  /\ pc' \in [Sessions -> Labels] /\ op' \in [Sessions -> Operations]
           /\ loaded' \in [Sessions -> Trades \cup {None}]
           /\ peer' \in [Sessions -> Sessions \cup {None}]
           /\ holds' \in [Sessions -> Nat] /\ HoldsBalanced'
<1>1. NoOperation \in Operations
  BY DEF Operations
<1>2. /\ pc' \in [Sessions -> Labels] /\ op' \in [Sessions -> Operations]
      /\ loaded' \in [Sessions -> Trades \cup {None}]
  BY <1>1 DEF TypeOK, Finish, Goto, Labels
<1> QED BY <1>2, GivingHold

LEMMA SoundInit == Init => Sound
<1> SUFFICES ASSUME Init PROVE Sound
  OBVIOUS
<1> USE NoneAssumption, MaxTradesAssumption, NoOfferAssumption DEF Init
<1>1. TypeOK
  <2>1. trades \in [Trades -> TradeObjects]
    BY DEF Unused, TradeObjects
  <2>2. op \in [Sessions -> Operations]
    BY DEF Operations
  <2>3. agreed \in [Trades -> [Sides -> [Sides -> Offers] \cup {None}]]
    OBVIOUS
  <2> QED BY <2>1, <2>2, <2>3 DEF TypeOK
<1>2. HoldsBalanced
  <2>1. \A p \in Sessions : {s \in Sessions : peer[s] = p} = {}
    OBVIOUS
  <2> QED BY <2>1, FS_EmptySet DEF HoldsBalanced
<1>3. Begun /\ OwnTrades /\ Control
  BY DEF Begun, OwnTrades, Control, Trades
<1> QED BY <1>1, <1>2, <1>3 DEF Sound

\* A handler that only goes on keeps the types of what belongs to it.
LEMMA ThenTyped ==
    ASSUME TypeOK, HoldsBalanced, NEW s \in Sessions, NEW label \in Labels,
           Then(s, label)
    PROVE  /\ pc' \in [Sessions -> Labels] /\ op' \in [Sessions -> Operations]
           /\ loaded' \in [Sessions -> Trades \cup {None}]
           /\ peer' \in [Sessions -> Sessions \cup {None}]
           /\ holds' \in [Sessions -> Nat] /\ HoldsBalanced'
<1>1. pc' \in [Sessions -> Labels]
  BY DEF TypeOK, Then, Goto, Labels
<1> QED BY <1>1 DEF TypeOK, Then, HoldsBalanced

\* What belongs to the handlers, typed.
HandlersTyped ==
    /\ pc \in [Sessions -> Labels] /\ op \in [Sessions -> Operations]
    /\ loaded \in [Sessions -> Trades \cup {None}]
    /\ peer \in [Sessions -> Sessions \cup {None}]
    /\ holds \in [Sessions -> Nat] /\ HoldsBalanced

\* The two sides of a trade that is cleared.
LEMMA ClearedTyped ==
    ASSUME TypeOK, NEW s \in Sessions, ClearBoth(s)
    PROVE  trade' \in [Sessions -> Trades \cup {None}]
BY DEF TypeOK, ClearBoth

LEMMA FrameTyped ==
    ASSUME Sound, NEW s \in Sessions, Frame(s)
    PROVE  TypeOK' /\ HoldsBalanced'
<1> USE NoneAssumption DEF Sound
<1>1. CASE \E p \in Sessions : StartRequest(s, p)
  <2> PICK p \in Sessions : StartRequest(s, p)
    BY <1>1
  <2>1. peer[s] = None
    BY DEF StartRequest, Control
  <2>2. HoldsBalanced' /\ holds' \in [Sessions -> Nat]
        /\ peer' \in [Sessions -> Sessions \cup {None}]
    BY <2>1, TakingHold DEF StartRequest
  <2>3. op' \in [Sessions -> Operations]
    BY DEF StartRequest, TypeOK, Operations
  <2>4. pc' \in [Sessions -> Labels]
    BY DEF StartRequest, TypeOK, Goto, Labels
  <2> QED BY <2>2, <2>3, <2>4 DEF StartRequest, TypeOK, history, Labels
<1>2. ASSUME NEW o \in Operations, Load(s, o), UNCHANGED <<listed, trade, trades, next, history>>
      PROVE  TypeOK' /\ HoldsBalanced'
  <2>1. op' \in [Sessions -> Operations] /\ loaded' \in [Sessions -> Trades \cup {None}]
    BY <1>2 DEF Load, TypeOK
  <2>2. pc' \in [Sessions -> Labels]
    BY <1>2 DEF Load, TypeOK, Goto, Labels
  <2> QED BY <1>2, <2>1, <2>2 DEF Load, TypeOK, HoldsBalanced, history, Labels
<1>3. CASE \E accept \in BOOLEAN : StartAnswer(s, accept)
  BY <1>2, <1>3 DEF StartAnswer, Operations
<1>4. CASE \E offer \in Offers : StartSetItem(s, offer)
  BY <1>2, <1>4 DEF StartSetItem, Operations
<1>5. CASE \E on \in BOOLEAN : StartConfirm(s, on)
  BY <1>2, <1>5 DEF StartConfirm, Operations
<1>6. CASE StartCancel(s)
  BY <1>2, <1>6 DEF StartCancel, Operations
<1> QED BY <1>1, <1>3, <1>4, <1>5, <1>6 DEF Frame

LEMMA StepTyped ==
    ASSUME Sound, NEW s \in Sessions, Step(s)
    PROVE  TypeOK' /\ HoldsBalanced'
<1> USE NoneAssumption DEF Sound
<1>a. Finish(s) => HandlersTyped'
  BY FinishTyped DEF HandlersTyped
<1>b. \A label \in Labels : Then(s, label) => HandlersTyped'
  BY ThenTyped DEF HandlersTyped
<1>1. CASE Sent(s)
  BY <1>1, <1>a DEF Sent, TypeOK, HandlersTyped, Labels, history
<1>2. CASE Find(s)
  <2> DEFINE p == PeerOf(loaded[s], s)
  <2>1. peer[s] = None
    BY <1>2 DEF Find, Control
  <2>2. pc' \in [Sessions -> Labels]
    BY <1>2 DEF Find, TypeOK, Goto, Labels
  <2>3. CASE p \in listed
    <3>1. p \in Sessions
      BY <2>3 DEF TypeOK
    <3>2. HoldsBalanced' /\ holds' \in [Sessions -> Nat]
          /\ peer' \in [Sessions -> Sessions \cup {None}]
      BY <1>2, <2>1, <2>3, <3>1, TakingHold DEF Find
    <3> QED BY <1>2, <2>2, <3>2 DEF Find, TypeOK, Labels, history
  <2>4. CASE p \notin listed
    BY <1>2, <2>2, <2>4 DEF Find, TypeOK, HoldsBalanced, Labels, history
  <2> QED BY <2>3, <2>4
<1>3. CASE ClearOwn(s)
  <2>1. trade' \in [Sessions -> Trades \cup {None}]
    BY <1>3 DEF ClearOwn, TypeOK
  <2> QED BY <1>3, <1>a, <2>1 DEF ClearOwn, TypeOK, HandlersTyped, Labels, history
<1>4. CASE Look(s)
  <2>1. HandlersTyped'
    BY <1>4, <1>a, <1>b DEF Look, Labels
  <2> QED BY <1>4, <2>1 DEF Look, TypeOK, HandlersTyped, Labels, history
<1>5. CASE Request(s)
  <2>1. CASE Free(s) /\ pc[s] = "lock"
    <3>1. peer[s] \in Sessions /\ next \in Trades
      BY <2>1 DEF Control, TypeOK, Free
    <3>2. HandlersTyped'
      BY <1>5, <2>1, <1>b DEF Request, Labels
    <3>3. trades' \in [Trades -> TradeObjects] /\ trade' \in [Sessions -> Trades \cup {None}]
      <4>1. [Unused EXCEPT !.a = s, !.b = peer[s]] \in TradeObjects
        BY <3>1, NewTrade
      <4>2. /\ trades' = [trades EXCEPT ![next] = [Unused EXCEPT !.a = s, !.b = peer[s]]]
            /\ trade' = [trade EXCEPT ![s] = next, ![peer[s]] = next]
        BY <1>5, <2>1 DEF Request
      <4>3. trades' \in [Trades -> TradeObjects]
        BY <3>1, <4>1, <4>2 DEF TypeOK
      <4>4. trade' \in [Sessions -> Trades \cup {None}]
        BY <3>1, <4>2 DEF TypeOK
      <4> QED BY <4>3, <4>4
    <3>4. next' \in 1..MaxTrades + 1
      BY <1>5, <2>1, <3>1, MaxTradesAssumption DEF Request, TypeOK, Trades
    <3> QED BY <1>5, <3>2, <3>3, <3>4 DEF Request, TypeOK, HandlersTyped, Labels, history
  <2>2. CASE ~Free(s)
    BY <1>5, <2>2, <1>a DEF Request, TypeOK, HandlersTyped, Labels, history
  <2> QED BY <1>5, <2>1, <2>2 DEF Request, Locked
<1>6. CASE Answer(s)
  <2>1. loaded[s] \in Trades
    BY <1>6 DEF Answer, Locked, Control, TypeOK
  <2>2. HandlersTyped'
    BY <1>6, <1>a, <1>b DEF Answer, Labels
  <2>3. trade' \in [Sessions -> Trades \cup {None}]
    BY <1>6, ClearedTyped DEF Answer, TypeOK
  <2>4. trades' \in [Trades -> TradeObjects]
    <3>1. [trades[loaded[s]] EXCEPT !.open = TRUE] \in TradeObjects
      <4>1. trades[loaded[s]] \in TradeObjects
        BY <2>1 DEF TypeOK
      <4> QED BY <4>1 DEF TradeObjects
    <3>2. trades' = trades \/ trades' = [trades EXCEPT ![loaded[s]] = [@ EXCEPT !.open = TRUE]]
      BY <1>6 DEF Answer
    <3> QED BY <3>1, <3>2, <2>1 DEF TypeOK
  <2> QED BY <1>6, <2>2, <2>3, <2>4 DEF Answer, TypeOK, HandlersTyped, Labels, history
<1>7. CASE SetItem(s)
  <2> DEFINE t == loaded[s]
             offers == [trades[t].offer EXCEPT ![SideOf(t, s)] = op[s].offer]
  <2>1. t \in Trades /\ op[s].offer \in Offers
    BY <1>7, OperationFields DEF SetItem, Locked, Control, TypeOK
  <2>2. HandlersTyped'
    BY <1>7, <1>a, <1>b DEF SetItem, Labels
  <2>3. offers \in [Sides -> Offers]
    BY <2>1 DEF TypeOK, TradeObjects, SideOf, Sides
  <2>4. ResetConfirm \in [Sides -> BOOLEAN]
    BY DEF ResetConfirm
  <2>5. [trades[t] EXCEPT !.offer = offers, !.confirm = ResetConfirm] \in TradeObjects
    <3>1. trades[t] \in TradeObjects
      BY <2>1 DEF TypeOK
    <3> HIDE DEF t, offers
    <3> QED BY <3>1, <2>3, <2>4, ChangedOffer
  <2>6. trades' = trades \/ trades' = [trades EXCEPT ![t] = [trades[t] EXCEPT !.offer = offers, !.confirm = ResetConfirm]]
    BY <1>7, <2>1 DEF SetItem, TypeOK
  <2>7. trades' \in [Trades -> TradeObjects]
    BY <2>1, <2>5, <2>6 DEF TypeOK
  <2> QED BY <1>7, <2>2, <2>7 DEF SetItem, TypeOK, HandlersTyped, Labels, history
<1>8. CASE Confirm(s)
  <2> DEFINE t == loaded[s]
             x == SideOf(t, s)
             on == op[s].on
  <2>1. t \in Trades /\ on \in BOOLEAN /\ x \in Sides
    BY <1>8, OperationFields DEF Confirm, Locked, Control, TypeOK, SideOf, Sides
  <2>2. HandlersTyped'
    BY <1>8, <1>a, <1>b DEF Confirm, Labels
  <2>3. Confirmed(t, x, on) \in [Sides -> BOOLEAN]
    BY <2>1 DEF TypeOK, TradeObjects, Confirmed
  <2>4. [trades[t] EXCEPT !.confirm = Confirmed(t, x, on)] \in TradeObjects
    <3>1. trades[t] \in TradeObjects
      BY <2>1 DEF TypeOK
    <3> HIDE DEF t, x, on
    <3> QED BY <3>1, <2>3, ChangedConfirm
  <2>5. trades' = trades \/ trades' = [trades EXCEPT ![t] = [trades[t] EXCEPT !.confirm = Confirmed(t, x, on)]]
    BY <1>8 DEF Confirm
  <2>6. trades' \in [Trades -> TradeObjects]
    BY <2>1, <2>4, <2>5 DEF TypeOK
  <2>7. agreed' \in [Trades -> [Sides -> [Sides -> Offers] \cup {None}]]
    <3>1. trades[t].offer \in [Sides -> Offers]
      BY <2>1 DEF TypeOK, TradeObjects
    <3>2. \/ agreed' = agreed
          \/ agreed' = [agreed EXCEPT ![t] = [agreed[t] EXCEPT ![x] =
                          IF on THEN trades[t].offer ELSE None]]
      BY <1>8, Zenon DEF Confirm
    <3>3. [agreed[t] EXCEPT ![x] = IF on THEN trades[t].offer ELSE None]
              \in [Sides -> [Sides -> Offers] \cup {None}]
      BY <2>1, <3>1 DEF TypeOK
    <3> HIDE DEF t, x, on
    <3> QED BY <2>1, <3>2, <3>3 DEF TypeOK
  <2>8. trade' \in [Sessions -> Trades \cup {None}]
    BY <1>8, ClearedTyped DEF Confirm, TypeOK
  <2> QED BY <1>8, <2>2, <2>6, <2>7, <2>8 DEF Confirm, TypeOK, HandlersTyped, Labels
<1>9. CASE Swap(s)
  <2>1. loaded[s] \in Trades
    BY <1>9 DEF Swap, Control, TypeOK
  <2>2. HandlersTyped'
    BY <1>9, <1>b DEF Swap, Labels
  <2>3. swapped' \in [Trades -> Nat]
    BY <1>9, <2>1 DEF Swap, TypeOK
  <2> QED BY <1>9, <2>2, <2>3 DEF Swap, TypeOK, HandlersTyped, Labels
<1>10. CASE LoadGone(s)
  <2>1. HandlersTyped'
    <3>1. CASE trade[s] = None
      BY <1>10, <3>1, <1>a DEF LoadGone
    <3>2. CASE trade[s] # None
      <4>1. /\ loaded' = [loaded EXCEPT ![s] = trade[s]]
            /\ pc' = [pc EXCEPT ![s] = "find"]
            /\ UNCHANGED <<op, peer, holds>>
        BY <1>10, <3>2 DEF LoadGone, Goto
      <4>2. HoldsBalanced'
        BY <4>1 DEF HoldsBalanced
      <4> QED BY <4>1, <4>2 DEF HandlersTyped, TypeOK, Labels
    <3> QED BY <3>1, <3>2
  <2> QED BY <1>10, <2>1 DEF LoadGone, TypeOK, HandlersTyped, Labels, history
<1>11. CASE ClearTrade(s)
  <2>1. HandlersTyped'
    BY <1>11, <1>a, <1>b DEF ClearTrade, Labels
  <2>2. trade' \in [Sessions -> Trades \cup {None}]
    BY <1>11, ClearedTyped DEF ClearTrade, TypeOK
  <2> QED BY <1>11, <2>1, <2>2 DEF ClearTrade, TypeOK, HandlersTyped, Labels, history
<1> QED BY <1>1, <1>2, <1>3, <1>4, <1>5, <1>6, <1>7, <1>8, <1>9, <1>10, <1>11 DEF Step

-----------------------------------------------------------------------------
(* What a step does to the trades, whatever handler takes it               *)

\* No trade begins: its sides are who they were, a pointer is kept or cleared.
NoneBegins ==
    /\ next' = next
    /\ \A t \in Trades : trades'[t].a = trades[t].a /\ trades'[t].b = trades[t].b
    /\ \A r \in Sessions : trade'[r] \in {trade[r], None}

\* Session s begins a trade with the one that it holds.
Begins(s) ==
    /\ Free(s)
    /\ pc[s] = "lock"
    /\ trades' = [trades EXCEPT ![next] = [Unused EXCEPT !.a = s, !.b = peer[s]]]
    /\ trade' = [trade EXCEPT ![s] = next, ![peer[s]] = next]
    /\ next' = next + 1
    /\ Then(s, "send")
    /\ UNCHANGED <<listed, history>>

Move(s) == Frame(s) \/ Step(s) \/ Leave(s)

LEMMA Effects ==
    ASSUME Sound, NEW s \in Sessions, Move(s)
    PROVE  /\ NoneBegins \/ Begins(s)
           /\ \A r \in Sessions : loaded'[r] \in {loaded[r], None, trade[r]}
<1> USE DEF Sound
<1>a. Finish(s) => \A r \in Sessions : loaded'[r] \in {loaded[r], None}
  BY DEF Finish, TypeOK
<1>b. \A label : Then(s, label) => loaded' = loaded
  BY DEF Then
<1>c. UNCHANGED <<trade, trades, next>> => NoneBegins
  BY DEF NoneBegins
<1>d. ClearBoth(s) => \A r \in Sessions : trade'[r] \in {trade[r], None}
  BY DEF ClearBoth, TypeOK
<1>1. CASE Frame(s)
  <2>1. UNCHANGED <<trade, trades, next>>
    BY <1>1 DEF Frame, StartRequest, StartAnswer, StartSetItem, StartConfirm, StartCancel
  <2>2. loaded' = loaded \/ loaded' = [loaded EXCEPT ![s] = trade[s]]
    BY <1>1 DEF Frame, StartRequest, StartAnswer, StartSetItem, StartConfirm, StartCancel, Load
  <2> QED BY <1>c, <2>1, <2>2 DEF TypeOK
<1>2. CASE Leave(s)
  BY <1>2, <1>c DEF Leave
<1>3. CASE Sent(s)
  BY <1>3, <1>a, <1>c DEF Sent
<1>4. CASE Find(s)
  BY <1>4, <1>c DEF Find
<1>5. CASE ClearOwn(s)
  BY <1>5, <1>a DEF ClearOwn, NoneBegins, TypeOK
<1>6. CASE Look(s)
  BY <1>6, <1>a, <1>b, <1>c DEF Look
<1>7. CASE Request(s)
  BY <1>7, <1>a, <1>b, <1>c DEF Request, Begins, Locked
<1>8. CASE Answer(s)
  <2>1. \A r \in Sessions : loaded'[r] \in {loaded[r], None, trade[r]}
    BY <1>8, <1>a, <1>b DEF Answer
  <2>2. \A r \in Sessions : trade'[r] \in {trade[r], None}
    BY <1>8, <1>d DEF Answer
  <2>3. trades' = trades \/ trades' = [trades EXCEPT ![loaded[s]] = [@ EXCEPT !.open = TRUE]]
    BY <1>8 DEF Answer
  <2>4. \A t \in Trades : trades'[t].a = trades[t].a /\ trades'[t].b = trades[t].b
    <3> SUFFICES ASSUME NEW t \in Trades
                 PROVE  trades'[t].a = trades[t].a /\ trades'[t].b = trades[t].b
      OBVIOUS
    <3>1. trades'[t] = trades[t] \/ trades'[t] = [trades[t] EXCEPT !.open = TRUE]
      BY <2>3 DEF TypeOK
    <3>2. trades[t] \in TradeObjects
      BY DEF TypeOK
    <3> QED BY <3>1, <3>2 DEF TradeObjects
  <2> QED BY <1>8, <2>1, <2>2, <2>4 DEF Answer, NoneBegins
<1>9. CASE SetItem(s)
  <2>1. \A r \in Sessions : loaded'[r] \in {loaded[r], None, trade[r]}
    BY <1>9, <1>a, <1>b DEF SetItem
  <2>2. \A t \in Trades : trades'[t].a = trades[t].a /\ trades'[t].b = trades[t].b
    <3>1. loaded[s] \in Trades
      BY <1>9 DEF SetItem, Locked, Control, TypeOK
    <3> SUFFICES ASSUME NEW t \in Trades
                 PROVE  trades'[t].a = trades[t].a /\ trades'[t].b = trades[t].b
      OBVIOUS
    <3> DEFINE offers == [trades[t].offer EXCEPT ![SideOf(t, s)] = op[s].offer]
    <3>2. \/ trades'[t] = trades[t]
          \/ trades'[t] = [trades[t] EXCEPT !.offer = offers, !.confirm = ResetConfirm]
      BY <1>9, <3>1 DEF SetItem, TypeOK
    <3>3. trades[t] \in TradeObjects
      BY DEF TypeOK
    <3> HIDE DEF offers
    <3> QED BY <3>2, <3>3 DEF TradeObjects
  <2> QED BY <1>9, <2>1, <2>2 DEF SetItem, NoneBegins
<1>10. CASE Confirm(s)
  <2>1. \A r \in Sessions : loaded'[r] \in {loaded[r], None, trade[r]}
    BY <1>10, <1>a, <1>b DEF Confirm
  <2>2. \A r \in Sessions : trade'[r] \in {trade[r], None}
    BY <1>10, <1>d DEF Confirm
  <2>3. \A t \in Trades : trades'[t].a = trades[t].a /\ trades'[t].b = trades[t].b
    <3> SUFFICES ASSUME NEW t \in Trades
                 PROVE  trades'[t].a = trades[t].a /\ trades'[t].b = trades[t].b
      OBVIOUS
    <3> DEFINE confirm == Confirmed(t, SideOf(t, s), op[s].on)
    <3>1. \/ trades'[t] = trades[t]
          \/ trades'[t] = [trades[t] EXCEPT !.confirm = confirm]
      BY <1>10 DEF Confirm, TypeOK
    <3>2. trades[t] \in TradeObjects
      BY DEF TypeOK
    <3> HIDE DEF confirm
    <3> QED BY <3>1, <3>2 DEF TradeObjects
  <2> QED BY <1>10, <2>1, <2>2, <2>3 DEF Confirm, NoneBegins
<1>11. CASE Swap(s)
  BY <1>11, <1>b, <1>c DEF Swap
<1>12. CASE LoadGone(s)
  <2>1. CASE trade[s] = None
    BY <1>12, <1>a, <1>c, <2>1 DEF LoadGone
  <2>2. CASE trade[s] # None
    BY <1>12, <1>c, <2>2 DEF LoadGone, TypeOK
  <2> QED BY <2>1, <2>2
<1>13. CASE ClearTrade(s)
  BY <1>13, <1>a, <1>b, <1>d DEF ClearTrade, NoneBegins
<1> QED BY <1>1, <1>2, <1>3, <1>4, <1>5, <1>6, <1>7, <1>8, <1>9, <1>10, <1>11, <1>12, <1>13
        DEF Move, Step

\* The sides of a trade that has begun never change.
LEMMA SidesKept ==
    ASSUME Sound, NEW s \in Sessions, Move(s), NEW t \in Trades, t < next
    PROVE  /\ trades'[t].a = trades[t].a /\ trades'[t].b = trades[t].b
           /\ t < next'
<1>1. CASE NoneBegins
  BY <1>1 DEF NoneBegins
<1>2. CASE Begins(s)
  BY <1>2 DEF Begins, Sound, TypeOK, Trades
<1> QED BY <1>1, <1>2, Effects

LEMMA PartiesStep ==
    ASSUME Sound, NEW s \in Sessions, Move(s), TypeOK'
    PROVE  Begun' /\ OwnTrades'
<1> USE NoneAssumption, MaxTradesAssumption DEF Sound
<1>1. Begun'
  <2> SUFFICES ASSUME NEW t \in Trades, t < next'
               PROVE  /\ trades'[t].a \in Sessions /\ trades'[t].b \in Sessions
                      /\ trades'[t].a # trades'[t].b
    BY DEF Begun
  <2>1. CASE t < next
    BY <2>1, SidesKept DEF Begun
  <2>2. CASE ~(t < next)
    <3>1. Begins(s) /\ t = next
      <4>1. next \in Nat /\ t \in Nat
        BY DEF TypeOK, Trades
      <4>2. NoneBegins \/ Begins(s)
        BY Effects
      <4> QED BY <2>2, <4>1, <4>2 DEF NoneBegins, Begins
    <3>2. peer[s] \in Sessions \ {s}
      BY <3>1 DEF Begins, Control, TypeOK
    <3>3. trades'[t] = [Unused EXCEPT !.a = s, !.b = peer[s]]
      BY <3>1 DEF Begins, TypeOK
    <3> QED BY <3>2, <3>3 DEF Unused
  <2> QED BY <2>1, <2>2
<1>2. OwnTrades'
  <2> SUFFICES ASSUME NEW r \in Sessions, NEW t \in Trades,
                      trade'[r] = t \/ loaded'[r] = t
               PROVE  t < next' /\ Party(t, r)'
    BY DEF OwnTrades, Party, TypeOK
  <2>1. t < next /\ Party(t, r) => t < next' /\ Party(t, r)'
    BY SidesKept DEF Party
  <2>2. t \in {trade[r], loaded[r]} => t < next /\ Party(t, r)
    BY SMTT(60) DEF OwnTrades, TypeOK, Trades
  <2>3. CASE loaded'[r] = t
    BY <2>1, <2>2, <2>3, Effects DEF Trades
  <2>4. CASE trade'[r] = t
    <3>1. CASE NoneBegins
      BY <2>1, <2>2, <2>4, <3>1 DEF NoneBegins, Trades
    <3>2. CASE Begins(s)
      <4>1. next \in Trades /\ peer[s] \in Sessions \ {s}
        BY <3>2 DEF Begins, Free, Control, TypeOK
      <4>2. CASE r \in {s, peer[s]}
        <5>1. t = next /\ next' = next + 1
          BY <2>4, <3>2, <4>1, <4>2 DEF Begins, TypeOK
        <5>2. trades'[next] = [Unused EXCEPT !.a = s, !.b = peer[s]]
          BY <3>2, <4>1 DEF Begins, TypeOK
        <5>3. trades'[next].a = s /\ trades'[next].b = peer[s]
          BY <5>2 DEF Unused
        <5> QED BY <4>1, <4>2, <5>1, <5>3 DEF Party, Trades
      <4>3. CASE r \notin {s, peer[s]}
        <5>1. trade'[r] = trade[r]
          BY <3>2, <4>1, <4>3 DEF Begins, TypeOK
        <5> QED BY <2>1, <2>2, <2>4, <5>1
      <4> QED BY <4>2, <4>3
    <3> QED BY <3>1, <3>2, Effects
  <2> QED BY <2>3, <2>4
<1> QED BY <1>1, <1>2

-----------------------------------------------------------------------------
(* Control                                                                 *)

\* What Control says of session s, after the step.
ControlNext(s) ==
    /\ pc'[s] \in {"find", "alone", "swap"} => loaded'[s] # None
    /\ pc'[s] \in {"idle", "find", "alone", "left", "over"} => peer'[s] = None
    /\ pc'[s] \in {"look", "lock", "swap"} => peer'[s] # None /\ peer'[s] # s
    /\ pc'[s] = "look" => op'[s].kind = "request"
    /\ pc'[s] = "lock" /\ op'[s].kind # "request" =>
          loaded'[s] # None /\ peer'[s] = PeerOf(loaded[s], s)'

\* A handler moves itself only.
LEMMA OthersKept ==
    ASSUME TypeOK, NEW s \in Sessions, Move(s), NEW r \in Sessions, r # s
    PROVE  pc'[r] = pc[r] /\ op'[r] = op[r] /\ loaded'[r] = loaded[r] /\ peer'[r] = peer[r]
<1>a. Finish(s) => pc'[r] = pc[r] /\ op'[r] = op[r] /\ loaded'[r] = loaded[r] /\ peer'[r] = peer[r]
  BY DEF TypeOK, Finish, Goto
<1>b. \A label \in Labels : Then(s, label) =>
         pc'[r] = pc[r] /\ op'[r] = op[r] /\ loaded'[r] = loaded[r] /\ peer'[r] = peer[r]
  BY DEF TypeOK, Then, Goto, Labels
<1>1. CASE Frame(s)
  BY <1>1 DEF Frame, StartRequest, StartAnswer, StartSetItem, StartConfirm, StartCancel, Load,
              TypeOK, Goto
<1>2. CASE Leave(s)
  BY <1>2 DEF Leave, TypeOK, Goto
<1>3. CASE Find(s)
  <2>1. CASE PeerOf(loaded[s], s) \in listed
    BY <1>3, <2>1 DEF Find, TypeOK, Goto
  <2>2. CASE PeerOf(loaded[s], s) \notin listed
    BY <1>3, <2>2 DEF Find, TypeOK, Goto
  <2> QED BY <2>1, <2>2
<1>4. CASE LoadGone(s)
  <2>1. CASE trade[s] = None
    BY <1>4, <2>1, <1>a DEF LoadGone
  <2>2. CASE trade[s] # None
    BY <1>4, <2>2 DEF LoadGone, TypeOK, Goto
  <2> QED BY <2>1, <2>2
<1>5. CASE Step(s) /\ ~Find(s) /\ ~LoadGone(s)
  <2>1. Finish(s) \/ \E label \in Labels : Then(s, label)
    BY <1>5 DEF Step, Sent, ClearOwn, Look, Request, Answer, SetItem, Confirm, Swap, ClearTrade,
                Labels
  <2> QED BY <2>1, <1>a, <1>b
<1> QED BY <1>1, <1>2, <1>3, <1>4, <1>5 DEF Move

\* A partner is not the session itself.
LEMMA PartnerDiffers ==
    ASSUME Sound, NEW s \in Sessions, loaded[s] # None
    PROVE  PeerOf(loaded[s], s) \in Sessions \ {s}
<1>1. loaded[s] \in Trades /\ loaded[s] < next
  BY DEF Sound, OwnTrades, TypeOK
<1>2. /\ trades[loaded[s]].a \in Sessions /\ trades[loaded[s]].b \in Sessions
      /\ trades[loaded[s]].a # trades[loaded[s]].b
  BY <1>1 DEF Sound, Begun
<1> QED BY <1>2 DEF PeerOf

LEMMA ControlStep ==
    ASSUME Sound, NEW s \in Sessions, Move(s)
    PROVE  Control'
<1> USE NoneAssumption DEF Sound
<1>1. ASSUME NEW r \in Sessions, r # s PROVE ControlNext(r)
  <2>1. pc'[r] = pc[r] /\ op'[r] = op[r] /\ loaded'[r] = loaded[r] /\ peer'[r] = peer[r]
    BY <1>1, OthersKept
  <2>2. loaded[r] # None => PeerOf(loaded[r], r)' = PeerOf(loaded[r], r)
    <3> SUFFICES ASSUME loaded[r] # None PROVE PeerOf(loaded[r], r)' = PeerOf(loaded[r], r)
      OBVIOUS
    <3>1. loaded[r] \in Trades /\ loaded[r] < next
      BY DEF OwnTrades, TypeOK
    <3>2. trades'[loaded[r]].a = trades[loaded[r]].a /\ trades'[loaded[r]].b = trades[loaded[r]].b
      BY <3>1, SidesKept
    <3> QED BY <2>1, <3>2 DEF PeerOf
  <2> QED BY <2>1, <2>2 DEF Control, ControlNext
<1> SUFFICES ControlNext(s)
  BY <1>1 DEF Control, ControlNext
<1>a. Finish(s) => ControlNext(s)
  <2> SUFFICES ASSUME Finish(s) PROVE ControlNext(s)
    OBVIOUS
  <2>1. pc'[s] \in {"idle", "over"} /\ peer'[s] = None
    BY DEF Finish, Goto, TypeOK
  <2> QED BY <2>1 DEF ControlNext
<1>b. Then(s, "send") => ControlNext(s)
  BY DEF Then, Goto, TypeOK, ControlNext
<1>2. CASE Frame(s)
  <2>1. CASE \E p \in Sessions : StartRequest(s, p)
    BY <2>1 DEF StartRequest, TypeOK, Goto, ControlNext
  <2>2. ASSUME NEW o, Load(s, o) PROVE ControlNext(s)
    BY <2>2 DEF Load, TypeOK, Goto, ControlNext, Control
  <2> QED BY <1>2, <2>1, <2>2 DEF Frame, StartAnswer, StartSetItem, StartConfirm, StartCancel
<1>3. CASE Leave(s)
  BY <1>3 DEF Leave, Goto, TypeOK, ControlNext, Control
<1>4. CASE Find(s)
  <2>1. loaded[s] # None /\ peer[s] = None
    BY <1>4 DEF Find, Control
  <2>2. PeerOf(loaded[s], s) \in Sessions \ {s}
    BY <2>1, PartnerDiffers
  <2>3. loaded' = loaded /\ trades' = trades
    BY <1>4 DEF Find
  <2>4. CASE PeerOf(loaded[s], s) \in listed
    <3>1. pc'[s] = "lock" /\ peer'[s] = PeerOf(loaded[s], s)
      BY <1>4, <2>4 DEF Find, Goto, TypeOK
    <3> QED BY <2>1, <2>2, <2>3, <3>1 DEF ControlNext, PeerOf
  <2>5. CASE PeerOf(loaded[s], s) \notin listed
    <3>1. pc'[s] = "alone" /\ peer'[s] = None
      BY <1>4, <2>1, <2>5 DEF Find, Goto, TypeOK
    <3> QED BY <2>1, <2>3, <3>1 DEF ControlNext
  <2> QED BY <2>4, <2>5
<1>5. CASE Look(s)
  <2>1. Then(s, "lock") => ControlNext(s)
    BY <1>5 DEF Look, Then, Goto, TypeOK, ControlNext, Control
  <2> QED BY <1>5, <1>a, <2>1 DEF Look
<1>6. CASE LoadGone(s)
  <2>1. CASE trade[s] = None
    BY <1>6, <1>a, <2>1 DEF LoadGone
  <2>2. CASE trade[s] # None
    BY <1>6, <2>2 DEF LoadGone, Goto, TypeOK, ControlNext, Control
  <2> QED BY <2>1, <2>2
<1>7. CASE Confirm(s)
  <2>1. Then(s, "swap") => ControlNext(s)
    BY <1>7 DEF Confirm, Locked, Then, Goto, TypeOK, ControlNext, Control
  <2> QED BY <1>7, <1>a, <1>b, <2>1 DEF Confirm
<1>8. CASE Sent(s) \/ ClearOwn(s) \/ Request(s) \/ Answer(s) \/ SetItem(s) \/ Swap(s)
           \/ ClearTrade(s)
  BY <1>8, <1>a, <1>b DEF Sent, ClearOwn, Request, Answer, SetItem, Swap, ClearTrade
<1> QED
  BY <1>2, <1>3, <1>4, <1>5, <1>6, <1>7, <1>8 DEF Move, Step

LEMMA LeaveTyped ==
    ASSUME Sound, NEW s \in Sessions, Leave(s)
    PROVE  TypeOK' /\ HoldsBalanced'
<1> USE DEF Sound
<1>1. op' \in [Sessions -> Operations]
  BY DEF Leave, TypeOK, Operations
<1>2. pc' \in [Sessions -> Labels]
  BY DEF Leave, TypeOK, Goto, Labels
<1> QED BY <1>1, <1>2 DEF Leave, TypeOK, Labels, HoldsBalanced, history

LEMMA SoundStep == Sound /\ [Next]_vars => Sound'
<1> SUFFICES ASSUME Sound, [Next]_vars PROVE Sound'
  OBVIOUS
<1>1. ASSUME NEW s \in Sessions, Move(s) PROVE Sound'
  <2>1. TypeOK' /\ HoldsBalanced'
    BY <1>1, FrameTyped, StepTyped, LeaveTyped DEF Move
  <2> QED BY <1>1, <2>1, PartiesStep, ControlStep DEF Sound
<1>2. CASE UNCHANGED vars
  BY <1>2 DEF vars, Sound, TypeOK, HoldsBalanced, Begun, OwnTrades, Party, Control, PeerOf
<1> QED BY <1>1, <1>2 DEF Next, Move

\* Every variable of Trade has its type; a hold is never given back twice.
THEOREM TypeCorrect == Spec => []TypeOK
<1>1. Sound => TypeOK
  BY DEF Sound
<1> QED BY <1>1, SoundInit, SoundStep, PTL DEF Spec

\* The holds on a session are exactly those of the handlers that have found it,
\* on every way out of every trade handler.
THEOREM HoldsBalancedAlways == Spec => []HoldsBalanced
<1>1. Sound => HoldsBalanced
  BY DEF Sound
<1> QED BY <1>1, SoundInit, SoundStep, PTL DEF Spec

-----------------------------------------------------------------------------
(* The swap: once, and as agreed                                           *)

\* A step that neither begins a trade nor touches slots, confirmations or the
\* database, and after which nobody is about to ask who was not before.
Quiet ==
    /\ NoneBegins
    /\ \A t \in Trades : /\ trades'[t].confirm = trades[t].confirm
                         /\ trades'[t].offer = trades[t].offer
    /\ UNCHANGED history
    /\ \A r \in Sessions : pc'[r] = "swap" => pc[r] = "swap" /\ loaded'[r] = loaded[r]

LEMMA QuietSettles ==
    ASSUME Sound, Settling, Quiet
    PROVE  Settling'
<1> USE NoneAssumption DEF Settling, Sound
<1>1. \A t \in Trades : Cleared(t) => Cleared(t)'
  BY DEF Quiet, NoneBegins, Cleared, Trades
<1>2. \A r \in Sessions : pc[r] = "swap" => loaded[r] \in Trades
  BY DEF Control, TypeOK
<1>3. StandingAgreed'
  BY DEF StandingAgreed, Quiet, history
<1>4. SwapReady'
  <2> SUFFICES ASSUME NEW r \in Sessions, pc'[r] = "swap"
               PROVE  /\ Cleared(loaded[r])'
                      /\ \A x \in Sides : trades'[loaded'[r]].confirm[x]
                      /\ swapped'[loaded'[r]] = 0
                      /\ \A q \in Sessions \ {r} : pc'[q] = "swap" => loaded'[q] # loaded'[r]
    BY DEF SwapReady
  <2>1. pc[r] = "swap" /\ loaded'[r] = loaded[r] /\ loaded[r] \in Trades
    BY <1>2 DEF Quiet
  <2>2. Cleared(loaded[r])'
    BY <1>1, <2>1 DEF SwapReady, Cleared
  <2>3. /\ \A x \in Sides : trades'[loaded'[r]].confirm[x]
        /\ swapped'[loaded'[r]] = 0
    BY <2>1 DEF SwapReady, Quiet, history
  <2>4. \A q \in Sessions \ {r} : pc'[q] = "swap" => loaded'[q] # loaded'[r]
    BY <2>1 DEF SwapReady, Quiet
  <2> QED BY <2>2, <2>3, <2>4
<1>5. SwapDone'
  <2> SUFFICES ASSUME NEW t \in Trades, swapped'[t] # 0
               PROVE  /\ t < next' /\ swapped'[t] = 1 /\ Cleared(t)'
                      /\ \A r \in Sessions : pc'[r] = "swap" => loaded'[r] # t
    BY DEF SwapDone
  <2>1. swapped[t] # 0
    BY DEF Quiet, history
  <2> QED BY <1>1, <2>1 DEF SwapDone, Quiet, NoneBegins, history
<1> QED BY <1>3, <1>4, <1>5

\* What a step leaves a handler about to do: ask the database only after a
\* second confirmation.
LEMMA AboutToSwap ==
    ASSUME Sound, NEW s \in Sessions, Move(s), NEW r \in Sessions, pc'[r] = "swap"
    PROVE  \/ pc[r] = "swap" /\ loaded'[r] = loaded[r] /\ r # s
           \/ r = s /\ Confirm(s) /\ loaded' = loaded
<1> USE DEF Sound
<1>1. CASE r # s
  BY <1>1, OthersKept
<1>2. CASE r = s
  <2>1. ~Finish(s) /\ ~Then(s, "send") /\ ~Then(s, "lock")
    BY <1>2 DEF Finish, Then, Goto, TypeOK
  <2>2. CASE Frame(s)
    BY <1>2, <2>2 DEF Frame, StartRequest, StartAnswer, StartSetItem, StartConfirm, StartCancel,
                      Load, Goto, TypeOK
  <2>3. CASE Leave(s)
    BY <1>2, <2>3 DEF Leave, Goto, TypeOK
  <2>4. CASE Find(s)
    <3>1. pc'[s] \in {"lock", "alone"}
      BY <2>4 DEF Find, Goto, TypeOK
    <3> QED BY <1>2, <3>1
  <2>5. CASE LoadGone(s)
    BY <1>2, <2>1, <2>5 DEF LoadGone, Goto, TypeOK
  <2>6. CASE Confirm(s)
    BY <1>2, <2>1, <2>6 DEF Confirm, Then
  <2> QED
    BY <2>1, <2>2, <2>3, <2>4, <2>5, <2>6
    DEF Move, Step, Sent, ClearOwn, Look, Request, Answer, SetItem, Swap, ClearTrade
<1> QED BY <1>1, <1>2

\* Most handlers are quiet.
LEMMA QuietMoves ==
    ASSUME Sound, NEW s \in Sessions, Move(s),
           ~Begins(s), ~SetItem(s), ~Confirm(s), ~Swap(s)
    PROVE  Quiet
<1> USE DEF Sound
<1>1. NoneBegins
  BY Effects
<1>2. \A r \in Sessions : pc'[r] = "swap" => pc[r] = "swap" /\ loaded'[r] = loaded[r]
  BY AboutToSwap
<1>3. UNCHANGED history
  BY DEF Move, Frame, StartRequest, StartAnswer, StartSetItem, StartConfirm, StartCancel, Leave,
         Step, Sent, Find, ClearOwn, Look, Request, Answer, LoadGone, ClearTrade
<1>4. \A t \in Trades : trades'[t].confirm = trades[t].confirm /\ trades'[t].offer = trades[t].offer
  <2>1. CASE Answer(s)
    <3> SUFFICES ASSUME NEW t \in Trades
                 PROVE  /\ trades'[t].confirm = trades[t].confirm
                        /\ trades'[t].offer = trades[t].offer
      OBVIOUS
    <3>1. trades'[t] = trades[t] \/ trades'[t] = [trades[t] EXCEPT !.open = TRUE]
      BY <2>1, ZenonT(60) DEF Answer, TypeOK
    <3>2. trades[t] \in TradeObjects
      BY DEF TypeOK
    <3> QED BY <3>1, <3>2 DEF TradeObjects
  <2>2. CASE ~Answer(s)
    <3>1. trades' = trades
      BY <2>2, <1>1 DEF NoneBegins, Begins, Move, Frame, StartRequest, StartAnswer, StartSetItem,
                 StartConfirm, StartCancel, Leave, Step, Sent, Find, ClearOwn, Look, Request,
                 Locked, LoadGone, ClearTrade
    <3> QED BY <3>1
  <2> QED BY <2>1, <2>2
<1> QED BY <1>1, <1>2, <1>3, <1>4 DEF Quiet

\* A new trade is nobody's old one.
LEMMA BeginSettles ==
    ASSUME Sound, Settling, NEW s \in Sessions, Move(s), Begins(s)
    PROVE  Settling'
<1> USE NoneAssumption DEF Settling, Sound
<1>1. next \in Trades /\ next' = next + 1 /\ history' = history
  BY DEF Begins, Free
<1>2. /\ trades'[next].confirm = [x \in Sides |-> FALSE]
      /\ \A t \in Trades : t # next => trades'[t] = trades[t]
  BY <1>1 DEF Begins, TypeOK, Unused
<1>3. \A t \in Trades : t # next /\ Cleared(t) => Cleared(t)'
  BY <1>1 DEF Begins, Cleared, TypeOK
<1>4. \A r \in Sessions : pc'[r] = "swap" =>
        /\ pc[r] = "swap" /\ loaded'[r] = loaded[r]
        /\ loaded[r] \in Trades /\ loaded[r] # next
  <2>1. ~Confirm(s)
    BY <1>1 DEF Confirm, Trades
  <2>2. \A r \in Sessions : pc[r] = "swap" => loaded[r] \in Trades /\ loaded[r] < next
    BY DEF Control, OwnTrades, TypeOK
  <2> QED BY <1>1, <2>1, <2>2, AboutToSwap DEF Trades
<1>5. StandingAgreed'
  BY <1>1, <1>2 DEF StandingAgreed, history
<1>6. SwapReady'
  <2> SUFFICES ASSUME NEW r \in Sessions, pc'[r] = "swap"
               PROVE  /\ Cleared(loaded[r])'
                      /\ \A x \in Sides : trades'[loaded'[r]].confirm[x]
                      /\ swapped'[loaded'[r]] = 0
                      /\ \A q \in Sessions \ {r} : pc'[q] = "swap" => loaded'[q] # loaded'[r]
    BY DEF SwapReady
  <2>1. Cleared(loaded[r])'
    BY <1>3, <1>4 DEF SwapReady, Cleared
  <2>2. /\ \A x \in Sides : trades'[loaded'[r]].confirm[x]
        /\ swapped'[loaded'[r]] = 0
    BY <1>1, <1>2, <1>4 DEF SwapReady, history
  <2>3. \A q \in Sessions \ {r} : pc'[q] = "swap" => loaded'[q] # loaded'[r]
    BY <1>4 DEF SwapReady
  <2> QED BY <2>1, <2>2, <2>3
<1>7. SwapDone'
  <2> SUFFICES ASSUME NEW t \in Trades, swapped'[t] # 0
               PROVE  /\ t < next' /\ swapped'[t] = 1 /\ Cleared(t)'
                      /\ \A r \in Sessions : pc'[r] = "swap" => loaded'[r] # t
    BY DEF SwapDone
  <2>1. swapped[t] # 0 /\ swapped'[t] = swapped[t]
    BY <1>1 DEF history
  <2>2. t < next /\ t # next
    BY <1>1, <2>1 DEF SwapDone, Trades
  <2> QED BY <1>1, <1>3, <1>4, <2>1, <2>2 DEF SwapDone, Trades
<1> QED BY <1>5, <1>6, <1>7

\* Whoever is in a trade is in none that a swap is under way for, or done.
LEMMA OpenTradeUnswapped ==
    ASSUME Sound, Settling, NEW s \in Sessions, NEW t \in Trades, trade[s] = t
    PROVE  /\ swapped[t] = 0
           /\ \A r \in Sessions : pc[r] = "swap" => loaded[r] # t
BY DEF Settling, SwapReady, SwapDone, Cleared

\* A slot that changes takes both confirmations back.
LEMMA SetItemSettles ==
    ASSUME Sound, Settling, NEW s \in Sessions, Move(s), SetItem(s), ~Quiet
    PROVE  Settling'
<1> USE NoneAssumption DEF Settling, Sound
<1> DEFINE t == loaded[s]
           offers == [trades[t].offer EXCEPT ![SideOf(t, s)] = op[s].offer]
<1>1. t \in Trades
  BY DEF SetItem, Locked, Control, TypeOK
<1>2. UNCHANGED <<trade, next, history>>
  BY DEF SetItem
<1>3. \A r \in Sessions : pc'[r] = "swap" => pc[r] = "swap" /\ loaded'[r] = loaded[r]
  <2>1. ~Confirm(s)
    BY DEF SetItem, Confirm, Locked
  <2> QED BY <2>1, AboutToSwap
<1>4. trade[s] = t
  <2>1. CASE trades' = trades
    BY <1>2, <1>3, <2>1 DEF Quiet, NoneBegins
  <2>2. CASE trades' # trades
    BY <2>2 DEF SetItem, Current
  <2> QED BY <2>1, <2>2
<1>5. /\ \A u \in Trades : u # t => trades'[u] = trades[u]
      /\ trades'[t].confirm = [x \in Sides |-> FALSE] \/ trades'[t] = trades[t]
  <2>1. /\ \A u \in Trades : u # t => trades'[u] = trades[u]
        /\ \/ trades'[t] = trades[t]
           \/ trades'[t] = [trades[t] EXCEPT !.offer = offers, !.confirm = ResetConfirm]
    BY <1>1 DEF SetItem, TypeOK
  <2>2. trades[t] \in TradeObjects
    BY <1>1 DEF TypeOK
  <2> HIDE DEF offers
  <2> QED BY <2>1, <2>2 DEF TradeObjects, ResetConfirm
<1>6. \A r \in Sessions : pc[r] = "swap" => loaded[r] \in Trades /\ loaded[r] # t
  BY <1>1, <1>4, OpenTradeUnswapped DEF Control, TypeOK
<1> HIDE DEF t
<1>7. StandingAgreed'
  <2> SUFFICES ASSUME NEW u \in Trades, NEW x \in Sides, trades'[u].confirm[x]
               PROVE  agreed'[u][x] = trades'[u].offer
    BY DEF StandingAgreed
  <2>1. trades'[u] = trades[u]
    BY <1>5
  <2> QED BY <1>2, <2>1 DEF StandingAgreed, history
<1>8. SwapReady'
  <2>1. \A r \in Sessions : pc[r] = "swap" => trades'[loaded[r]] = trades[loaded[r]]
    BY <1>5, <1>6
  <2> QED BY <1>2, <1>3, <1>6, <2>1 DEF SwapReady, Cleared, history
<1>9. SwapDone'
  BY <1>2, <1>3 DEF SwapDone, Cleared, history
<1> QED BY <1>7, <1>8, <1>9

\* A confirmation is for the slots as they are; the second one ends the trade
\* on both sides.
LEMMA ConfirmSettles ==
    ASSUME Sound, Settling, NEW s \in Sessions, Move(s), Confirm(s)
    PROVE  Settling'
<1> USE NoneAssumption DEF Settling, Sound
<1> DEFINE t == loaded[s]
           x == SideOf(t, s)
           on == op[s].on
           both == \A y \in Sides : Confirmed(t, x, on)[y]
<1>1. t \in Trades /\ x \in Sides /\ on \in BOOLEAN /\ t < next /\ Party(t, s)
  BY OperationFields DEF Confirm, Locked, Control, OwnTrades, TypeOK, SideOf, Sides
<1>2. UNCHANGED <<next, swapped>> /\ NoneBegins
  <2>1. UNCHANGED <<next, swapped>>
    BY DEF Confirm
  <2>2. ~Begins(s)
    BY <2>1 DEF Begins, Free, Trades
  <2> QED BY <2>1, <2>2, Effects
<1>3. CASE ~(Current(s) /\ trades[t].open)
  <2>1. ~Then(s, "swap") \/ Finish(s)
    BY <1>3 DEF Confirm
  <2>2. UNCHANGED <<trade, trades, agreed>> /\ Finish(s)
    BY <1>3 DEF Confirm
  <2>3. pc'[s] # "swap"
    BY <2>2 DEF Finish, Goto, TypeOK
  <2>4. Quiet
    BY <1>2, <2>2, <2>3, AboutToSwap DEF Quiet, history
  <2> QED BY <2>4, QuietSettles
<1>4. CASE Current(s) /\ trades[t].open
  <2>1. trade[s] = t
    BY <1>4 DEF Current
  <2>2. swapped[t] = 0 /\ \A r \in Sessions : pc[r] = "swap" => loaded[r] # t
    BY <1>1, <2>1, OpenTradeUnswapped
  <2>3. /\ \A u \in Trades : u # t => trades'[u] = trades[u] /\ agreed'[u] = agreed[u]
        /\ trades'[t].confirm = Confirmed(t, x, on)
        /\ trades'[t].offer = trades[t].offer
        /\ agreed'[t] = [agreed[t] EXCEPT ![x] = IF on THEN trades[t].offer ELSE None]
    <3>1. /\ trades' = [trades EXCEPT ![t] = [@ EXCEPT !.confirm = Confirmed(t, x, on)]]
          /\ agreed' = [agreed EXCEPT ![t] = [@ EXCEPT ![x] =
                                         IF on THEN trades[t].offer ELSE None]]
      BY <1>4 DEF Confirm
    <3>2. trades[t] \in TradeObjects
      BY <1>1 DEF TypeOK
    <3> HIDE DEF x, on
    <3> QED BY <1>1, <3>1, <3>2 DEF TypeOK, TradeObjects
  <2>4. trades[t].confirm \in [Sides -> BOOLEAN] /\ agreed[t] \in [Sides -> [Sides -> Offers] \cup {None}]
    BY <1>1 DEF TypeOK, TradeObjects
  <2>5. \A u \in Trades : Cleared(u) => Cleared(u)'
    BY <1>2 DEF NoneBegins, Cleared, Trades
  <2>6. \A r \in Sessions : r # s /\ pc'[r] = "swap" =>
            pc[r] = "swap" /\ loaded'[r] = loaded[r] /\ loaded[r] \in Trades /\ loaded[r] # t
    BY <2>2, AboutToSwap DEF Control, TypeOK
  <2>7. pc'[s] = "swap" => loaded'[s] = t /\ Cleared(t)' /\ both
    <3> SUFFICES ASSUME pc'[s] = "swap" PROVE loaded'[s] = t /\ Cleared(t)' /\ both
      OBVIOUS
    <3>1. ~Then(s, "send")
      BY DEF Then, Goto, TypeOK
    <3>2. both /\ ClearBoth(s) /\ Then(s, "swap")
      BY <1>4, <3>1 DEF Confirm
    <3>3. peer[s] = PeerOf(t, s) /\ peer[s] \in Sessions
      BY DEF Confirm, Locked, Control, TypeOK
    <3>4. \A r \in Sessions : trade[r] = t => r \in {s, peer[s]}
      BY <1>1, <3>3 DEF OwnTrades, Party, PeerOf, Trades
    <3>5. \A r \in Sessions : trade'[r] # t
      <4>1. trade' = [trade EXCEPT ![s] = None, ![peer[s]] = None]
        BY <3>2 DEF ClearBoth
      <4>2. trade \in [Sessions -> Trades \cup {None}] /\ None # t
        BY <1>1 DEF TypeOK, Trades
      <4> HIDE DEF t
      <4> QED BY <3>3, <3>4, <4>1, <4>2
    <3> QED BY <3>2, <3>5 DEF Then, Cleared
  <2>8. StandingAgreed'
    <3> SUFFICES ASSUME NEW u \in Trades, NEW y \in Sides, trades'[u].confirm[y]
                 PROVE  agreed'[u][y] = trades'[u].offer
      BY DEF StandingAgreed
    <3>1. CASE u # t
      BY <2>3, <3>1 DEF StandingAgreed
    <3>2. CASE u = t /\ y = x
      <4>1. on
        <5>1. Confirmed(t, x, on)[x]
          BY <2>3, <3>2
        <5> HIDE DEF t, x, on
        <5> QED BY <1>1, <2>4, <5>1 DEF Confirmed
      <4> HIDE DEF t, x, on
      <4> QED BY <1>1, <2>3, <2>4, <3>2, <4>1
    <3>3. CASE u = t /\ y # x
      <4>1. trades[t].confirm[y]
        <5>1. Confirmed(t, x, on)[y]
          BY <2>3, <3>3
        <5> HIDE DEF t, x, on
        <5> QED BY <1>1, <2>4, <3>3, <5>1 DEF Confirmed
      <4>2. agreed[t][y] = trades[t].offer
        BY <1>1, <4>1 DEF StandingAgreed
      <4> HIDE DEF t, x, on
      <4> QED BY <1>1, <2>3, <2>4, <3>3, <4>2
    <3> QED BY <3>1, <3>2, <3>3
  <2> HIDE DEF x, on
  <2>9. SwapReady'
    <3> SUFFICES ASSUME NEW r \in Sessions, pc'[r] = "swap"
                 PROVE  /\ Cleared(loaded[r])'
                        /\ \A y \in Sides : trades'[loaded'[r]].confirm[y]
                        /\ swapped'[loaded'[r]] = 0
                        /\ \A q \in Sessions \ {r} : pc'[q] = "swap" => loaded'[q] # loaded'[r]
      BY DEF SwapReady
    <3>1. CASE r = s
      <4>1. loaded'[r] = t /\ Cleared(t)' /\ both
        BY <2>7, <3>1
      <4> QED BY <1>2, <2>2, <2>3, <2>6, <3>1, <4>1 DEF Cleared
    <3>2. CASE r # s
      <4>1. pc[r] = "swap" /\ loaded'[r] = loaded[r] /\ loaded[r] \in Trades /\ loaded[r] # t
        BY <2>6, <3>2
      <4>2. Cleared(loaded[r])'
        BY <2>5, <4>1 DEF SwapReady, Cleared
      <4>3. /\ \A y \in Sides : trades'[loaded'[r]].confirm[y]
            /\ swapped'[loaded'[r]] = 0
        BY <1>2, <2>3, <4>1 DEF SwapReady
      <4>4. \A q \in Sessions \ {r} : pc'[q] = "swap" => loaded'[q] # loaded'[r]
        BY <2>6, <2>7, <4>1 DEF SwapReady
      <4> QED BY <4>2, <4>3, <4>4
    <3> QED BY <3>1, <3>2
  <2>10. SwapDone'
    <3> SUFFICES ASSUME NEW u \in Trades, swapped'[u] # 0
                 PROVE  /\ u < next' /\ swapped'[u] = 1 /\ Cleared(u)'
                        /\ \A r \in Sessions : pc'[r] = "swap" => loaded'[r] # u
      BY DEF SwapDone
    <3>1. swapped[u] # 0 /\ u # t
      BY <1>2, <2>2
    <3> QED BY <1>2, <2>5, <2>6, <2>7, <3>1 DEF SwapDone
  <2> QED BY <2>8, <2>9, <2>10
<1> QED BY <1>3, <1>4

\* DbConn::trade, the only time.
LEMMA SwapSettles ==
    ASSUME Sound, Settling, NEW s \in Sessions, Move(s), Swap(s)
    PROVE  Settling'
<1> USE NoneAssumption DEF Settling, Sound
<1> DEFINE t == loaded[s]
<1>1. t \in Trades /\ t < next /\ swapped[t] = 0 /\ Cleared(t)
  BY DEF Swap, Control, OwnTrades, TypeOK, SwapReady
<1>2. UNCHANGED <<trade, trades, next, agreed, loaded>>
  BY DEF Swap, Then
<1>3. /\ swapped'[t] = 1
      /\ \A u \in Trades : u # t => swapped'[u] = swapped[u]
  BY <1>1 DEF Swap, TypeOK
<1>4. \A r \in Sessions : pc'[r] = "swap" => r # s /\ pc[r] = "swap" /\ loaded[r] # t
                                             /\ loaded[r] \in Trades
  BY DEF Swap, Then, Goto, SwapReady, Control, TypeOK
<1> HIDE DEF t
<1>5. StandingAgreed'
  BY <1>2 DEF StandingAgreed
<1>6. SwapReady'
  BY <1>2, <1>3, <1>4 DEF SwapReady, Cleared
<1>7. SwapDone'
  BY <1>1, <1>2, <1>3, <1>4 DEF SwapDone, Cleared
<1> QED BY <1>5, <1>6, <1>7

LEMMA SettlingInit == Init => Settling
BY DEF Init, Settling, StandingAgreed, SwapReady, SwapDone, Unused, Trades

LEMMA SettlingStep == Sound /\ Settling /\ [Next]_vars => Settling'
<1> SUFFICES ASSUME Sound, Settling, [Next]_vars PROVE Settling'
  OBVIOUS
<1>1. ASSUME NEW s \in Sessions, Move(s) PROVE Settling'
  BY <1>1, QuietMoves, QuietSettles, BeginSettles, SetItemSettles, ConfirmSettles, SwapSettles
<1>2. CASE UNCHANGED vars
  BY <1>2 DEF vars, Settling, StandingAgreed, SwapReady, SwapDone, Cleared
<1> QED BY <1>1, <1>2 DEF Next, Move

\* The database is asked only for what both sides confirmed while the slots
\* were as they are in the order, whatever the two sides, and the sessions that
\* leave, do meanwhile (handle_trade_confirm).
THEOREM SwapAsAgreedAlways == Spec => []SwapAsAgreed
<1>1. Sound /\ Settling => SwapAsAgreed
  <2> SUFFICES ASSUME Sound, Settling, NEW s \in Sessions, pc[s] = "swap", NEW x \in Sides
               PROVE  agreed[loaded[s]][x] = trades[loaded[s]].offer
    BY DEF SwapAsAgreed
  <2>1. loaded[s] \in Trades
    BY DEF Sound, Control, TypeOK
  <2> QED BY <2>1 DEF Settling, SwapReady, StandingAgreed
<1> QED BY <1>1, SoundInit, SoundStep, SettlingInit, SettlingStep, PTL DEF Spec

\* A trade goes to the database at most once (handle_trade_confirm).
THEOREM SwapOnceAlways == Spec => []SwapOnce
<1>1. Sound /\ Settling => SwapOnce
  <2> SUFFICES ASSUME Sound, Settling, NEW t \in Trades PROVE swapped[t] <= 1
    BY DEF SwapOnce
  <2> QED BY DEF Settling, SwapDone, Sound, TypeOK
<1> QED BY <1>1, SoundInit, SoundStep, SettlingInit, SettlingStep, PTL DEF Spec

-----------------------------------------------------------------------------
(* One window, while nobody leaves                                         *)

\* The partner of the partner.
LEMMA PartnersPartner ==
    ASSUME Sound, NEW r \in Sessions, trade[r] # None
    PROVE  /\ trade[r] \in Trades /\ trade[r] < next
           /\ PeerOf(trade[r], r) \in Sessions \ {r}
           /\ PeerOf(trade[r], PeerOf(trade[r], r)) = r
<1>1. trade[r] \in Trades /\ trade[r] < next /\ Party(trade[r], r)
  BY DEF Sound, OwnTrades, TypeOK
<1>2. /\ trades[trade[r]].a \in Sessions /\ trades[trade[r]].b \in Sessions
      /\ trades[trade[r]].a # trades[trade[r]].b
  BY <1>1 DEF Sound, Begun
<1> QED BY <1>1, <1>2 DEF PeerOf, Party

\* Without leavers a trade is cleared on both sides, by one of the two.
LEMMA ClearsBothSides ==
    ASSUME Sound, Mutual, Leavers = {}, NEW s \in Sessions, Move(s), NoneBegins
    PROVE  \/ trade' = trade
           \/ /\ trade' = [trade EXCEPT ![s] = None, ![peer[s]] = None]
              /\ trade[s] = loaded[s] /\ trade[s] # None
              /\ peer[s] = PeerOf(trade[s], s)
<1>1. ~ClearOwn(s) /\ ~Leave(s)
  BY DEF Mutual, ClearOwn, Leave
<1>2. ASSUME ClearBoth(s), pc[s] = "lock", op[s].kind # "request", Current(s)
      PROVE  /\ trade' = [trade EXCEPT ![s] = None, ![peer[s]] = None]
             /\ trade[s] = loaded[s] /\ trade[s] # None
             /\ peer[s] = PeerOf(trade[s], s)
  BY <1>2 DEF ClearBoth, Current, Sound, Control
<1>3. CASE Frame(s)
  BY <1>3 DEF Frame, StartRequest, StartAnswer, StartSetItem, StartConfirm, StartCancel
<1>4. CASE Answer(s)
  BY <1>4, <1>2 DEF Answer, Locked
<1>5. CASE Confirm(s)
  BY <1>5, <1>2 DEF Confirm, Locked
<1>6. CASE ClearTrade(s)
  BY <1>6, <1>2 DEF ClearTrade, Locked
<1>7. CASE Request(s)
  <2>1. ~Free(s)
    BY <1>7 DEF Request, NoneBegins, Free, Trades
  <2> QED BY <1>7, <2>1 DEF Request
<1> QED BY <1>1, <1>3, <1>4, <1>5, <1>6, <1>7
        DEF Move, Step, Sent, Find, Look, SetItem, Swap, LoadGone

LEMMA MutualStep ==
    ASSUME Sound, Mutual, Leavers = {}, NEW s \in Sessions, Move(s), TypeOK'
    PROVE  Mutual'
<1> USE NoneAssumption DEF Sound
<1>1. listed' = Sessions
  BY DEF Mutual, Move, Frame, StartRequest, StartAnswer, StartSetItem, StartConfirm, StartCancel,
         Leave, Step, Sent, Find, ClearOwn, Look, Request, Answer, SetItem, Confirm, Swap,
         LoadGone, ClearTrade
<1>2. ASSUME NEW r \in Sessions PROVE pc'[r] # "alone"
  <2>1. CASE r # s
    BY <2>1, OthersKept DEF Mutual
  <2>2. CASE r = s
    <3>1. CASE Find(s)
      <4>1. PeerOf(loaded[s], s) \in listed
        BY <3>1, PartnerDiffers DEF Find, Control, Mutual
      <4> QED BY <2>2, <3>1, <4>1 DEF Find, Goto, TypeOK
    <3>2. CASE Frame(s)
      BY <2>2, <3>2 DEF Frame, StartRequest, StartAnswer, StartSetItem, StartConfirm, StartCancel,
                        Load, Goto, TypeOK
    <3>3. Finish(s) \/ (\E label \in {"send", "lock", "swap"} : Then(s, label)) => pc'[s] # "alone"
      BY DEF Finish, Then, Goto, TypeOK
    <3>4. CASE LoadGone(s)
      <4>1. CASE trade[s] = None
        BY <2>2, <3>3, <3>4, <4>1 DEF LoadGone
      <4>2. CASE trade[s] # None
        BY <2>2, <3>4, <4>2 DEF LoadGone, Goto, TypeOK
      <4> QED BY <4>1, <4>2
    <3>5. CASE Step(s) /\ ~Find(s) /\ ~LoadGone(s)
      <4>1. Finish(s) \/ \E label \in {"send", "lock", "swap"} : Then(s, label)
        BY <3>5 DEF Step, Sent, ClearOwn, Look, Request, Answer, SetItem, Confirm, Swap, ClearTrade
      <4> QED BY <2>2, <3>3, <4>1
    <3>6. ~Leave(s)
      BY DEF Leave
    <3> QED BY <3>1, <3>2, <3>4, <3>5, <3>6 DEF Move
  <2> QED BY <2>1, <2>2
<1>3. ASSUME NEW r \in Sessions, trade'[r] # None
      PROVE  \E q \in Sessions : PeerOf(trade[r], r)' = q /\ trade'[q] = trade'[r]
  <2> DEFINE q == PeerOf(trade[r], r)
  <2>1. ASSUME trade'[r] = trade[r]
        PROVE  q \in Sessions /\ PeerOf(trade[r], r)' = q /\ trade[q] = trade[r]
    <3>1. trade[r] # None
      BY <1>3, <2>1
    <3>2. trade[r] \in Trades /\ trade[r] < next /\ q \in Sessions
      BY <3>1, PartnersPartner
    <3>3. trades'[trade[r]].a = trades[trade[r]].a /\ trades'[trade[r]].b = trades[trade[r]].b
      BY <3>2, SidesKept
    <3> QED BY <2>1, <3>1, <3>2, <3>3 DEF PeerOf, Mutual
  <2>2. CASE NoneBegins
    <3>1. trade'[r] = trade[r] /\ trade[r] # None
      BY <1>3, <2>2 DEF NoneBegins
    <3>2. q \in Sessions /\ PeerOf(trade[r], r)' = q /\ trade[q] = trade[r]
      BY <2>1, <3>1
    <3>3. trade'[q] = trade[q]
      <4>1. CASE trade' = trade
        BY <4>1
      <4>2. CASE /\ trade' = [trade EXCEPT ![s] = None, ![peer[s]] = None]
                 /\ trade[s] # None
                 /\ peer[s] = PeerOf(trade[s], s)
        <5>1. peer[s] \in Sessions /\ trade[peer[s]] = trade[s] /\ PeerOf(trade[s], peer[s]) = s
          BY <4>2, PartnersPartner DEF Mutual
        <5>2. r # s /\ r # peer[s]
          BY <1>3, <4>2, <5>1 DEF TypeOK
        <5>3. PeerOf(trade[r], q) = r
          BY <3>1, PartnersPartner
        <5>4. q # s
          <6>1. q = s => PeerOf(trade[s], s) = r
            BY <3>2, <5>3
          <6> QED BY <4>2, <5>2, <6>1
        <5>5. q # peer[s]
          <6>1. q = peer[s] => trade[r] = trade[s] /\ PeerOf(trade[s], peer[s]) = r
            BY <3>2, <5>1, <5>3
          <6> QED BY <5>1, <5>2, <6>1
        <5> HIDE DEF q
        <5> QED BY <3>2, <4>2, <5>4, <5>5 DEF TypeOK
      <4> QED BY <2>2, <4>1, <4>2, ClearsBothSides
    <3> HIDE DEF q
    <3> QED BY <3>1, <3>2, <3>3
  <2>3. CASE Begins(s)
    <3>1. next \in Trades /\ peer[s] \in Sessions \ {s} /\ trade[s] = None /\ trade[peer[s]] = None
      BY <2>3 DEF Begins, Free, Control, TypeOK
    <3>2. /\ trade'[s] = next /\ trade'[peer[s]] = next
          /\ \A o \in Sessions \ {s, peer[s]} : trade'[o] = trade[o]
      BY <2>3, <3>1 DEF Begins, TypeOK
    <3>3. CASE r \in {s, peer[s]}
      <4>1. trades'[next] = [Unused EXCEPT !.a = s, !.b = peer[s]]
        BY <2>3, <3>1 DEF Begins, TypeOK
      <4>2. trades'[next].a = s /\ trades'[next].b = peer[s]
        BY <4>1 DEF Unused
      <4> QED BY <3>1, <3>2, <3>3, <4>2 DEF PeerOf
    <3>4. CASE r \notin {s, peer[s]}
      <4>1. trade'[r] = trade[r] /\ trade[r] # None
        BY <1>3, <3>2, <3>4
      <4>2. q \in Sessions /\ PeerOf(trade[r], r)' = q /\ trade[q] = trade[r]
        BY <2>1, <4>1
      <4> HIDE DEF q
      <4>3. trade'[q] = trade[q]
        BY <3>1, <3>2, <4>1, <4>2
      <4> QED BY <4>1, <4>2, <4>3
    <3> QED BY <3>3, <3>4
  <2> QED BY <2>2, <2>3, Effects
<1> QED BY <1>1, <1>2, <1>3 DEF Mutual

\* As long as no session leaves, two sessions never disagree on whether they
\* trade with each other: the revalidation under both locks is enough
\* (frame_router.cpp:320-326).  With leavers it is not (run Trade_stale).
THEOREM OneWindowWithoutLeavers ==
    ASSUME Leavers = {}
    PROVE  Spec => []OneWindow
<1>1. Init => Mutual
  BY DEF Init, Mutual
<1>2. Sound /\ Mutual /\ [Next]_vars => Mutual'
  <2> SUFFICES ASSUME Sound, Mutual, [Next]_vars PROVE Mutual'
    OBVIOUS
  <2>1. TypeOK'
    BY SoundStep DEF Sound
  <2>2. ASSUME NEW s \in Sessions, Move(s) PROVE Mutual'
    BY <2>1, <2>2, MutualStep
  <2>3. CASE UNCHANGED vars
    BY <2>3 DEF vars, Mutual, PeerOf
  <2> QED BY <2>2, <2>3 DEF Next, Move
<1>3. Mutual => OneWindow
  BY DEF Mutual, OneWindow
<1> QED BY <1>1, <1>2, <1>3, SoundInit, SoundStep, PTL DEF Spec

=============================================================================
