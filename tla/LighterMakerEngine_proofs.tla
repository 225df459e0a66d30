---------------------- MODULE LighterMakerEngine_proofs ----------------------
(***************************************************************************)
(* Proofs about LighterMakerEngine, for all values of its constants.       *)
(*                                                                         *)
(* FillFindsOrder is not inductive: a deferred placement is sent later for *)
(* the strategy as it is then.  DeferredIsPending says that the strategy   *)
(* still waits for exactly that order, and ActiveIsAwaited that it never   *)
(* asks for another one beside it.                                         *)
(***************************************************************************)
EXTENDS LighterMakerEngine, TLAPS

StrategyTypes ==
    /\ state \in {"Idle", "PendingLighterMaker", "CancelledPendingLighterConfirm"}
    /\ gate \in Gates \cup {None}
    /\ pending \in MakerOrders \cup {None}
    /\ rearmWait \in 0..MinRearm

LimiterTypes ==
    /\ deferred \in Deferrals \cup {None}
    /\ retryWait \in (0..Interval) \cup {None}
    /\ placeWait \in 0..Interval
    /\ cancelWait \in 0..Interval

VenueTypes ==
    /\ activeIndex \in Indexes \cup {None}
    /\ lastDirection \in Directions
    /\ resting \in [Indexes -> Nat]
    /\ unreported \in [Indexes -> Nat]
    /\ side \in [Indexes -> Directions]
    /\ unhedged \in Int
    /\ surprises \in 0..MaxSurprises

\* With an active order the strategy is past Idle.
ActiveIsAwaited == activeIndex # None => state # "Idle"

\* A deferred placement is of the order the strategy waits for, and no other is active.
DeferredIsPending ==
    deferred # None /\ deferred.type = "PlaceLighterMaker" =>
        /\ activeIndex = None
        /\ state = "PendingLighterMaker"
        /\ pending = deferred.order

ControlInv ==
    /\ StrategyTypes
    /\ LimiterTypes
    /\ VenueTypes
    /\ FillFindsOrder
    /\ ActiveIsAwaited
    /\ DeferredIsPending

\* The parts of the state a step of strategy and limiter alone leaves alone.
Quiet == UNCHANGED <<orderVars, venueVars, ledgerVars>>

----------------------------------------------------------------------------
(* Placements and cancels. *)

\* The signal gate keeps its type through a snapshot (on_market_snapshot).
LEMMA NextGateType ==
    ASSUME NEW g \in Gates \cup {None}, NEW spread \in Int
    PROVE  NextGate(g, spread) \in Gates \cup {None}
  BY StrategyAssumption
     DEF NextGate, GateAfter, Gates, Entries, EffectiveSpread, DirectionForSpread, Directions

\* A signed size is a number.
LEMMA SignedType ==
    ASSUME NEW d, NEW n \in Int
    PROVE  Signed(d, n) \in Int
  BY DEF Signed

\* What sending a placement does to the venue (execute_action, PlaceLighterMaker).
LEMMA PlaceEffect ==
    ASSUME VenueTypes, activeIndex = None, NEW order \in MakerOrders, SendPlace(order)
    PROVE  /\ VenueTypes'
           /\ activeIndex' # None =>
                /\ side'[activeIndex'] = order.direction
                /\ lastDirection' = order.direction
<1>1. order.size \in Nat /\ order.direction \in Directions
  BY StrategyAssumption DEF MakerOrders
<1>2. CASE PlaceConfirmed(order)
  <2>1. PICK o \in FreshIndexes, size \in {0, order.size} :
           /\ resting' = [resting EXCEPT ![o] = size]
           /\ side' = [side EXCEPT ![o] = order.direction]
           /\ activeIndex' = o
           /\ lastDirection' = order.direction
           /\ surprises' = surprises
    BY <1>2 DEF PlaceConfirmed, Enters
  <2> QED
    BY <1>1, <2>1 DEF SendPlace, VenueTypes, FreshIndexes
<1>3. CASE PlaceUnconfirmed(order)
  <2>1. activeIndex' = None /\ lastDirection' = lastDirection
    BY <1>3 DEF PlaceUnconfirmed, orderVars
  <2>2. CASE UNCHANGED <<resting, side, surprises>>
    BY <2>1, <2>2 DEF SendPlace, VenueTypes
  <2>3. CASE \E o \in FreshIndexes : Enters(o, order, order.size) /\ Charge(1)
    <3>1. PICK o \in FreshIndexes :
             /\ resting' = [resting EXCEPT ![o] = order.size]
             /\ side' = [side EXCEPT ![o] = order.direction]
             /\ surprises + 1 <= MaxSurprises
             /\ surprises' = surprises + 1
      BY <2>3 DEF Enters, Charge
    <3>2. surprises' \in 0..MaxSurprises
      BY <3>1, LighterAssumption DEF VenueTypes
    <3> QED
      BY <1>1, <2>1, <3>1, <3>2 DEF SendPlace, VenueTypes, FreshIndexes
  <2> QED
    BY <1>3, <2>2, <2>3 DEF PlaceUnconfirmed
<1> QED
  BY <1>2, <1>3 DEF SendPlace

\* A placement for the order the strategy waits for (execute_action).
LEMMA PlaceKeepsControl ==
    ASSUME ControlInv, activeIndex = None, NEW order \in MakerOrders, SendPlace(order),
           StrategyTypes', state' = "PendingLighterMaker", pending' = order
    PROVE  ControlInv'
<1>1. VenueTypes'
  BY PlaceEffect DEF ControlInv
<1>2. activeIndex' # None =>
         side'[activeIndex'] = order.direction /\ lastDirection' = order.direction
  BY PlaceEffect DEF ControlInv
<1>3. LimiterTypes'
  BY LighterAssumption DEF SendPlace, ClearDeferral, ControlInv, LimiterTypes
<1>4. pending' # None
  BY NoneIsNoValue
<1> QED
  BY <1>1, <1>2, <1>3, <1>4
     DEF SendPlace, ClearDeferral, ControlInv, FillFindsOrder, ActiveIsAwaited,
         DeferredIsPending

\* A cancel leaves the strategy as it is given or, once confirmed, forgets the order
\* (execute_action, CancelLighterMaker).
LEMMA CancelKeepsControl ==
    ASSUME ControlInv, NEW s, NEW g, NEW p, SendCancel(s, g, p),
           s \in {"Idle", "PendingLighterMaker", "CancelledPendingLighterConfirm"},
           g \in Gates \cup {None}, p = pending, s = "Idle" => state = "Idle",
           rearmWait' \in 0..MinRearm
    PROVE  ControlInv'
<1>1. LimiterTypes'
  BY LighterAssumption DEF SendCancel, ClearDeferral, ControlInv, LimiterTypes
<1>2. /\ deferred' = None /\ UNCHANGED <<lastDirection, unreported, side, unhedged, surprises>>
  BY DEF SendCancel, ClearDeferral, ledgerVars
<1>3. CASE CancelNothing(s, g, p)
  BY <1>1, <1>2, <1>3
     DEF CancelNothing, KeepStrategy, ControlInv, StrategyTypes, VenueTypes, FillFindsOrder,
         ActiveIsAwaited, DeferredIsPending
<1>4. CASE CancelConfirmed
  BY <1>1, <1>2, <1>4
     DEF CancelConfirmed, ResetStrategy, ControlInv, StrategyTypes, VenueTypes,
         FillFindsOrder, ActiveIsAwaited, DeferredIsPending
<1>5. CASE CancelUnconfirmed(s, g, p)
  BY <1>1, <1>2, <1>5
     DEF CancelUnconfirmed, KeepStrategy, ControlInv, StrategyTypes, VenueTypes,
         FillFindsOrder, ActiveIsAwaited, DeferredIsPending
<1> QED
  BY <1>3, <1>4, <1>5 DEF SendCancel

----------------------------------------------------------------------------
(* The tick. *)

\* A snapshot (on_market_snapshot and execute_action on its result).
LEMMA SnapshotKeepsControl ==
    ASSUME ControlInv, NEW spread \in Int, TickSnapshot(spread)
    PROVE  ControlInv'
<1> DEFINE gateAfter == NextGate(gate, spread)
<1>1. gateAfter \in Gates \cup {None}
  BY NextGateType DEF ControlInv, StrategyTypes
<1>2. MinRearm \in 0..MinRearm
  BY StrategyAssumption
<1>3. CASE WantsPlace(state, gateAfter) /\ DecidePlace(gateAfter)
  <2>1. PICK size \in Sizes :
           LET order == BuildMakerOrder(gateAfter, size) IN
           /\ KeepStrategy("PendingLighterMaker", gateAfter, order)
           /\ UNCHANGED rearmWait
           /\ \/ /\ placeWait > 0
                 /\ Deferral("PlaceLighterMaker", order, placeWait)
                 /\ UNCHANGED <<placeWait, cancelWait, orderVars, venueVars, ledgerVars>>
              \/ /\ placeWait = 0
                 /\ SendPlace(order)
    BY <1>3 DEF DecidePlace
  <2> DEFINE order == BuildMakerOrder(gateAfter, size)
  <2>2. gateAfter \in Gates /\ state = "Idle" /\ activeIndex = None
    BY <1>1, <1>3 DEF WantsPlace, ControlInv, ActiveIsAwaited
  <2>3. order \in MakerOrders
    BY <2>2 DEF BuildMakerOrder, Gates, MakerOrders
  <2>4. /\ StrategyTypes' /\ state' = "PendingLighterMaker" /\ pending' = order
    BY <1>1, <2>1, <2>3 DEF KeepStrategy, ControlInv, StrategyTypes
  <2>5. CASE Deferral("PlaceLighterMaker", order, placeWait) /\ Quiet
             /\ UNCHANGED <<placeWait, cancelWait>>
    <3>1. deferred' \in Deferrals /\ deferred'.order = order
      BY <2>3, <2>5 DEF Deferral, Deferrals
    <3>2. LimiterTypes'
      BY <2>5, <3>1 DEF Deferral, ControlInv, LimiterTypes
    <3> QED
      BY <2>2, <2>4, <2>5, <3>1, <3>2
         DEF Quiet, orderVars, venueVars, ledgerVars, ControlInv, VenueTypes,
             FillFindsOrder, ActiveIsAwaited, DeferredIsPending
  <2>6. CASE SendPlace(order)
    BY <2>2, <2>3, <2>4, <2>6, PlaceKeepsControl
  <2> QED
    BY <2>1, <2>5, <2>6 DEF Quiet
<1>4. CASE LighterWantsCancel(state, pending, gateAfter, spread) /\ DecideCancel
  <2>1. rearmWait' \in 0..MinRearm /\ pending \in MakerOrders
    BY <1>2, <1>4 DEF LighterWantsCancel, DecideCancel, ControlInv, StrategyTypes
  <2>2. CASE /\ Deferral("CancelLighterMaker", pending, cancelWait)
             /\ KeepStrategy("CancelledPendingLighterConfirm", None, pending)
             /\ UNCHANGED <<placeWait, cancelWait, orderVars, venueVars, ledgerVars>>
    <3>1. deferred' \in Deferrals /\ deferred'.type = "CancelLighterMaker"
      BY <2>1, <2>2 DEF Deferral, Deferrals
    <3>2. LimiterTypes'
      BY <2>2, <3>1 DEF Deferral, ControlInv, LimiterTypes
    <3> QED
      BY <2>1, <2>2, <3>1, <3>2
         DEF KeepStrategy, orderVars, venueVars, ledgerVars, ControlInv, StrategyTypes,
             VenueTypes, FillFindsOrder, ActiveIsAwaited, DeferredIsPending
  <2>3. CASE SendCancel("CancelledPendingLighterConfirm", None, pending)
    BY <2>1, <2>3, CancelKeepsControl
  <2> QED
    BY <1>4, <2>2, <2>3 DEF DecideCancel
<1>5. CASE /\ KeepStrategy(state, gateAfter, pending)
           /\ rearmWait' = IF DisarmRestartsRearm(state, gate, gateAfter)
                           THEN MinRearm ELSE rearmWait
           /\ UNCHANGED <<limiterVars, orderVars, venueVars, ledgerVars>>
  BY <1>1, <1>2, <1>5
     DEF KeepStrategy, limiterVars, orderVars, venueVars, ledgerVars, ControlInv,
         StrategyTypes, LimiterTypes, VenueTypes, FillFindsOrder, ActiveIsAwaited,
         DeferredIsPending
<1> QED
  BY <1>3, <1>4, <1>5 DEF TickSnapshot

\* A whole tick, a due deferral included (on_market_data).
LEMMA TickKeepsControl ==
    ASSUME ControlInv, NEW spread \in Spreads \cup {None}, Tick(spread)
    PROVE  ControlInv'
<1>1. CASE TickDeferredPlace
  <2>1. deferred \in Deferrals /\ deferred.order \in MakerOrders
    BY <1>1 DEF TickDeferredPlace, DeferredDue, ControlInv, LimiterTypes, Deferrals
  <2>2. /\ activeIndex = None /\ state = "PendingLighterMaker" /\ pending = deferred.order
    BY <1>1 DEF TickDeferredPlace, DeferredDue, ControlInv, DeferredIsPending
  <2>3. StrategyTypes' /\ state' = state /\ pending' = pending
    BY <1>1 DEF TickDeferredPlace, strategyVars, ControlInv, StrategyTypes
  <2> QED
    BY <1>1, <2>1, <2>2, <2>3, PlaceKeepsControl DEF TickDeferredPlace
<1>2. CASE TickDeferredCancel
  <2>1. /\ state \in {"Idle", "PendingLighterMaker", "CancelledPendingLighterConfirm"}
        /\ gate \in Gates \cup {None}
        /\ rearmWait' \in 0..MinRearm
    BY <1>2 DEF TickDeferredCancel, ControlInv, StrategyTypes
  <2> QED
    BY <1>2, <2>1, CancelKeepsControl DEF TickDeferredCancel
<1>3. CASE TickSnapshot(spread)
  <2>1. spread \in Int
    BY <1>3, LighterAssumption DEF TickSnapshot
  <2> QED
    BY <1>3, <2>1, SnapshotKeepsControl
<1> QED
  BY <1>1, <1>2, <1>3 DEF Tick

----------------------------------------------------------------------------
(* Fills and the environment. *)

\* What a fill message does to the ledger keeps its type (execute_action, SendHlTakerHedge).
LEMMA FillKeepsLedger ==
    ASSUME VenueTypes, NEW o \in Indexes, NEW k \in 1..MaxSize, OnLighterFill(o, k)
    PROVE  unhedged' \in Int /\ surprises' \in 0..MaxSurprises
<1>1. unhedged \in Int /\ surprises \in 0..MaxSurprises /\ k \in Nat /\ MaxSurprises \in Nat
  BY LighterAssumption DEF VenueTypes
<1>2. CASE FillIgnored(o, k)
  BY <1>1, <1>2 DEF FillIgnored, ledgerVars
<1>3. CASE FillHedged(o, k)
  <2>1. PICK filled \in 1..k :
           /\ unhedged' = unhedged + Signed(side[o], k) - Signed(pending.direction, filled)
           /\ Charge(IF filled = k THEN 0 ELSE 1)
    BY <1>3 DEF FillHedged
  <2>2. Signed(side[o], k) \in Int /\ Signed(pending.direction, filled) \in Int
    BY <1>1, SignedType
  <2> QED
    BY <1>1, <2>1, <2>2 DEF Charge
<1>4. CASE FillUnwound(o, k)
  <2>1. PICK filled \in 0..k, undone \in 0..k :
           /\ unhedged' = unhedged + Signed(side[o], k) - Signed(pending.direction, filled)
                                  - Signed(lastDirection, undone)
           /\ Charge((IF filled = 0 THEN 0 ELSE 1) + (IF undone = k THEN 0 ELSE 1))
    BY <1>4 DEF FillUnwound
  <2>2. /\ Signed(side[o], k) \in Int /\ Signed(pending.direction, filled) \in Int
        /\ Signed(lastDirection, undone) \in Int
    BY <1>1, SignedType
  <2> QED
    BY <1>1, <2>1, <2>2 DEF Charge
<1> QED
  BY <1>2, <1>3, <1>4 DEF OnLighterFill

\* A fill is ignored, or ends the order as far as the engine goes (on_lighter_fill).
LEMMA FillKeepsControl ==
    ASSUME ControlInv, NEW o \in Indexes, NEW k \in 1..MaxSize, OnLighterFill(o, k)
    PROVE  ControlInv'
<1>1. unhedged' \in Int /\ surprises' \in 0..MaxSurprises
  BY FillKeepsLedger DEF ControlInv
<1>2. Report(o, k)
  BY DEF OnLighterFill, FillIgnored, FillHedged, FillUnwound
<1>3. unreported' \in [Indexes -> Nat]
  BY <1>2 DEF Report, ControlInv, VenueTypes
<1>4. CASE FillIgnored(o, k)
  BY <1>1, <1>2, <1>3, <1>4
     DEF FillIgnored, Report, limiterVars, ControlInv, StrategyTypes, LimiterTypes,
         VenueTypes, FillFindsOrder, ActiveIsAwaited, DeferredIsPending
<1>5. CASE ForgetOrder /\ activeIndex # None
  BY <1>1, <1>2, <1>3, <1>5
     DEF ForgetOrder, ResetStrategy, Report, limiterVars, ControlInv, StrategyTypes,
         LimiterTypes, VenueTypes, FillFindsOrder, ActiveIsAwaited, DeferredIsPending
<1>6. o # None
  BY NoneIsNoLighterValue
<1> QED
  BY <1>4, <1>5, <1>6 DEF OnLighterFill, FillHedged, FillUnwound

\* An execution only moves size from the book to the unreported fills.
LEMMA ExecuteKeepsControl ==
    ASSUME ControlInv, NEW o \in Indexes, NEW k \in 1..MaxSize, Execute(o, k)
    PROVE  ControlInv'
<1>1. resting' \in [Indexes -> Nat] /\ unreported' \in [Indexes -> Nat]
  BY LighterAssumption DEF Execute, ControlInv, VenueTypes
<1> QED
  BY <1>1
     DEF Execute, strategyVars, orderVars, limiterVars, ledgerVars, ControlInv,
         StrategyTypes, LimiterTypes, VenueTypes, FillFindsOrder, ActiveIsAwaited,
         DeferredIsPending

\* Time passes for every wait alike.
LEMMA AdvanceKeepsControl ==
    ASSUME ControlInv, Advance
    PROVE  ControlInv'
<1>1. /\ rearmWait' \in 0..MinRearm
      /\ placeWait' \in 0..Interval
      /\ cancelWait' \in 0..Interval
      /\ retryWait' \in (0..Interval) \cup {None}
  BY StrategyAssumption, LighterAssumption
     DEF Advance, Elapse, ControlInv, StrategyTypes, LimiterTypes
<1> QED
  BY <1>1
     DEF Advance, orderVars, venueVars, ledgerVars, ControlInv, StrategyTypes, LimiterTypes,
         VenueTypes, FillFindsOrder, ActiveIsAwaited, DeferredIsPending

----------------------------------------------------------------------------
(* The engine as a whole. *)

\* The strengthening holds of every behaviour of the engine.
THEOREM ControlInvariant == Spec => []ControlInv
<1>1. Init => ControlInv
  BY StrategyAssumption, LighterAssumption
     DEF Init, ControlInv, StrategyTypes, LimiterTypes, VenueTypes, Directions,
         FillFindsOrder, ActiveIsAwaited, DeferredIsPending
<1>2. ASSUME ControlInv, [Next]_vars
      PROVE  ControlInv'
  <2>1. CASE UNCHANGED vars
    BY <1>2, <2>1
       DEF vars, strategyVars, orderVars, limiterVars, venueVars, ledgerVars, ControlInv,
           StrategyTypes, LimiterTypes, VenueTypes, FillFindsOrder, ActiveIsAwaited,
           DeferredIsPending
  <2> QED
    BY <1>2, <2>1, TickKeepsControl, FillKeepsControl, ExecuteKeepsControl,
       AdvanceKeepsControl DEF Next
<1> QED
  BY <1>1, <1>2, PTL DEF Spec

\* Every variable keeps its type, through every handler and every answer of a venue.
THEOREM TypeCorrect == Spec => []TypeOK
<1>1. ControlInv => TypeOK
  BY DEF ControlInv, StrategyTypes, LimiterTypes, VenueTypes, TypeOK
<1> QED
  BY <1>1, ControlInvariant, PTL

\* A fill of the active order always finds the order pending, on the side it rests on, and
\* the unwind finds that side too (on_lighter_maker_fill, execute_action).
THEOREM FillIsAttributed == Spec => []FillFindsOrder
<1>1. ControlInv => FillFindsOrder
  BY DEF ControlInv
<1> QED
  BY <1>1, ControlInvariant, PTL

\* While an order is active no step puts another into the book: the strategy asks for none
\* and none is left deferred, though a cancel may have failed (execute_action).
THEOREM NoOrderBesideActive == Spec => NoMakerBesideActive
<1>1. ASSUME ControlInv, Next, activeIndex # None, NEW q \in Indexes
      PROVE  resting'[q] <= resting[q]
  <2>1. resting[q] \in Nat
    BY <1>1 DEF ControlInv, VenueTypes
  <2>2. ASSUME NEW s, NEW g, NEW p, SendCancel(s, g, p)
        PROVE  resting'[q] <= resting[q]
    BY <1>1, <2>1, <2>2
       DEF SendCancel, CancelNothing, CancelConfirmed, CancelUnconfirmed, ControlInv, VenueTypes
  <2>3. ASSUME NEW spread \in Spreads \cup {None}, Tick(spread)
        PROVE  resting'[q] <= resting[q]
    <3>1. ~TickDeferredPlace
      BY <1>1 DEF TickDeferredPlace, DeferredDue, ControlInv, DeferredIsPending
    <3>2. CASE TickDeferredCancel
      BY <2>2, <3>2 DEF TickDeferredCancel
    <3>3. CASE TickSnapshot(spread)
      <4>1. ~WantsPlace(state, NextGate(gate, spread))
        BY <1>1 DEF WantsPlace, ControlInv, ActiveIsAwaited
      <4>2. CASE DecideCancel
        BY <2>1, <2>2, <4>2 DEF DecideCancel, venueVars
      <4>3. CASE UNCHANGED venueVars
        BY <2>1, <4>3 DEF venueVars
      <4> QED
        BY <3>3, <4>1, <4>2, <4>3 DEF TickSnapshot
    <3> QED
      BY <2>3, <3>1, <3>2, <3>3 DEF Tick
  <2>4. ASSUME NEW o \in Indexes, NEW k \in 1..MaxSize, OnLighterFill(o, k)
        PROVE  resting'[q] <= resting[q]
    BY <2>1, <2>4 DEF OnLighterFill, FillIgnored, FillHedged, FillUnwound, Report
  <2>5. ASSUME NEW o \in Indexes, NEW k \in 1..MaxSize, Execute(o, k)
        PROVE  resting'[q] <= resting[q]
    BY <1>1, <2>1, <2>5, LighterAssumption DEF Execute, ControlInv, VenueTypes
  <2>6. CASE Advance
    BY <2>1, <2>6 DEF Advance, venueVars
  <2> QED
    BY <1>1, <2>3, <2>4, <2>5, <2>6 DEF Next
<1>2. ControlInv /\ [Next]_vars
        => [activeIndex # None => NothingPlaced]_vars
  BY <1>1 DEF NothingPlaced
<1> QED
  BY <1>2, ControlInvariant, PTL DEF Spec, NoMakerBesideActive

----------------------------------------------------------------------------
(* The hedge. *)

\* When nothing surprising happens, hedge or unwind is the exact opposite of the fill:
\* pending order, active order and last direction are of one side (FillFindsOrder).
LEMMA FillKeepsBook ==
    ASSUME ControlInv, HedgedBook, NEW o \in Indexes, NEW k \in 1..MaxSize,
           OnLighterFill(o, k)
    PROVE  HedgedBook'
<1>1. /\ k \in Nat /\ surprises \in Nat /\ unhedged \in Int
  BY LighterAssumption DEF ControlInv, VenueTypes
<1>2. CASE FillIgnored(o, k)
  BY <1>2 DEF FillIgnored, ledgerVars, HedgedBook
<1>3. o # None
  BY NoneIsNoLighterValue
<1>4. CASE FillHedged(o, k)
  <2>1. pending.direction = side[o]
    BY <1>3, <1>4 DEF FillHedged, ControlInv, FillFindsOrder
  <2>2. PICK filled \in 1..k :
           /\ unhedged' = unhedged + Signed(side[o], k) - Signed(side[o], filled)
           /\ Charge(IF filled = k THEN 0 ELSE 1)
    BY <1>4, <2>1 DEF FillHedged
  <2>3. surprises' = 0 => surprises = 0 /\ filled = k
    BY <1>1, <2>2 DEF Charge
  <2> QED
    BY <1>1, <2>2, <2>3 DEF HedgedBook, Signed
<1>5. CASE FillUnwound(o, k)
  <2>1. pending.direction = side[o] /\ lastDirection = side[o]
    BY <1>3, <1>5 DEF FillUnwound, ControlInv, FillFindsOrder
  <2>2. PICK filled \in 0..k, undone \in 0..k :
           /\ unhedged' = unhedged + Signed(side[o], k) - Signed(side[o], filled)
                                  - Signed(side[o], undone)
           /\ Charge((IF filled = 0 THEN 0 ELSE 1) + (IF undone = k THEN 0 ELSE 1))
    BY <1>5, <2>1 DEF FillUnwound
  <2>3. surprises' = 0 => surprises = 0 /\ filled = 0 /\ undone = k
    BY <1>1, <2>2 DEF Charge
  <2> QED
    BY <1>1, <2>2, <2>3 DEF HedgedBook, Signed
<1> QED
  BY <1>2, <1>4, <1>5 DEF OnLighterFill

\* Only a fill changes the book, and no step takes a surprise back.
LEMMA OthersKeepBook ==
    ASSUME HedgedBook, surprises \in Nat,
           \/ \E spread \in Spreads \cup {None} : Tick(spread)
           \/ \E o \in Indexes, k \in 1..MaxSize : Execute(o, k)
           \/ Advance
           \/ UNCHANGED vars
    PROVE  HedgedBook'
<1>1. ASSUME NEW order, SendPlace(order)
      PROVE  HedgedBook'
  BY <1>1 DEF SendPlace, PlaceConfirmed, PlaceUnconfirmed, Charge, HedgedBook
<1>2. CASE UNCHANGED ledgerVars
  BY <1>2 DEF ledgerVars, HedgedBook
<1>3. ASSUME NEW spread \in Spreads \cup {None}, Tick(spread)
      PROVE  HedgedBook'
  BY <1>1, <1>2, <1>3
     DEF Tick, TickDeferredPlace, TickDeferredCancel, TickSnapshot, DecidePlace,
         DecideCancel, SendCancel
<1> QED
  BY <1>2, <1>3 DEF Execute, Advance, vars

\* As long as no venue does other than the engine reads, Hyperliquid and Lighter offset
\* each other after every fill taken up, on whichever side (on_lighter_fill).
THEOREM BookIsHedged == Spec => []HedgedBook
<1>1. Init => HedgedBook
  BY DEF Init, HedgedBook
<1>2. ASSUME ControlInv, HedgedBook, [Next]_vars
      PROVE  HedgedBook'
  <2>1. surprises \in Nat
    BY <1>2, LighterAssumption DEF ControlInv, VenueTypes
  <2> QED
    BY <1>2, <2>1, FillKeepsBook, OthersKeepBook DEF Next
<1> QED
  BY <1>1, <1>2, ControlInvariant, PTL DEF Spec
=============================================================================
