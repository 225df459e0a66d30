------------------------- MODULE LighterMakerEngine -------------------------
(***************************************************************************)
(* The reverse execution policy: LighterMakerHlHedger (src/src/strategy.cpp*)
(* 287-471) inside LighterMakerTakerEngine (src/src/engine.cpp 844-1150).  *)
(* A post-only order rests on Lighter; a fill of it is hedged at once by an*)
(* IOC order on Hyperliquid, or unwound on Lighter when that fails.        *)
(*                                                                         *)
(* The decomposition is that of MakerHedgeEngine.  A placement counts only *)
(* when the account feed shows the order resting in time, a cancel only    *)
(* when it shows the order cancelled.  Between calls the strategy is never *)
(* in a hedging state: the fill handler hedges and resets in one call.     *)
(***************************************************************************)
EXTENDS MakerStrategy, FiniteSets

CONSTANTS
    Indexes,       \* Lighter order indexes; one is reused once nothing of its order is left
    Spreads,       \* the spreads a snapshot can show
    Interval,      \* EngineConfig::lighter_order_interval_ms, in clock units
    MaxSize,       \* the largest of Sizes
    MaxSurprises   \* bound: how often a venue does other than the engine reads

ASSUME LighterAssumption ==
    /\ Spreads \subseteq Int
    /\ Interval \in Nat
    /\ MaxSize \in Nat \ {0}
    /\ \A s \in Sizes : s <= MaxSize
    /\ MaxSurprises \in Nat

Deferrals == [type : {"PlaceLighterMaker", "CancelLighterMaker"}, order : MakerOrders]

ASSUME NoneIsNoLighterValue ==
    /\ None \notin Indexes
    /\ None \notin Deferrals

VARIABLES
    state, gate, pending, rearmWait,   \* the strategy_ member
    activeIndex,     \* active_lighter_order_index_
    lastDirection,   \* last_maker_direction_
    deferred,        \* deferred_lighter_action_: None or [type, order]
    retryWait,       \* next_retry_steady_ms_, as the time left; None when empty
    placeWait,       \* time left of the place limiter (last_lighter_place_ms_)
    cancelWait,      \* time left of the cancel limiter (last_lighter_cancel_ms_)
    resting,         \* Lighter: the size of each order still in the book
    unreported,      \* executed size whose trade message is not processed yet
    side,            \* the direction each order was placed with
    unhedged,        \* history: Lighter base of the fills taken up, less what was undone,
                     \* plus the position the hedges made on Hyperliquid
    surprises        \* history: how often a venue did other than the engine reads

strategyVars == <<state, gate, pending, rearmWait>>
orderVars    == <<activeIndex, lastDirection>>
limiterVars  == <<deferred, retryWait, placeWait, cancelWait>>
venueVars    == <<resting, unreported, side>>
ledgerVars   == <<unhedged, surprises>>
vars == <<strategyVars, orderVars, limiterVars, venueVars, ledgerVars>>

\* What a maker fill of that size adds to the Lighter position.
Signed(d, size) == IF d = LongLighterShortHl THEN size ELSE -size

\* surprises of this step, within the bound.
Charge(n) ==
    /\ surprises + n <= MaxSurprises
    /\ surprises' = surprises + n

----------------------------------------------------------------------------
(* The strategy: the open threshold alone, whatever the position. *)

NextGate(g, spread) == GateAfter(g, rearmWait, spread, 0)

DisarmRestartsRearm(s, g, gateAfter) ==
    /\ g # None /\ gateAfter = None
    /\ s \in {"Idle", "CancelledPendingLighterConfirm"}

LighterWantsCancel(s, p, gateAfter, spread) ==
    /\ s = "PendingLighterMaker"
    /\ p # None
    /\ gateAfter = None \/ Reverted(p, spread)

\* LighterMakerHlHedger::reset.
ResetStrategy ==
    /\ state' = "Idle"
    /\ gate' = None
    /\ pending' = None

KeepStrategy(s, g, p) == state' = s /\ gate' = g /\ pending' = p

----------------------------------------------------------------------------
(* execute_action. *)

\* An order index nothing of which is left anywhere.
FreshIndexes == {o \in Indexes : resting[o] = 0 /\ unreported[o] = 0 /\ o # activeIndex}

Deferral(type, order, wait) ==
    /\ deferred' = [type |-> type, order |-> order]
    /\ retryWait' = wait

ClearDeferral ==
    /\ deferred' = None
    /\ retryWait' = None

Enters(o, order, size) ==
    /\ resting' = [resting EXCEPT ![o] = size]
    /\ side' = [side EXCEPT ![o] = order.direction]

PlaceConfirmedKeepsDirection(order) ==
    \E o \in FreshIndexes :
        /\ \E size \in {0, order.size} : Enters(o, order, size)
        /\ activeIndex' = o
        /\ UNCHANGED <<lastDirection, surprises>>

\* The account feed shows the order open or in progress.  An order in progress may
\* still be dropped for crossing the book (post only).
PlaceConfirmed(order) ==
    \E o \in FreshIndexes :
        /\ \E size \in {0, order.size} : Enters(o, order, size)
        /\ activeIndex' = o
        /\ lastDirection' = order.direction
        /\ UNCHANGED surprises

\* Refused, or not seen resting in time: then it may rest, or have executed, all the same
\* (a surprise).  The strategy keeps the order as pending.
PlaceUnconfirmed(order) ==
    /\ \/ UNCHANGED <<resting, side, surprises>>
       \/ \E o \in FreshIndexes : Enters(o, order, order.size) /\ Charge(1)
    /\ UNCHANGED orderVars

SendPlace(order) ==
    /\ placeWait' = Interval
    /\ ClearDeferral
    /\ PlaceConfirmed(order) \/ PlaceUnconfirmed(order)
    /\ UNCHANGED <<cancelWait, unreported, unhedged>>

\* "cancel requested with no active lighter order": returns before any reset.
CancelNothing(s, g, p) ==
    /\ activeIndex = None
    /\ KeepStrategy(s, g, p)
    /\ UNCHANGED <<activeIndex, resting>>

\* The account feed shows the order cancelled; part of it may have executed before.
CancelConfirmed ==
    /\ activeIndex # None
    /\ resting' = [resting EXCEPT ![activeIndex] = 0]
    /\ activeIndex' = None
    /\ ResetStrategy

CancelUnconfirmedResets(s, g, p) ==
    /\ activeIndex # None
    /\ resting' \in {resting, [resting EXCEPT ![activeIndex] = 0]}
    /\ ResetStrategy
    /\ UNCHANGED activeIndex

\* Refused, or not seen cancelled in time: the order may be gone all the same.
CancelUnconfirmed(s, g, p) ==
    /\ activeIndex # None
    /\ resting' \in {resting, [resting EXCEPT ![activeIndex] = 0]}
    /\ KeepStrategy(s, g, p)
    /\ UNCHANGED activeIndex

SendCancel(s, g, p) ==
    /\ cancelWait' = Interval
    /\ ClearDeferral
    /\ CancelNothing(s, g, p) \/ CancelConfirmed \/ CancelUnconfirmed(s, g, p)
    /\ UNCHANGED <<placeWait, lastDirection, unreported, side, ledgerVars>>

----------------------------------------------------------------------------
(* on_market_data.  spread = None is a snapshot that is not valid(). *)

DeferredDueWithoutDeadline == deferred # None /\ retryWait = None

\* Not due while now_ms is before next_retry_steady_ms_.
DeferredDue == deferred # None /\ retryWait \in {None, 0}

\* A due call runs before the strategy sees the snapshot and ends the tick.
TickDeferredPlace ==
    /\ DeferredDue
    /\ deferred.type = "PlaceLighterMaker"
    /\ SendPlace(deferred.order)
    /\ UNCHANGED strategyVars

TickDeferredCancel ==
    /\ DeferredDue
    /\ deferred.type = "CancelLighterMaker"
    /\ SendCancel(state, gate, pending)
    /\ UNCHANGED rearmWait

DecidePlace(gateAfter) ==
    \E size \in Sizes :
        LET order == BuildMakerOrder(gateAfter, size) IN
        /\ KeepStrategy("PendingLighterMaker", gateAfter, order)
        /\ UNCHANGED rearmWait
        /\ \/ /\ placeWait > 0
              /\ Deferral("PlaceLighterMaker", order, placeWait)
              /\ UNCHANGED <<placeWait, cancelWait, orderVars, venueVars, ledgerVars>>
           \/ /\ placeWait = 0
              /\ SendPlace(order)

DecideCancel ==
    /\ rearmWait' = MinRearm
    /\ \/ /\ cancelWait > 0
          /\ Deferral("CancelLighterMaker", pending, cancelWait)
          /\ KeepStrategy("CancelledPendingLighterConfirm", None, pending)
          /\ UNCHANGED <<placeWait, cancelWait, orderVars, venueVars, ledgerVars>>
       \/ /\ cancelWait = 0
          /\ SendCancel("CancelledPendingLighterConfirm", None, pending)

TickSnapshot(spread) ==
    /\ ~DeferredDue
    /\ spread # None
    /\ LET gateAfter == NextGate(gate, spread) IN
       \/ /\ WantsPlace(state, gateAfter)
          /\ DecidePlace(gateAfter)
       \/ /\ LighterWantsCancel(state, pending, gateAfter, spread)
          /\ DecideCancel
       \/ /\ ~WantsPlace(state, gateAfter)
          /\ ~LighterWantsCancel(state, pending, gateAfter, spread)
          /\ KeepStrategy(state, gateAfter, pending)
          /\ rearmWait' = IF DisarmRestartsRearm(state, gate, gateAfter)
                          THEN MinRearm ELSE rearmWait
          /\ UNCHANGED <<limiterVars, orderVars, venueVars, ledgerVars>>

Tick(spread) ==
    \/ TickDeferredPlace
    \/ TickDeferredCancel
    \/ TickSnapshot(spread)

----------------------------------------------------------------------------
(* on_lighter_fill.  The message of fill k of order o leaves the queue. *)

Report(o, k) ==
    /\ k <= unreported[o]
    /\ unreported' = [unreported EXCEPT ![o] = @ - k]
    /\ UNCHANGED <<resting, side, limiterVars, lastDirection, rearmWait>>

\* A fill of an order that is not the active one, or that finds no pending order.
FillIgnored(o, k) ==
    /\ o # activeIndex \/ pending = None
    /\ Report(o, k)
    /\ UNCHANGED <<state, gate, pending, activeIndex, ledgerVars>>

ForgetOrderKeepsIndex ==
    /\ ResetStrategy
    /\ UNCHANGED activeIndex

\* Hedged or unwound, the order is done with, whatever of it still rests.
ForgetOrder ==
    /\ activeIndex' = None
    /\ ResetStrategy

\* Any size Hyperliquid reports filled is a complete hedge.
FillHedged(o, k) ==
    /\ o = activeIndex /\ pending # None
    /\ Report(o, k)
    /\ \E filled \in 1..k :
           /\ unhedged' = unhedged + Signed(side[o], k) - Signed(pending.direction, filled)
           /\ Charge(IF filled = k THEN 0 ELSE 1)
    /\ ForgetOrder

\* The hedge failed or filled nothing, as far as the engine can tell: the fill is undone
\* on Lighter by an IOC order whose answer is only logged.
FillUnwound(o, k) ==
    /\ o = activeIndex /\ pending # None
    /\ Report(o, k)
    /\ \E filled \in 0..k, undone \in 0..k :
           /\ unhedged' = unhedged + Signed(side[o], k) - Signed(pending.direction, filled)
                                  - Signed(lastDirection, undone)
           /\ Charge((IF filled = 0 THEN 0 ELSE 1) + (IF undone = k THEN 0 ELSE 1))
    /\ ForgetOrder

OnLighterFill(o, k) ==
    \/ FillIgnored(o, k)
    \/ FillHedged(o, k)
    \/ FillUnwound(o, k)

----------------------------------------------------------------------------
(* The environment. *)

\* Lighter executes part of a resting order; the trade message follows later.
Execute(o, k) ==
    /\ k <= resting[o]
    /\ resting' = [resting EXCEPT ![o] = @ - k]
    /\ unreported' = [unreported EXCEPT ![o] = @ + k]
    /\ UNCHANGED <<strategyVars, orderVars, limiterVars, side, ledgerVars>>

\* One clock unit passes.
Advance ==
    /\ \/ rearmWait > 0
       \/ placeWait > 0
       \/ cancelWait > 0
    /\ rearmWait' = Elapse(rearmWait)
    /\ placeWait' = Elapse(placeWait)
    /\ cancelWait' = Elapse(cancelWait)
    /\ retryWait' = IF retryWait = None THEN None ELSE Elapse(retryWait)
    /\ UNCHANGED <<state, gate, pending, orderVars, deferred, venueVars, ledgerVars>>

\* The start-up does not look at any position for this policy.
Init ==
    /\ state = "Idle"
    /\ gate = None
    /\ pending = None
    /\ rearmWait = 0
    /\ activeIndex = None
    /\ lastDirection = ShortLighterLongHl
    /\ deferred = None
    /\ retryWait = None
    /\ placeWait = 0
    /\ cancelWait = 0
    /\ resting = [o \in Indexes |-> 0]
    /\ unreported = [o \in Indexes |-> 0]
    /\ side = [o \in Indexes |-> ShortLighterLongHl]
    /\ unhedged = 0
    /\ surprises = 0

Next ==
    \/ \E spread \in Spreads \cup {None} : Tick(spread)
    \/ \E o \in Indexes, k \in 1..MaxSize : OnLighterFill(o, k)
    \/ \E o \in Indexes, k \in 1..MaxSize : Execute(o, k)
    \/ Advance

Spec == Init /\ [][Next]_vars

\* The main loop wakes at least once a second and at the retry deadline, as for the
\* other policy.
LoopSpec ==
    /\ Spec
    /\ WF_vars(\E spread \in Spreads \cup {None} : Tick(spread))
    /\ WF_vars(Advance)

----------------------------------------------------------------------------
(* Properties. *)

\* Every variable keeps its type: the members of strategy_ and of LighterMakerTakerEngine,
\* and the venues.
TypeOK ==
    /\ state \in {"Idle", "PendingLighterMaker", "CancelledPendingLighterConfirm"}
    /\ gate \in Gates \cup {None}
    /\ pending \in MakerOrders \cup {None}
    /\ rearmWait \in 0..MinRearm
    /\ activeIndex \in Indexes \cup {None}
    /\ lastDirection \in Directions
    /\ deferred \in Deferrals \cup {None}
    /\ retryWait \in (0..Interval) \cup {None}
    /\ placeWait \in 0..Interval
    /\ cancelWait \in 0..Interval
    /\ resting \in [Indexes -> Nat]
    /\ unreported \in [Indexes -> Nat]
    /\ side \in [Indexes -> Directions]
    /\ unhedged \in Int
    /\ surprises \in 0..MaxSurprises

\* A fill of the active order always finds a pending order of the side the order rests on,
\* through deferrals, failed cancels and resets: on_lighter_maker_fill takes the side of
\* the hedge from it, and would drop the fill without it; the unwind takes its side from
\* last_maker_direction_.
FillFindsOrder ==
    activeIndex # None =>
        /\ pending # None
        /\ pending.direction = side[activeIndex]
        /\ lastDirection = side[activeIndex]

\* No order is added to the book, and none in it grows.
NothingPlaced == \A o \in Indexes : resting'[o] <= resting[o]

\* No maker order is sent while another is active, whatever was deferred before, however
\* the cancel of the active one was answered (execute_action, PlaceLighterMaker).
NoMakerBesideActive == [][activeIndex # None => NothingPlaced]_vars

\* While Hyperliquid fills a hedge in full or not at all and the venues do what the engine
\* reads, the Hyperliquid position offsets every Lighter fill taken up and not unwound.
HedgedBook == surprises = 0 => unhedged = 0

\* A deferred call is eventually run or superseded.
DeferralEnds == deferred # None ~> deferred = None
=============================================================================
