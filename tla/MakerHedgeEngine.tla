-------------------------- MODULE MakerHedgeEngine --------------------------
(***************************************************************************)
(* MakerHedgeEngine (src/src/engine.cpp, lines 17-842) with the two venues *)
(* it drives: a post-only maker order rests on Hyperliquid, every fill of  *)
(* it is hedged at once by an IOC order on Lighter, and a trade that       *)
(* crosses the maker price may fire that hedge before the fill is reported.*)
(*                                                                         *)
(* One action is one call the main loop makes: a tick (on_market_data),    *)
(* a fill message (on_hl_fill), a trade print (on_trade_event).  A call to *)
(* a venue is answered inside the action, by any answer the venue can give.*)
(* Between calls Hyperliquid executes resting orders and time passes.      *)
(*                                                                         *)
(* Sizes are base units and the mid price is 1, so max_position_usd is a   *)
(* number of base units.  Positions are signed: + is long on the venue.    *)
(***************************************************************************)
EXTENDS MakerStrategy, FiniteSets

CONSTANTS
    Oids,          \* order ids; an id is reused once nothing of its order is left
    Spreads,       \* the spreads a snapshot can show
    Interval,      \* EngineConfig::hl_order_interval_ms, in clock units
    MaxPosition,   \* StrategyConfig::max_position_usd
    MaxSize,       \* the largest of Sizes
    StartPositions,\* what the start-up position query may return
    SpecHedge,     \* TRUE: some trade is deep and large enough to cross the filters
    LighterCap,    \* bound: no trade print once |Lighter position| is that large
    MaxSurprises   \* bound: how often a venue does other than what it answers

ASSUME EngineAssumption ==
    /\ Spreads \subseteq Int
    /\ Interval \in Nat
    /\ MaxPosition \in Nat \ {0}
    /\ MaxSize \in Nat \ {0}
    /\ \A s \in Sizes : s <= MaxSize
    /\ StartPositions \subseteq Int
    /\ \A p \in StartPositions : AbsBps(p) < MaxPosition + MaxSize
    /\ SpecHedge \in BOOLEAN
    /\ LighterCap \in Nat
    /\ MaxSurprises \in Nat

Deferrals == [type : {"PlaceHlMaker", "CancelHlMaker"}, order : MakerOrders]
SpecHedges == [oid : Oids, size : Sizes]

ASSUME NoneIsNoEngineValue ==
    /\ None \notin Oids
    /\ None \notin Deferrals
    /\ None \notin SpecHedges

VARIABLES
    state, gate, pending, rearmWait,   \* the strategy_ member
    activeOid,       \* active_hl_oid_
    recentlyPlaced,  \* recently_placed_oids_
    lastDirection,   \* last_maker_direction_
    hlPosition,      \* hl_position_base_
    spec,            \* speculative_hedge_{sent_, oid_, size_}: None or [oid, size]
    deferred,        \* deferred_hl_action_: None or [type, order]
    retryWait,       \* next_retry_steady_ms_, as the time left; None when empty
    placeWait,       \* time left of the place limiter (last_hl_place_ms_)
    cancelWait,      \* time left of the cancel limiter (last_hl_cancel_ms_)
    resting,         \* Hyperliquid: the size of each order still in the book
    unreported,      \* executed size whose fill message is not processed yet
    side,            \* the direction each order was placed with
    answered,        \* history: HL base of the fills the engine took up, less unwinds
    ltPosition,      \* history: the position the IOC orders made on Lighter
    surprises        \* history: how often a venue's answer was not what it did

strategyVars == <<state, gate, pending, rearmWait>>
orderVars    == <<activeOid, recentlyPlaced, lastDirection>>
limiterVars  == <<deferred, retryWait, placeWait, cancelWait>>
venueVars    == <<resting, unreported, side>>
ledgerVars   == <<answered, ltPosition, surprises>>
vars == <<strategyVars, orderVars, hlPosition, spec, limiterVars, venueVars, ledgerVars>>

\* What a maker fill of that size adds to the Hyperliquid position.
Signed(d, size) == IF d = ShortLighterLongHl THEN size ELSE -size

Outcomes == {"confirmed", "unconfirmed", "failed"}

\* 1 when a Lighter IOC order of this size did other than its answer says: the code
\* reads "confirmed" as filled in full and any other answer as not filled at all.
IocSurprise(answer, size, filled) ==
    IF filled = (IF answer = "confirmed" THEN size ELSE 0) THEN 0 ELSE 1

\* surprises of this step, within the bound.
Charge(n) ==
    /\ surprises + n <= MaxSurprises
    /\ surprises' = surprises + n

\* A Lighter order on the hedge side of direction d that fills that much.
LighterAfter(d, filled) == ltPosition - Signed(d, filled)

----------------------------------------------------------------------------
(* Pieces the handlers share. *)

\* Faults of the code the properties must catch.
LimitBlocksOffByOne(d) ==
    /\ AbsBps(hlPosition) > MaxPosition
    /\ IF d = ShortLighterLongHl THEN hlPosition >= 0 ELSE hlPosition < 0

\* At the position limit an order that would increase the position is refused.
LimitBlocks(d) ==
    /\ AbsBps(hlPosition) >= MaxPosition
    /\ IF d = ShortLighterLongHl THEN hlPosition >= 0 ELSE hlPosition < 0

ResetKeepsGate ==
    /\ state' = "Idle"
    /\ pending' = None
    /\ UNCHANGED gate

\* HlMakerLighterHedger::reset: last_disarm_ms_ is kept, the rest is not.
ResetStrategy ==
    /\ state' = "Idle"
    /\ gate' = None
    /\ pending' = None

\* The side of the hedge comes from the order last placed, not from the strategy,
\* which an earlier partial fill may have reset.
HedgeSideFromStrategy ==
    IF pending # None THEN pending.direction ELSE ShortLighterLongHl

HedgeDirection == lastDirection

\* An order id nothing of which is left anywhere.
FreshOids ==
    {o \in Oids : resting[o] = 0 /\ unreported[o] = 0 /\ o \notin recentlyPlaced}

Deferral(type, order, wait) ==
    /\ deferred' = [type |-> type, order |-> order]
    /\ retryWait' = wait

DeferPlace(order) == Deferral("PlaceHlMaker", order, placeWait)

DeferCancelByPlaceLimiter(order) == Deferral("CancelHlMaker", order, placeWait)

DeferCancel(order) == Deferral("CancelHlMaker", order, cancelWait)

ClearDeferralKeepsAction ==
    /\ retryWait' = None
    /\ UNCHANGED deferred

ClearDeferral ==
    /\ deferred' = None
    /\ retryWait' = None

DeferredDueWithoutDeadline == deferred # None /\ retryWait = None

\* Not due while now_ms is before next_retry_steady_ms_.
DeferredDue == deferred # None /\ retryWait \in {None, 0}

----------------------------------------------------------------------------
(* execute_action: PlaceHlMaker once the limits let it through. *)

\* A limit order is acknowledged with its oid and rests, or the answer is an error:
\* then nothing rests, unless only the answer was lost (a surprise).  Without an ack
\* the engine remembers nothing of the order and the strategy keeps it as pending.
PlaceAccepted(order) ==
    \E o \in FreshOids :
        /\ resting' = [resting EXCEPT ![o] = order.size]
        /\ side' = [side EXCEPT ![o] = order.direction]
        /\ activeOid' = o
        /\ recentlyPlaced' = {o}
        /\ lastDirection' = order.direction
        /\ spec' = None
        /\ UNCHANGED surprises

PlaceRejected(order) ==
    /\ \/ UNCHANGED <<resting, side, surprises>>
       \/ \E o \in FreshOids :
              /\ resting' = [resting EXCEPT ![o] = order.size]
              /\ side' = [side EXCEPT ![o] = order.direction]
              /\ Charge(1)
    /\ UNCHANGED <<orderVars, spec>>

SendPlace(order) ==
    /\ placeWait' = Interval
    /\ ClearDeferral
    /\ PlaceAccepted(order) \/ PlaceRejected(order)
    /\ UNCHANGED <<cancelWait, hlPosition, unreported, answered, ltPosition>>

(* execute_action: CancelHlMaker once the rate limit lets it through.  The strategy *)
(* enters with s, g and p; only an acknowledged cancel resets it.                   *)

KeepStrategy(s, g, p) == state' = s /\ gate' = g /\ pending' = p

\* "cancel requested with no active oid": returns before any reset.
CancelNothing(s, g, p) ==
    /\ activeOid = None
    /\ KeepStrategy(s, g, p)
    /\ UNCHANGED <<activeOid, spec, resting, ltPosition, surprises>>

CancelAckedKeepsSpec ==
    /\ activeOid # None
    /\ resting' = [resting EXCEPT ![activeOid] = 0]
    /\ activeOid' = None
    /\ ResetStrategy
    /\ UNCHANGED <<spec, ltPosition, surprises>>

\* The order no longer rests (cancelled, or filled before: its fills are still to be
\* reported).  A speculative hedge is unwound, whatever Lighter answers.
CancelAcked ==
    /\ activeOid # None
    /\ resting' = [resting EXCEPT ![activeOid] = 0]
    /\ activeOid' = None
    /\ spec' = None
    /\ IF spec = None
       THEN UNCHANGED <<ltPosition, surprises>>
       ELSE \E filled \in 0..spec.size :
                /\ ltPosition' = LighterAfter(Opposite(HedgeDirection), filled)
                /\ Charge(IF filled = spec.size THEN 0 ELSE 1)
    /\ ResetStrategy

\* The cancel is answered with an error: the order may be gone all the same.
CancelFailed(s, g, p) ==
    /\ activeOid # None
    /\ resting' \in {resting, [resting EXCEPT ![activeOid] = 0]}
    /\ KeepStrategy(s, g, p)
    /\ UNCHANGED <<activeOid, spec, ltPosition, surprises>>

SendCancel(s, g, p) ==
    /\ cancelWait' = Interval
    /\ ClearDeferral
    /\ CancelNothing(s, g, p) \/ CancelAcked \/ CancelFailed(s, g, p)
    /\ UNCHANGED <<placeWait, recentlyPlaced, lastDirection, hlPosition,
                   unreported, side, answered>>

----------------------------------------------------------------------------
(* on_market_data.  spread = None is a snapshot that is not valid(). *)

NoAction(d, r) ==
    /\ deferred' = d
    /\ retryWait' = r
    /\ UNCHANGED <<placeWait, cancelWait, orderVars, hlPosition, spec, venueVars, ledgerVars>>

\* The snapshot asks for a maker order: refused at the position limit (the strategy is
\* reset so it does not get stuck), deferred by the rate limit, or sent.
DecidePlace(d, r, gateAfter) ==
    \E size \in Sizes :
        LET order == BuildMakerOrder(gateAfter, size) IN
        /\ UNCHANGED rearmWait
        /\ \/ /\ LimitBlocks(order.direction)
              /\ ResetStrategy
              /\ NoAction(d, r)
           \/ /\ ~LimitBlocks(order.direction)
              /\ KeepStrategy("PendingHlMaker", gateAfter, order)
              /\ \/ /\ placeWait > 0
                    /\ DeferPlace(order)
                    /\ UNCHANGED <<placeWait, cancelWait, orderVars, hlPosition, spec,
                                   venueVars, ledgerVars>>
                 \/ /\ placeWait = 0
                    /\ SendPlace(order)

\* The snapshot asks for a cancel; pending_maker_ is kept for a fill that is on its way.
DecideCancel(p) ==
    /\ rearmWait' = MinRearm
    /\ \/ /\ cancelWait > 0
          /\ DeferCancel(p)
          /\ KeepStrategy("CancelledPendingConfirm", None, p)
          /\ UNCHANGED <<placeWait, cancelWait, orderVars, hlPosition, spec,
                         venueVars, ledgerVars>>
       \/ /\ cancelWait = 0
          /\ SendCancel("CancelledPendingConfirm", None, p)

\* The strategy's snapshot handler and execute_action on what it returns, entered with
\* strategy state s, g, p and deferral d, r.
OnSnapshot(s, g, p, d, r, spread) ==
    IF spread = None
    THEN KeepStrategy(s, g, p) /\ UNCHANGED rearmWait /\ NoAction(d, r)
    ELSE LET gateAfter == GateAfter(g, rearmWait, spread, hlPosition) IN
         \/ /\ WantsPlace(s, gateAfter)
            /\ DecidePlace(d, r, gateAfter)
         \/ /\ WantsCancel(s, p, gateAfter, spread)
            /\ DecideCancel(p)
         \/ /\ ~WantsPlace(s, gateAfter)
            /\ ~WantsCancel(s, p, gateAfter, spread)
            /\ KeepStrategy(s, gateAfter, p)
            /\ rearmWait' = IF RestartsRearm(s, g, gateAfter) THEN MinRearm ELSE rearmWait
            /\ NoAction(d, r)

TickDeferredPlaceUnchecked ==
    /\ DeferredDue
    /\ deferred.type = "PlaceHlMaker"
    /\ SendPlace(deferred.order)
    /\ UNCHANGED strategyVars

\* A deferred action runs before the strategy sees the snapshot, valid or not, and its
\* log lines end the tick.
TickDeferredPlace ==
    /\ DeferredDue
    /\ deferred.type = "PlaceHlMaker"
    /\ ~LimitBlocks(deferred.order.direction)
    /\ SendPlace(deferred.order)
    /\ UNCHANGED strategyVars

TickDeferredCancel ==
    /\ DeferredDue
    /\ deferred.type = "CancelHlMaker"
    /\ SendCancel(state, gate, pending)
    /\ UNCHANGED rearmWait

\* The deferred order is refused at the position limit without a log line: the reset
\* strategy then handles the snapshot in the same tick.
TickDeferredRefused(spread) ==
    /\ DeferredDue
    /\ deferred.type = "PlaceHlMaker"
    /\ LimitBlocks(deferred.order.direction)
    /\ OnSnapshot("Idle", None, None, None, None, spread)

TickSnapshot(spread) ==
    /\ ~DeferredDue
    /\ OnSnapshot(state, gate, pending, deferred, retryWait, spread)

Tick(spread) ==
    \/ TickDeferredPlace
    \/ TickDeferredCancel
    \/ TickDeferredRefused(spread)
    \/ TickSnapshot(spread)

----------------------------------------------------------------------------
(* on_hl_fill.  The message of fill k of order o leaves the queue. *)

Report(o, k) ==
    /\ k <= unreported[o]
    /\ unreported' = [unreported EXCEPT ![o] = @ - k]
    /\ UNCHANGED <<resting, side, limiterVars, lastDirection, rearmWait>>

BookFill(o, k) ==
    /\ hlPosition' = hlPosition + Signed(HedgeDirection, k)
    /\ answered' = answered + Signed(side[o], k)

\* A fill of an order that is not the last one placed is ignored.
FillIgnored(o, k) ==
    /\ o \notin recentlyPlaced
    /\ Report(o, k)
    /\ UNCHANGED <<strategyVars, activeOid, recentlyPlaced, hlPosition, spec, ledgerVars>>

Speculated(o) == spec # None /\ spec.oid = o

\* The speculative hedge matches the fill, or falls short and is topped up by an IOC
\* order whose answer is only logged.
FillReconciled(o, k) ==
    /\ o \in recentlyPlaced
    /\ Speculated(o)
    /\ k >= spec.size
    /\ Report(o, k)
    /\ BookFill(o, k)
    /\ \E filled \in 0..(k - spec.size) :
           /\ ltPosition' = LighterAfter(HedgeDirection, filled)
           /\ Charge(IF filled = k - spec.size THEN 0 ELSE 1)
    /\ spec' = None
    /\ recentlyPlaced' = recentlyPlaced \ {o}
    /\ activeOid' = None
    /\ ResetStrategy

\* The fill is smaller than the speculative hedge: the overshoot is unwound at once and
\* the order stays active for the fills that may follow.
FillBelowSpec(o, k) ==
    /\ o \in recentlyPlaced
    /\ Speculated(o)
    /\ k < spec.size
    /\ Report(o, k)
    /\ BookFill(o, k)
    /\ \E filled \in 0..(spec.size - k) :
           /\ ltPosition' = LighterAfter(Opposite(HedgeDirection), filled)
           /\ Charge(IF filled = spec.size - k THEN 0 ELSE 1)
    /\ spec' = None
    /\ UNCHANGED <<recentlyPlaced, activeOid, state, gate, pending>>

\* The fill is hedged on Lighter, confirmed, and counted.
FillHedged(o, k) ==
    /\ o \in recentlyPlaced
    /\ ~Speculated(o)
    /\ Report(o, k)
    /\ BookFill(o, k)
    /\ \E filled \in 0..k :
           /\ ltPosition' = LighterAfter(HedgeDirection, filled)
           /\ Charge(IocSurprise("confirmed", k, filled))
    /\ activeOid' = None
    /\ ResetStrategy
    /\ UNCHANGED <<recentlyPlaced, spec>>

\* The hedge failed or is unconfirmed: the fill is unwound on Hyperliquid by a reduce-only
\* IOC order, whatever it fills, and hl_position_base_ is left alone.
FillUnwound(o, k) ==
    /\ o \in recentlyPlaced
    /\ ~Speculated(o)
    /\ Report(o, k)
    /\ \E answer \in Outcomes \ {"confirmed"}, filled \in 0..k, reduced \in 0..k :
           /\ ltPosition' = LighterAfter(HedgeDirection, filled)
           /\ answered' = answered + Signed(side[o], k) - Signed(HedgeDirection, reduced)
           /\ Charge(IocSurprise(answer, k, filled) + IF reduced = k THEN 0 ELSE 1)
    /\ activeOid' = None
    /\ ResetStrategy
    /\ UNCHANGED <<recentlyPlaced, spec, hlPosition>>

OnHlFill(o, k) ==
    \/ FillIgnored(o, k)
    \/ FillReconciled(o, k)
    \/ FillBelowSpec(o, k)
    \/ FillHedged(o, k)
    \/ FillUnwound(o, k)

(* on_trade_event: a trade crosses the price of the pending order, and the whole *)
(* order is hedged before its fill is reported.  Only a confirmed hedge is kept. *)
OnTradeEvent ==
    /\ SpecHedge
    /\ AbsBps(ltPosition) < LighterCap
    /\ activeOid # None
    /\ pending # None
    /\ spec = None
    /\ \E answer \in Outcomes, filled \in 0..pending.size :
           /\ ltPosition' = LighterAfter(pending.direction, filled)
           /\ Charge(IocSurprise(answer, pending.size, filled))
           /\ spec' = IF answer = "confirmed"
                      THEN [oid |-> activeOid, size |-> pending.size]
                      ELSE None
    /\ UNCHANGED <<strategyVars, orderVars, hlPosition, limiterVars, venueVars, answered>>

----------------------------------------------------------------------------
(* The environment. *)

\* Hyperliquid executes part of a resting order; the message follows later.
Execute(o, k) ==
    /\ k <= resting[o]
    /\ resting' = [resting EXCEPT ![o] = @ - k]
    /\ unreported' = [unreported EXCEPT ![o] = @ + k]
    /\ UNCHANGED <<strategyVars, orderVars, hlPosition, spec, limiterVars, side, ledgerVars>>

\* One clock unit passes.
Advance ==
    /\ \/ rearmWait > 0
       \/ placeWait > 0
       \/ cancelWait > 0
    /\ rearmWait' = Elapse(rearmWait)
    /\ placeWait' = Elapse(placeWait)
    /\ cancelWait' = Elapse(cancelWait)
    /\ retryWait' = IF retryWait = None THEN None ELSE Elapse(retryWait)
    /\ UNCHANGED <<state, gate, pending, orderVars, hlPosition, spec, deferred,
                   venueVars, ledgerVars>>

\* The position query of the start-up: the book is taken to be hedged at that moment.
Init ==
    /\ state = "Idle"
    /\ gate = None
    /\ pending = None
    /\ rearmWait = 0
    /\ activeOid = None
    /\ recentlyPlaced = {}
    /\ lastDirection = ShortLighterLongHl
    /\ hlPosition \in StartPositions
    /\ spec = None
    /\ deferred = None
    /\ retryWait = None
    /\ placeWait = 0
    /\ cancelWait = 0
    /\ resting = [o \in Oids |-> 0]
    /\ unreported = [o \in Oids |-> 0]
    /\ side = [o \in Oids |-> ShortLighterLongHl]
    /\ answered = hlPosition
    /\ ltPosition = -hlPosition
    /\ surprises = 0

Next ==
    \/ \E spread \in Spreads \cup {None} : Tick(spread)
    \/ \E o \in Oids, k \in 1..MaxSize : OnHlFill(o, k)
    \/ OnTradeEvent
    \/ \E o \in Oids, k \in 1..MaxSize : Execute(o, k)
    \/ Advance

Spec == Init /\ [][Next]_vars

\* What the main loop gives: it wakes at least once a second and at every quote, and the
\* deadline it sleeps until is next_retry_steady_ms_.
LoopFairness ==
    /\ WF_vars(\E spread \in Spreads \cup {None} : Tick(spread))
    /\ WF_vars(Advance)

LoopSpec == Spec /\ LoopFairness

----------------------------------------------------------------------------
(* Properties. *)

\* Every variable keeps its type: the members of strategy_, those of MakerHedgeEngine,
\* and the venues.
StrategyTypeOK ==
    /\ state \in {"Idle", "PendingHlMaker", "CancelledPendingConfirm"}
    /\ gate \in Gates \cup {None}
    /\ pending \in MakerOrders \cup {None}
    /\ rearmWait \in 0..MinRearm

LimiterTypeOK ==
    /\ deferred \in Deferrals \cup {None}
    /\ retryWait \in (0..Interval) \cup {None}
    /\ placeWait \in 0..Interval
    /\ cancelWait \in 0..Interval

OrderTypeOK ==
    /\ activeOid \in Oids \cup {None}
    /\ recentlyPlaced \in SUBSET Oids
    /\ lastDirection \in Directions
    /\ hlPosition \in Int
    /\ spec \in SpecHedges \cup {None}
    /\ resting \in [Oids -> Nat]
    /\ unreported \in [Oids -> Nat]
    /\ side \in [Oids -> Directions]
    /\ answered \in Int
    /\ ltPosition \in Int
    /\ surprises \in 0..MaxSurprises

TypeOK == StrategyTypeOK /\ LimiterTypeOK /\ OrderTypeOK

\* The position the engine counts (hl_position_base_) passes the limit by less than one
\* order, however placements are deferred, fills are split, late or after a cancel: the
\* limit is checked when an order is sent, and only fills of the last order are counted.
PositionBounded == AbsBps(hlPosition) < MaxPosition + MaxSize

\* While the venues do what they answer and no speculative hedge is out, the Lighter
\* position offsets every Hyperliquid fill the engine took up, on the right side: across
\* partial fills after the strategy was reset, late fills of a cancelled order, failed
\* hedges that are unwound (on_hl_fill, every path).
HedgedBook == surprises = 0 /\ spec = None => answered + ltPosition = 0

\* The last order placed can still fill in full, late or in parts, without breaking
\* PositionBounded, and its direction is the one the engine hedges with.
LastOrderFits ==
    \A o \in recentlyPlaced :
        /\ side[o] = lastDirection
        /\ Signed(lastDirection, hlPosition) + resting[o] + unreported[o]
               < MaxPosition + MaxSize

\* A cancel the venue has not acknowledged blocks the next maker order: while the engine
\* waits in CancelledPendingConfirm for an order that is still active, no tick and no
\* deferred action places another (test_cancel_failed_does_not_rearm_second_maker).
NoSecondMaker ==
    [][state = "CancelledPendingConfirm" /\ activeOid # None
         => recentlyPlaced' \subseteq recentlyPlaced]_vars

\* A speculative hedge is never out for an order that is not the active one: the fill
\* that reconciles it and the cancel that unwinds it both find it.
SpecFollowsOrder ==
    spec # None => activeOid = spec.oid /\ recentlyPlaced = {spec.oid}

\* The deadline the main loop sleeps until is the moment the limiter of the deferred call
\* opens, whatever was sent in between: the retry is never rate-limited again.
RetryWhenAllowed ==
    /\ deferred = None <=> retryWait = None
    /\ deferred # None =>
           retryWait = IF deferred.type = "PlaceHlMaker" THEN placeWait ELSE cancelWait

\* The signal gate and the pending order tell the same story: an armed gate has an order
\* of its direction and entry, and an idle strategy has no armed gate, so a spread that
\* reverts cancels exactly when it disarms (on_market_snapshot, reset).
GateMatchesOrder ==
    /\ state = "Idle" => gate = None
    /\ state = "PendingHlMaker" =>
           /\ gate # None /\ pending # None
           /\ gate.direction = pending.direction /\ gate.entry = pending.entry

\* A deferred action is eventually run, refused or superseded.
DeferralEnds == deferred # None ~> deferred = None

\* "Each partial fill must be hedged independently" (engine.cpp:110): every fill message
\* of an acknowledged order is taken up.
EveryFillTakenUp ==
    [][\A o \in Oids : unreported'[o] < unreported[o] => o \in recentlyPlaced]_vars
=============================================================================
