----------------------- MODULE MakerHedgeEngine_proofs -----------------------
(***************************************************************************)
(* Proofs about MakerHedgeEngine, for all values of its constants.         *)
(*                                                                         *)
(* A tick ends in one of four ways as far as orders, positions and the     *)
(* venues go: nothing, a placement below the position limit, a cancel, or  *)
(* an update of strategy and limiter alone.  The first lemmas say so; the  *)
(* invariants are then proved one kind of step at a time.                  *)
(***************************************************************************)
EXTENDS MakerHedgeEngine, TLAPS

\* Everything but the strategy and the limiter is left alone.
Quiet == UNCHANGED <<orderVars, hlPosition, spec, venueVars, ledgerVars>>

\* A maker order is sent that the position limit allows.
Places == \E order \in MakerOrders : ~LimitBlocks(order.direction) /\ SendPlace(order)

\* A cancel is sent, or dropped for want of an active order.
Cancels == CancelNothing(state', gate', pending') \/ CancelAcked
             \/ CancelFailed(state', gate', pending')

CancelsQuietly ==
    /\ Cancels
    /\ UNCHANGED <<recentlyPlaced, lastDirection, hlPosition, unreported, side, answered>>

\* The signal gate keeps its type through a snapshot (GateAfter).
LEMMA GateAfterType ==
    ASSUME NEW g \in Gates \cup {None}, NEW wait, NEW spread \in Int, NEW position \in Int
    PROVE  GateAfter(g, wait, spread, position) \in Gates \cup {None}
  BY StrategyAssumption
     DEF GateAfter, Gates, Entries, EffectiveSpread, DirectionForSpread, Directions

\* A maker order built from an armed gate is a maker order (build_maker_order).
LEMMA BuiltOrderType ==
    ASSUME NEW g \in Gates, NEW size \in Sizes
    PROVE  BuildMakerOrder(g, size) \in MakerOrders
  BY DEF BuildMakerOrder, Gates, MakerOrders

\* What a cancel does to everything but the strategy (execute_action, CancelHlMaker).
LEMMA SendCancelEffect ==
    ASSUME NEW s, NEW g, NEW p, SendCancel(s, g, p)
    PROVE  CancelsQuietly
  BY DEF SendCancel, CancelsQuietly, Cancels, CancelNothing, CancelFailed, KeepStrategy

\* A snapshot changes orders and positions only by a placement or a cancel.
LEMMA SnapshotEffect ==
    ASSUME NEW s, NEW g \in Gates \cup {None}, NEW p, NEW d, NEW r,
           NEW spread \in Int \cup {None}, hlPosition \in Int,
           OnSnapshot(s, g, p, d, r, spread)
    PROVE  Quiet \/ Places \/ CancelsQuietly
<1>1. CASE spread = None
  BY <1>1 DEF OnSnapshot, NoAction, Quiet
<1>2. CASE spread # None
  <2> DEFINE gateAfter == GateAfter(g, rearmWait, spread, hlPosition)
  <2>1. gateAfter \in Gates \cup {None}
    BY <1>2, GateAfterType
  <2>2. CASE WantsPlace(s, gateAfter) /\ DecidePlace(d, r, gateAfter)
    <3>1. PICK size \in Sizes :
             LET order == BuildMakerOrder(gateAfter, size) IN
             \/ NoAction(d, r)
             \/ UNCHANGED <<placeWait, cancelWait, orderVars, hlPosition, spec,
                            venueVars, ledgerVars>>
             \/ ~LimitBlocks(order.direction) /\ SendPlace(order)
      BY <2>2 DEF DecidePlace
    <3>2. BuildMakerOrder(gateAfter, size) \in MakerOrders
      BY <2>1, <2>2, BuiltOrderType DEF WantsPlace
    <3> QED
      BY <3>1, <3>2 DEF Quiet, Places, NoAction
  <2>3. CASE DecideCancel(p)
    BY <2>3, SendCancelEffect DEF DecideCancel, Quiet
  <2>4. CASE NoAction(d, r)
    BY <2>4 DEF NoAction, Quiet
  <2> QED
    BY <1>2, <2>2, <2>3, <2>4 DEF OnSnapshot
<1> QED
  BY <1>1, <1>2

\* The same of a whole tick, a deferred action included (on_market_data).
LEMMA TickEffect ==
    ASSUME TypeOK, NEW spread \in Spreads \cup {None}, Tick(spread)
    PROVE  Quiet \/ Places \/ CancelsQuietly
<1>1. spread \in Int \cup {None}
  BY EngineAssumption
<1>2. hlPosition \in Int /\ gate \in Gates \cup {None}
  BY DEF TypeOK, StrategyTypeOK, OrderTypeOK
<1>3. CASE TickDeferredPlace
  <2>1. deferred.order \in MakerOrders
    BY <1>3 DEF TickDeferredPlace, DeferredDue, TypeOK, LimiterTypeOK, Deferrals
  <2> QED
    BY <1>3, <2>1 DEF TickDeferredPlace, Places
<1>4. CASE TickDeferredCancel
  BY <1>4, SendCancelEffect DEF TickDeferredCancel
<1>5. CASE TickDeferredRefused(spread)
  BY <1>1, <1>2, <1>5, SnapshotEffect DEF TickDeferredRefused
<1>6. CASE TickSnapshot(spread)
  BY <1>1, <1>2, <1>6, SnapshotEffect DEF TickSnapshot
<1> QED
  BY <1>3, <1>4, <1>5, <1>6 DEF Tick

----------------------------------------------------------------------------
(* Orders and positions. *)

\* The active order is the last one placed, and the only one remembered.
LastIsOnly ==
    /\ \A o, q \in recentlyPlaced : o = q
    /\ activeOid # None => activeOid \in recentlyPlaced

\* The inductive invariant of the position limit: the limit itself says nothing of the
\* order in the book, LastOrderFits does.
PositionInv ==
    /\ OrderTypeOK
    /\ LastIsOnly
    /\ SpecFollowsOrder
    /\ LastOrderFits
    /\ PositionBounded

\* The direction a position is measured in does not change its distance from flat.
LEMMA SignedWithin ==
    ASSUME NEW d, NEW x \in Int, NEW n \in Int
    PROVE  AbsBps(x) < n <=> Signed(d, x) < n /\ Signed(d, x) > -n
  BY DEF AbsBps, Signed

\* A placement below the limit leaves room for the whole order.
LEMMA PlacesKeepsPositionInv ==
    ASSUME PositionInv, Places
    PROVE  PositionInv'
<1>1. PICK order \in MakerOrders : ~LimitBlocks(order.direction) /\ SendPlace(order)
  BY DEF Places
<1>2. /\ order.size \in Nat /\ order.size <= MaxSize /\ order.direction \in Directions
  BY StrategyAssumption, EngineAssumption DEF MakerOrders
<1>3. hlPosition' = hlPosition /\ unreported' = unreported
      /\ answered' = answered /\ ltPosition' = ltPosition
  BY <1>1 DEF SendPlace
<1>4. CASE PlaceAccepted(order)
  <2>1. PICK o \in FreshOids :
           /\ resting' = [resting EXCEPT ![o] = order.size]
           /\ side' = [side EXCEPT ![o] = order.direction]
           /\ activeOid' = o
           /\ recentlyPlaced' = {o}
           /\ lastDirection' = order.direction
           /\ spec' = None
           /\ UNCHANGED surprises
    BY <1>4 DEF PlaceAccepted
  <2>2. o \in Oids /\ unreported[o] = 0
    BY <2>1 DEF FreshOids
  <2>3. OrderTypeOK'
    BY <1>2, <1>3, <2>1, <2>2 DEF PositionInv, OrderTypeOK
  <2>4. Signed(order.direction, hlPosition) + order.size < MaxPosition + MaxSize
    BY <1>1, <1>2, EngineAssumption
       DEF LimitBlocks, Signed, AbsBps, Directions, PositionInv, OrderTypeOK
  <2>5. LastOrderFits'
    <3>1. resting'[o] = order.size /\ unreported'[o] = 0 /\ side'[o] = order.direction
      BY <1>3, <2>1, <2>2 DEF PositionInv, OrderTypeOK
    <3>2. Signed(order.direction, hlPosition) \in Int
      BY <1>2 DEF Signed, PositionInv, OrderTypeOK
    <3> QED
      BY <1>2, <1>3, <2>1, <2>4, <3>1, <3>2 DEF LastOrderFits
  <2>6. LastIsOnly' /\ SpecFollowsOrder'
    BY <2>1 DEF LastIsOnly, SpecFollowsOrder
  <2> QED
    BY <1>3, <2>3, <2>5, <2>6 DEF PositionInv, PositionBounded
<1>5. CASE PlaceRejected(order)
  <2>1. UNCHANGED <<orderVars, spec>>
    BY <1>5 DEF PlaceRejected
  <2>2. /\ OrderTypeOK'
        /\ \A o \in recentlyPlaced : resting'[o] = resting[o] /\ side'[o] = side[o]
    <3>1. CASE UNCHANGED <<resting, side, surprises>>
      BY <1>3, <2>1, <3>1 DEF PositionInv, OrderTypeOK, orderVars
    <3>2. ASSUME NEW o \in FreshOids,
                 resting' = [resting EXCEPT ![o] = order.size],
                 side' = [side EXCEPT ![o] = order.direction],
                 Charge(1)
          PROVE  /\ OrderTypeOK'
                 /\ \A q \in recentlyPlaced : resting'[q] = resting[q] /\ side'[q] = side[q]
      BY <1>2, <1>3, <2>1, <3>2, EngineAssumption
         DEF PositionInv, OrderTypeOK, orderVars, FreshOids, Charge
    <3> QED
      BY <1>5, <3>1, <3>2 DEF PlaceRejected
  <2> QED
    BY <1>3, <2>1, <2>2
       DEF PositionInv, orderVars, LastIsOnly, SpecFollowsOrder, LastOrderFits, PositionBounded
<1> QED
  BY <1>1, <1>4, <1>5 DEF SendPlace

\* A cancel only takes size out of the book.
LEMMA CancelsKeepsPositionInv ==
    ASSUME PositionInv, CancelsQuietly
    PROVE  PositionInv'
<1>1. UNCHANGED <<recentlyPlaced, lastDirection, hlPosition, unreported, side, answered>>
  BY DEF CancelsQuietly
<1>2. /\ resting' \in [Oids -> Nat]
      /\ \A o \in Oids : resting'[o] <= resting[o]
  BY DEF CancelsQuietly, Cancels, CancelNothing, CancelAcked, CancelFailed,
         PositionInv, OrderTypeOK
<1>3. /\ activeOid' \in {activeOid, None}
      /\ spec' = None \/ UNCHANGED <<spec, activeOid>>
  BY DEF CancelsQuietly, Cancels, CancelNothing, CancelAcked, CancelFailed
<1>4. ltPosition' \in Int /\ surprises' \in 0..MaxSurprises
  <2>1. CASE UNCHANGED <<ltPosition, surprises>>
    BY <2>1 DEF PositionInv, OrderTypeOK
  <2>2. ASSUME spec # None,
               NEW filled \in 0..spec.size,
               ltPosition' = LighterAfter(Opposite(HedgeDirection), filled),
               Charge(IF filled = spec.size THEN 0 ELSE 1)
        PROVE  ltPosition' \in Int /\ surprises' \in 0..MaxSurprises
    BY <2>2, StrategyAssumption, EngineAssumption
       DEF PositionInv, OrderTypeOK, SpecHedges, LighterAfter, Signed, Charge
  <2> QED
    BY <2>1, <2>2 DEF CancelsQuietly, Cancels, CancelNothing, CancelAcked, CancelFailed
<1>5. OrderTypeOK'
  BY <1>1, <1>2, <1>3, <1>4 DEF PositionInv, OrderTypeOK
<1>6. LastOrderFits'
  <2> SUFFICES ASSUME NEW o \in recentlyPlaced
               PROVE  /\ side[o] = lastDirection
                      /\ Signed(lastDirection, hlPosition) + resting'[o] + unreported[o]
                             < MaxPosition + MaxSize
    BY <1>1 DEF LastOrderFits
  <2>1. /\ o \in Oids
        /\ Signed(lastDirection, hlPosition) \in Int
    BY DEF PositionInv, OrderTypeOK, Signed
  <2> QED
    BY <1>2, <2>1, EngineAssumption DEF PositionInv, OrderTypeOK, LastOrderFits
<1> QED
  BY <1>1, <1>3, <1>5, <1>6 DEF PositionInv, LastIsOnly, SpecFollowsOrder, PositionBounded

\* A fill message of an order the engine remembers moves the position by what it takes
\* from unreported, or leaves the position alone.
LEMMA FillKeepsPositionInv ==
    ASSUME PositionInv, NEW o \in Oids, NEW k \in 1..MaxSize, OnHlFill(o, k)
    PROVE  PositionInv'
<1>1. /\ k \in Nat /\ k <= unreported[o]
      /\ unreported' = [unreported EXCEPT ![o] = @ - k]
      /\ UNCHANGED <<resting, side, lastDirection>>
  BY EngineAssumption
     DEF OnHlFill, FillIgnored, FillReconciled, FillBelowSpec, FillHedged, FillUnwound, Report
<1>2. /\ resting' \in [Oids -> Nat] /\ unreported' \in [Oids -> Nat]
      /\ side' \in [Oids -> Directions] /\ lastDirection' \in Directions
  BY <1>1 DEF PositionInv, OrderTypeOK
<1>3. recentlyPlaced' \subseteq recentlyPlaced
  BY DEF OnHlFill, FillIgnored, FillReconciled, FillBelowSpec, FillHedged, FillUnwound
<1>4. \/ UNCHANGED <<activeOid, recentlyPlaced, spec>>
      \/ activeOid' = None /\ recentlyPlaced' = recentlyPlaced \ {o} /\ spec' = None
      \/ UNCHANGED <<activeOid, recentlyPlaced>> /\ spec' = None
      \/ activeOid' = None /\ UNCHANGED <<recentlyPlaced, spec>> /\ ~Speculated(o)
             /\ o \in recentlyPlaced
  BY DEF OnHlFill, FillIgnored, FillReconciled, FillBelowSpec, FillHedged, FillUnwound
<1>5. LastIsOnly' /\ SpecFollowsOrder'
  BY <1>3, <1>4 DEF PositionInv, LastIsOnly, SpecFollowsOrder, Speculated
<1>6. \/ hlPosition' = hlPosition
      \/ o \in recentlyPlaced /\ hlPosition' = hlPosition + Signed(lastDirection, k)
  BY DEF OnHlFill, FillIgnored, FillReconciled, FillBelowSpec, FillHedged, FillUnwound,
         BookFill, HedgeDirection, ledgerVars
<1>7. hlPosition' \in Int /\ PositionBounded' /\ LastOrderFits'
  <2>1. CASE hlPosition' = hlPosition
    <3>1. ASSUME NEW q \in recentlyPlaced
          PROVE  /\ unreported'[q] <= unreported[q]
                 /\ side'[q] = lastDirection
                 /\ Signed(lastDirection, hlPosition) + resting'[q] + unreported'[q]
                        < MaxPosition + MaxSize
      <4>1. q \in Oids /\ Signed(lastDirection, hlPosition) \in Int
        BY DEF PositionInv, OrderTypeOK, Signed
      <4>2. unreported'[q] \in Nat /\ unreported'[q] <= unreported[q]
        BY <1>1, <1>2, <4>1 DEF PositionInv, OrderTypeOK
      <4> QED
        BY <1>1, <4>1, <4>2, EngineAssumption DEF PositionInv, OrderTypeOK, LastOrderFits
    <3> QED
      BY <1>1, <1>3, <2>1, <3>1
         DEF PositionInv, OrderTypeOK, PositionBounded, LastOrderFits
  <2>2. CASE o \in recentlyPlaced /\ hlPosition' = hlPosition + Signed(lastDirection, k)
    <3>1. /\ hlPosition' \in Int
          /\ Signed(lastDirection, hlPosition') = Signed(lastDirection, hlPosition) + k
          /\ unreported'[o] = unreported[o] - k
      BY <1>1, <2>2 DEF PositionInv, OrderTypeOK, Signed
    <3>2. /\ Signed(lastDirection, hlPosition) \in Int
          /\ resting[o] \in Nat /\ unreported[o] \in Nat
          /\ side[o] = lastDirection
          /\ Signed(lastDirection, hlPosition) + resting[o] + unreported[o]
                 < MaxPosition + MaxSize
      BY <2>2 DEF PositionInv, OrderTypeOK, Signed, LastOrderFits
    <3>3. PositionBounded'
      <4> DEFINE before == Signed(lastDirection, hlPosition)
                 after == Signed(lastDirection, hlPosition')
      <4>1. before < MaxPosition + MaxSize /\ before > -(MaxPosition + MaxSize)
        BY SignedWithin, EngineAssumption DEF PositionInv, OrderTypeOK, PositionBounded
      <4>2. after < MaxPosition + MaxSize /\ after > -(MaxPosition + MaxSize)
        BY <1>1, <3>1, <3>2, <4>1, EngineAssumption
      <4> QED
        BY <3>1, <4>2, SignedWithin, EngineAssumption DEF PositionBounded
    <3>4. LastOrderFits'
      BY <1>1, <1>3, <2>2, <3>1, <3>2, EngineAssumption
         DEF PositionInv, LastIsOnly, LastOrderFits
    <3> QED
      BY <3>1, <3>3, <3>4
  <2> QED
    BY <1>6, <2>1, <2>2
<1>8. answered' \in Int /\ ltPosition' \in Int /\ surprises' \in 0..MaxSurprises
  <2>1. spec # None => spec.size \in Nat
    BY StrategyAssumption DEF PositionInv, OrderTypeOK, SpecHedges
  <2>2. \A d \in Directions, n \in Nat : Signed(d, n) \in Int /\ LighterAfter(d, n) \in Int
    BY DEF Signed, LighterAfter, PositionInv, OrderTypeOK
  <2>3. /\ side[o] \in Directions /\ HedgeDirection \in Directions
        /\ Opposite(HedgeDirection) \in Directions
        /\ answered \in Int /\ ltPosition \in Int /\ surprises \in 0..MaxSurprises
    BY DEF PositionInv, OrderTypeOK, HedgeDirection, Opposite, Directions
  <2>4. \A n \in Int : Charge(n) /\ n >= 0 => surprises' \in 0..MaxSurprises
    BY <2>3, EngineAssumption DEF Charge
  <2>5. CASE FillIgnored(o, k)
    BY <2>3, <2>5 DEF FillIgnored, ledgerVars
  <2>6. CASE FillReconciled(o, k)
    BY <1>1, <2>1, <2>2, <2>3, <2>4, <2>6 DEF FillReconciled, BookFill, Speculated
  <2>7. CASE FillBelowSpec(o, k)
    BY <1>1, <2>1, <2>2, <2>3, <2>4, <2>7 DEF FillBelowSpec, BookFill, Speculated
  <2>8. CASE FillHedged(o, k)
    BY <1>1, <2>2, <2>3, <2>4, <2>8 DEF FillHedged, BookFill, IocSurprise
  <2>9. CASE FillUnwound(o, k)
    <3>1. PICK answer \in Outcomes \ {"confirmed"}, filled \in 0..k, reduced \in 0..k :
             /\ ltPosition' = LighterAfter(HedgeDirection, filled)
             /\ answered' = answered + Signed(side[o], k) - Signed(HedgeDirection, reduced)
             /\ Charge(IocSurprise(answer, k, filled) + IF reduced = k THEN 0 ELSE 1)
      BY <2>9 DEF FillUnwound
    <3>2. IocSurprise(answer, k, filled) \in {0, 1}
      BY DEF IocSurprise
    <3>3. surprises' \in 0..MaxSurprises
      BY <2>4, <3>1, <3>2
    <3> QED
      BY <1>1, <2>2, <2>3, <3>1, <3>3
  <2> QED
    BY <2>5, <2>6, <2>7, <2>8, <2>9 DEF OnHlFill
<1>9. OrderTypeOK'
  BY <1>2, <1>3, <1>4, <1>7, <1>8 DEF PositionInv, OrderTypeOK
<1> QED
  BY <1>5, <1>7, <1>9 DEF PositionInv

\* A speculative hedge is booked for the active order, the only one remembered.
LEMMA TradeKeepsPositionInv ==
    ASSUME PositionInv, pending \in MakerOrders \cup {None}, OnTradeEvent
    PROVE  PositionInv'
<1>1. UNCHANGED <<orderVars, hlPosition, venueVars, answered>>
  BY DEF OnTradeEvent
<1>2. pending.direction \in Directions /\ pending.size \in Sizes /\ pending.size \in Nat
  BY StrategyAssumption DEF OnTradeEvent, MakerOrders
<1>3. PICK answer \in Outcomes, filled \in 0..pending.size :
         /\ ltPosition' = LighterAfter(pending.direction, filled)
         /\ Charge(IocSurprise(answer, pending.size, filled))
         /\ spec' = IF answer = "confirmed"
                    THEN [oid |-> activeOid, size |-> pending.size]
                    ELSE None
  BY DEF OnTradeEvent
<1>4. IocSurprise(answer, pending.size, filled) \in {0, 1}
  BY DEF IocSurprise
<1>5. ltPosition' \in Int /\ surprises' \in 0..MaxSurprises
  BY <1>2, <1>3, <1>4, EngineAssumption
     DEF LighterAfter, Signed, Charge, PositionInv, OrderTypeOK
<1>6. activeOid \in Oids /\ recentlyPlaced = {activeOid}
  BY DEF OnTradeEvent, PositionInv, LastIsOnly, OrderTypeOK
<1>7. spec' \in SpecHedges \cup {None} /\ SpecFollowsOrder'
  BY <1>1, <1>2, <1>3, <1>6 DEF SpecHedges, SpecFollowsOrder, orderVars
<1> QED
  BY <1>1, <1>5, <1>7
     DEF PositionInv, OrderTypeOK, LastIsOnly, LastOrderFits, PositionBounded,
         orderVars, venueVars

\* An execution turns resting size into unreported size.
LEMMA ExecuteKeepsPositionInv ==
    ASSUME PositionInv, NEW o \in Oids, NEW k \in 1..MaxSize, Execute(o, k)
    PROVE  PositionInv'
<1>1. /\ k \in Nat /\ k <= resting[o]
      /\ resting' = [resting EXCEPT ![o] = @ - k]
      /\ unreported' = [unreported EXCEPT ![o] = @ + k]
      /\ UNCHANGED <<orderVars, hlPosition, spec, side, ledgerVars>>
  BY EngineAssumption DEF Execute
<1>2. OrderTypeOK'
  BY <1>1 DEF PositionInv, OrderTypeOK, orderVars, ledgerVars
<1>3. LastOrderFits'
  <2> SUFFICES ASSUME NEW q \in recentlyPlaced
               PROVE  /\ side[q] = lastDirection
                      /\ Signed(lastDirection, hlPosition) + resting'[q] + unreported'[q]
                             < MaxPosition + MaxSize
    BY <1>1 DEF LastOrderFits, orderVars
  <2>1. q \in Oids /\ Signed(lastDirection, hlPosition) \in Int
    BY DEF PositionInv, OrderTypeOK, Signed
  <2>2. resting'[q] + unreported'[q] = resting[q] + unreported[q]
    BY <1>1, <2>1 DEF PositionInv, OrderTypeOK
  <2>3. resting'[q] \in Nat /\ unreported'[q] \in Nat
    BY <1>2, <2>1 DEF OrderTypeOK
  <2> QED
    BY <2>1, <2>2, <2>3, EngineAssumption DEF PositionInv, OrderTypeOK, LastOrderFits
<1> QED
  BY <1>1, <1>2, <1>3
     DEF PositionInv, LastIsOnly, SpecFollowsOrder, PositionBounded, orderVars

----------------------------------------------------------------------------
(* The strategy and the limiter. *)

\* A strategy state and a deferral the engine can hold together.  Beyond the types: the
\* gate matches the order, the retry is due when its limiter opens, and a placement is
\* never left deferred while a cancel is being confirmed.
Consistent(s, g, p, d, r) ==
    /\ s \in {"Idle", "PendingHlMaker", "CancelledPendingConfirm"}
    /\ g \in Gates \cup {None}
    /\ p \in MakerOrders \cup {None}
    /\ d \in Deferrals \cup {None}
    /\ s = "Idle" => g = None
    /\ s = "PendingHlMaker" =>
           /\ g # None /\ p # None
           /\ g.direction = p.direction /\ g.entry = p.entry
    /\ d = None <=> r = None
    /\ d # None => r = IF d.type = "PlaceHlMaker" THEN placeWait ELSE cancelWait
    /\ s = "CancelledPendingConfirm" /\ d # None => d.type = "CancelHlMaker"

WaitsOK ==
    /\ rearmWait \in 0..MinRearm
    /\ placeWait \in 0..Interval
    /\ cancelWait \in 0..Interval

\* The inductive invariant of the strategy and the limiter.
ControlInv == Consistent(state, gate, pending, deferred, retryWait) /\ WaitsOK

\* ControlInv implies the types and the invariants the runs check.
LEMMA ControlInvImplies ==
    ASSUME ControlInv
    PROVE  StrategyTypeOK /\ LimiterTypeOK /\ GateMatchesOrder /\ RetryWhenAllowed
  BY DEF ControlInv, Consistent, WaitsOK, StrategyTypeOK, LimiterTypeOK, GateMatchesOrder,
         RetryWhenAllowed

\* A placement that is sent leaves no deferral (PlaceHlMaker, send).
LEMMA SendPlaceKeepsControl ==
    ASSUME WaitsOK, NEW order, SendPlace(order), UNCHANGED rearmWait,
           NEW s, NEW g, NEW p, KeepStrategy(s, g, p), Consistent(s, g, p, None, None)
    PROVE  ControlInv'
  BY EngineAssumption
     DEF SendPlace, ClearDeferral, KeepStrategy, ControlInv, Consistent, WaitsOK

\* A cancel that is sent leaves no deferral, whatever becomes of it.
LEMMA SendCancelKeepsControl ==
    ASSUME WaitsOK, rearmWait' \in 0..MinRearm,
           NEW s, NEW g, NEW p, SendCancel(s, g, p), Consistent(s, g, p, None, None)
    PROVE  ControlInv'
<1>1. /\ cancelWait' = Interval /\ placeWait' = placeWait
      /\ deferred' = None /\ retryWait' = None
  BY DEF SendCancel, ClearDeferral
<1>2. KeepStrategy(s, g, p) \/ ResetStrategy
  BY DEF SendCancel, CancelNothing, CancelAcked, CancelFailed
<1> QED
  BY <1>1, <1>2, EngineAssumption
     DEF KeepStrategy, ResetStrategy, ControlInv, Consistent, WaitsOK

\* Without an action the strategy keeps what it has, and so does the limiter.
LEMMA NoActionKeepsControl ==
    ASSUME WaitsOK, rearmWait' \in 0..MinRearm, NEW d, NEW r, NoAction(d, r),
           NEW s, NEW g, NEW p, KeepStrategy(s, g, p), Consistent(s, g, p, d, r)
    PROVE  ControlInv'
  BY DEF NoAction, KeepStrategy, ControlInv, Consistent, WaitsOK

\* The snapshot handler, entered with any consistent strategy and deferral.
LEMMA SnapshotKeepsControl ==
    ASSUME WaitsOK, hlPosition \in Int, NEW spread \in Int \cup {None},
           NEW s, NEW g, NEW p, NEW d, NEW r, Consistent(s, g, p, d, r),
           OnSnapshot(s, g, p, d, r, spread)
    PROVE  ControlInv'
<1>1. CASE spread = None
  BY <1>1, NoActionKeepsControl DEF OnSnapshot, WaitsOK
<1>2. CASE spread # None
  <2> DEFINE gateAfter == GateAfter(g, rearmWait, spread, hlPosition)
  <2>1. gateAfter \in Gates \cup {None}
    BY <1>2, GateAfterType DEF Consistent
  <2>2. g # None => gateAfter \in {g, None}
    BY DEF GateAfter
  <2> HIDE DEF gateAfter
  <2>3. ASSUME WantsPlace(s, gateAfter), DecidePlace(d, r, gateAfter)
        PROVE  ControlInv'
    <3>1. PICK size \in Sizes :
             LET order == BuildMakerOrder(gateAfter, size) IN
             /\ UNCHANGED rearmWait
             /\ \/ ResetStrategy /\ NoAction(d, r)
                \/ /\ KeepStrategy("PendingHlMaker", gateAfter, order)
                   /\ \/ /\ DeferPlace(order)
                         /\ UNCHANGED <<placeWait, cancelWait>>
                      \/ SendPlace(order)
      BY <2>3 DEF DecidePlace
    <3> DEFINE order == BuildMakerOrder(gateAfter, size)
    <3>2. /\ gateAfter \in Gates /\ order \in MakerOrders
          /\ gateAfter.direction = order.direction /\ gateAfter.entry = order.entry
      BY <2>1, <2>3, BuiltOrderType DEF WantsPlace, BuildMakerOrder
    <3>3. Consistent("PendingHlMaker", gateAfter, order, None, None)
      BY <3>2, NoneIsNoValue DEF Consistent
    <3>4. CASE ResetStrategy /\ NoAction(d, r)
      BY <3>1, <3>4, <2>3
         DEF ResetStrategy, NoAction, ControlInv, Consistent, WaitsOK, WantsPlace
    <3>5. CASE /\ KeepStrategy("PendingHlMaker", gateAfter, order)
               /\ DeferPlace(order)
               /\ UNCHANGED <<placeWait, cancelWait>>
      <4>1. /\ deferred' \in Deferrals /\ deferred'.type = "PlaceHlMaker"
            /\ retryWait' = placeWait /\ placeWait # None /\ deferred' # None
        BY <3>2, <3>5, NoneIsNoValue, NoneIsNoEngineValue, EngineAssumption
           DEF DeferPlace, Deferral, Deferrals, WaitsOK
      <4> QED
        BY <3>1, <3>3, <3>5, <4>1 DEF KeepStrategy, ControlInv, Consistent, WaitsOK
    <3>6. CASE KeepStrategy("PendingHlMaker", gateAfter, order) /\ SendPlace(order)
      BY <3>1, <3>3, <3>6, SendPlaceKeepsControl
    <3> QED
      BY <3>1, <3>4, <3>5, <3>6
  <2>4. ASSUME WantsCancel(s, p, gateAfter, spread), DecideCancel(p)
        PROVE  ControlInv'
    <3>1. p \in MakerOrders /\ rearmWait' = MinRearm
      BY <2>4 DEF WantsCancel, DecideCancel, Consistent
    <3>2. Consistent("CancelledPendingConfirm", None, p, None, None)
      BY <3>1 DEF Consistent
    <3>3. CASE /\ DeferCancel(p)
               /\ KeepStrategy("CancelledPendingConfirm", None, p)
               /\ UNCHANGED <<placeWait, cancelWait>>
      <4>1. /\ deferred' \in Deferrals /\ deferred'.type = "CancelHlMaker"
            /\ retryWait' = cancelWait /\ cancelWait # None /\ deferred' # None
        BY <3>1, <3>3, NoneIsNoValue, NoneIsNoEngineValue, EngineAssumption
           DEF DeferCancel, Deferral, Deferrals, WaitsOK
      <4> QED
        BY <3>1, <3>2, <3>3, <4>1, StrategyAssumption
           DEF KeepStrategy, ControlInv, Consistent, WaitsOK
    <3>4. CASE SendCancel("CancelledPendingConfirm", None, p)
      BY <3>1, <3>2, <3>4, SendCancelKeepsControl, StrategyAssumption
    <3> QED
      BY <2>4, <3>3, <3>4 DEF DecideCancel
  <2>5. ASSUME ~WantsPlace(s, gateAfter), ~WantsCancel(s, p, gateAfter, spread),
               KeepStrategy(s, gateAfter, p), NoAction(d, r),
               rearmWait' \in {MinRearm, rearmWait}
        PROVE  ControlInv'
    <3>1. Consistent(s, gateAfter, p, d, r)
      BY <2>1, <2>2, <2>5 DEF Consistent, WantsPlace, WantsCancel
    <3> QED
      BY <2>5, <3>1, NoActionKeepsControl, StrategyAssumption DEF WaitsOK
  <2> QED
    BY <1>2, <2>3, <2>4, <2>5 DEF OnSnapshot, gateAfter
<1> QED
  BY <1>1, <1>2

\* A tick, deferred action first (on_market_data).
LEMMA TickKeepsControl ==
    ASSUME ControlInv, hlPosition \in Int, NEW spread \in Spreads \cup {None}, Tick(spread)
    PROVE  ControlInv'
<1>1. spread \in Int \cup {None}
  BY EngineAssumption
<1>2. WaitsOK /\ Consistent(state, gate, pending, deferred, retryWait)
  BY DEF ControlInv
<1>3. Consistent(state, gate, pending, None, None)
  BY <1>2 DEF Consistent
<1>4. CASE TickDeferredPlace
  BY <1>2, <1>3, <1>4, SendPlaceKeepsControl
     DEF TickDeferredPlace, KeepStrategy, strategyVars
<1>5. CASE TickDeferredCancel
  BY <1>2, <1>3, <1>5, SendCancelKeepsControl DEF TickDeferredCancel, WaitsOK
<1>6. CASE TickDeferredRefused(spread)
  <2>1. Consistent("Idle", None, None, None, None)
    BY DEF Consistent
  <2> QED
    BY <1>1, <1>2, <1>6, <2>1, SnapshotKeepsControl DEF TickDeferredRefused
<1>7. CASE TickSnapshot(spread)
  BY <1>1, <1>2, <1>7, SnapshotKeepsControl DEF TickSnapshot
<1> QED
  BY <1>4, <1>5, <1>6, <1>7 DEF Tick

\* A fill leaves the limiter alone and resets the strategy or leaves it alone.
LEMMA FillKeepsControl ==
    ASSUME ControlInv, NEW o, NEW k, OnHlFill(o, k)
    PROVE  ControlInv'
<1>1. UNCHANGED <<limiterVars, rearmWait>>
  BY DEF OnHlFill, FillIgnored, FillReconciled, FillBelowSpec, FillHedged, FillUnwound, Report
<1>2. ResetStrategy \/ UNCHANGED <<state, gate, pending>>
  BY DEF OnHlFill, FillIgnored, FillReconciled, FillBelowSpec, FillHedged, FillUnwound,
         strategyVars
<1> QED
  BY <1>1, <1>2 DEF ResetStrategy, limiterVars, ControlInv, Consistent, WaitsOK

\* Time passes for the retry and for its limiter alike.
LEMMA AdvanceKeepsControl ==
    ASSUME ControlInv, Advance
    PROVE  ControlInv'
<1>1. /\ rearmWait' \in 0..MinRearm
      /\ placeWait' \in 0..Interval
      /\ cancelWait' \in 0..Interval
  BY StrategyAssumption, EngineAssumption DEF Advance, Elapse, ControlInv, WaitsOK
<1>2. retryWait = None <=> retryWait' = None
  <2>1. retryWait # None => retryWait' \in Nat
    BY <1>1, EngineAssumption DEF Advance, Elapse, ControlInv, Consistent, WaitsOK
  <2> QED
    BY <2>1, NoneIsNoValue DEF Advance
<1> QED
  BY <1>1, <1>2 DEF Advance, ControlInv, Consistent, WaitsOK

----------------------------------------------------------------------------
(* The engine as a whole. *)

EngineInv == ControlInv /\ PositionInv

LEMMA InitEstablishesEngineInv ==
    ASSUME Init
    PROVE  EngineInv
<1>1. ControlInv
  BY StrategyAssumption, EngineAssumption DEF Init, ControlInv, Consistent, WaitsOK
<1>2. OrderTypeOK
  BY EngineAssumption DEF Init, OrderTypeOK, Directions
<1>3. LastIsOnly /\ SpecFollowsOrder /\ LastOrderFits /\ PositionBounded
  BY EngineAssumption DEF Init, LastIsOnly, SpecFollowsOrder, LastOrderFits, PositionBounded
<1> QED
  BY <1>1, <1>2, <1>3 DEF EngineInv, PositionInv

LEMMA EngineInvTypes ==
    ASSUME EngineInv
    PROVE  TypeOK
  BY ControlInvImplies DEF EngineInv, PositionInv, TypeOK

\* Every step keeps the strategy and limiter half.
LEMMA StepKeepsControl ==
    ASSUME EngineInv, [Next]_vars
    PROVE  ControlInv'
<1>1. ControlInv /\ hlPosition \in Int
  BY DEF EngineInv, PositionInv, OrderTypeOK
<1>2. ASSUME NEW spread \in Spreads \cup {None}, Tick(spread)
      PROVE  ControlInv'
  BY <1>1, <1>2, TickKeepsControl
<1>3. ASSUME NEW o \in Oids, NEW k \in 1..MaxSize, OnHlFill(o, k)
      PROVE  ControlInv'
  BY <1>1, <1>3, FillKeepsControl
<1>4. CASE OnTradeEvent
  BY <1>1, <1>4 DEF OnTradeEvent, strategyVars, limiterVars, ControlInv, Consistent, WaitsOK
<1>5. ASSUME NEW o \in Oids, NEW k \in 1..MaxSize, Execute(o, k)
      PROVE  ControlInv'
  BY <1>1, <1>5 DEF Execute, strategyVars, limiterVars, ControlInv, Consistent, WaitsOK
<1>6. CASE Advance
  BY <1>1, <1>6, AdvanceKeepsControl
<1>7. CASE UNCHANGED vars
  BY <1>1, <1>7 DEF vars, strategyVars, limiterVars, ControlInv, Consistent, WaitsOK
<1> QED
  BY <1>2, <1>3, <1>4, <1>5, <1>6, <1>7 DEF Next

\* Every step keeps the order and position half.
LEMMA StepKeepsPositionInv ==
    ASSUME EngineInv, [Next]_vars
    PROVE  PositionInv'
<1>1. TypeOK /\ PositionInv /\ pending \in MakerOrders \cup {None}
  BY EngineInvTypes DEF EngineInv, TypeOK, StrategyTypeOK
<1>2. CASE Quiet
  BY <1>1, <1>2
     DEF Quiet, orderVars, venueVars, ledgerVars, PositionInv, OrderTypeOK, LastIsOnly,
         SpecFollowsOrder, LastOrderFits, PositionBounded
<1>3. ASSUME NEW spread \in Spreads \cup {None}, Tick(spread)
      PROVE  PositionInv'
  BY <1>1, <1>2, <1>3, TickEffect, PlacesKeepsPositionInv, CancelsKeepsPositionInv
<1>4. ASSUME NEW o \in Oids, NEW k \in 1..MaxSize, OnHlFill(o, k)
      PROVE  PositionInv'
  BY <1>1, <1>4, FillKeepsPositionInv
<1>5. CASE OnTradeEvent
  BY <1>1, <1>5, TradeKeepsPositionInv
<1>6. ASSUME NEW o \in Oids, NEW k \in 1..MaxSize, Execute(o, k)
      PROVE  PositionInv'
  BY <1>1, <1>6, ExecuteKeepsPositionInv
<1>7. Advance \/ UNCHANGED vars => Quiet
  BY DEF Advance, vars, Quiet
<1> QED
  BY <1>2, <1>3, <1>4, <1>5, <1>6, <1>7 DEF Next

\* The inductive invariant holds of every behaviour of the engine.
THEOREM EngineInvariant == Spec => []EngineInv
<1>1. Init => EngineInv
  BY InitEstablishesEngineInv
<1>2. EngineInv /\ [Next]_vars => EngineInv'
  BY StepKeepsControl, StepKeepsPositionInv DEF EngineInv
<1> QED
  BY <1>1, <1>2, PTL DEF Spec

\* Every variable keeps its type, through every handler and every answer of a venue.
THEOREM TypeCorrect == Spec => []TypeOK
<1>1. EngineInv => TypeOK
  BY EngineInvTypes
<1> QED
  BY <1>1, EngineInvariant, PTL

\* The position the engine counts passes max_position_usd by less than one order, for
\* every order size, limit, rate limit and split of the fills (execute_action, on_hl_fill).
THEOREM PositionLimit == Spec => [](PositionBounded /\ LastOrderFits)
<1>1. EngineInv => PositionBounded /\ LastOrderFits
  BY DEF EngineInv, PositionInv
<1> QED
  BY <1>1, EngineInvariant, PTL

\* A speculative hedge is only out for the active order, so the fill or the cancel that
\* settles it finds it (on_trade_event, on_hl_fill, execute_action).
THEOREM SpeculationFollowsOrder == Spec => []SpecFollowsOrder
<1>1. EngineInv => SpecFollowsOrder
  BY DEF EngineInv, PositionInv
<1> QED
  BY <1>1, EngineInvariant, PTL

\* The gate and the pending order agree, and a deferred call is retried at the moment its
\* limiter opens (on_market_snapshot, execute_action, execute_deferred).
THEOREM ControlConsistent == Spec => [](GateMatchesOrder /\ RetryWhenAllowed)
<1>1. EngineInv => GateMatchesOrder /\ RetryWhenAllowed
  BY ControlInvImplies DEF EngineInv
<1> QED
  BY <1>1, EngineInvariant, PTL

\* While a cancel of the active order is not acknowledged, no step places another order:
\* the strategy asks for none, and none is left deferred (execute_action, CancelHlMaker).
THEOREM NoMakerBesideCancel == Spec => NoSecondMaker
<1>1. ASSUME EngineInv, [Next]_vars, state = "CancelledPendingConfirm"
      PROVE  recentlyPlaced' \subseteq recentlyPlaced
  <2>1. ~(deferred # None /\ deferred.type = "PlaceHlMaker")
    BY <1>1 DEF EngineInv, ControlInv, Consistent
  <2>2. ASSUME NEW spread \in Spreads \cup {None}, Tick(spread)
        PROVE  UNCHANGED recentlyPlaced
    <3>1. CASE TickDeferredCancel
      BY <3>1 DEF TickDeferredCancel, SendCancel
    <3>2. CASE TickSnapshot(spread)
      BY <1>1, <3>2
         DEF TickSnapshot, OnSnapshot, NoAction, WantsPlace, WantsCancel, orderVars
    <3> QED
      BY <2>1, <2>2, <3>1, <3>2 DEF Tick, TickDeferredPlace, TickDeferredRefused, DeferredDue
  <2>3. ASSUME NEW o \in Oids, NEW k \in 1..MaxSize, OnHlFill(o, k)
        PROVE  recentlyPlaced' \subseteq recentlyPlaced
    BY <2>3 DEF OnHlFill, FillIgnored, FillReconciled, FillBelowSpec, FillHedged, FillUnwound
  <2>4. OnTradeEvent \/ Advance \/ UNCHANGED vars => UNCHANGED recentlyPlaced
    BY DEF OnTradeEvent, Advance, vars, orderVars
  <2>5. ASSUME NEW o \in Oids, NEW k \in 1..MaxSize, Execute(o, k)
        PROVE  UNCHANGED recentlyPlaced
    BY <2>5 DEF Execute, orderVars
  <2> QED
    BY <1>1, <2>2, <2>3, <2>4, <2>5 DEF Next
<1>2. EngineInv /\ [Next]_vars
        => [state = "CancelledPendingConfirm" /\ activeOid # None
              => recentlyPlaced' \subseteq recentlyPlaced]_vars
  BY <1>1
<1> QED
  BY <1>2, EngineInvariant, PTL DEF Spec, NoSecondMaker

----------------------------------------------------------------------------
(* The hedge, when no speculative hedge is sent. *)

HedgeInv == spec = None /\ HedgedBook

\* A fill the engine takes up and its hedge have the same size and opposite sides when
\* the venues do what they answer; a failed hedge is unwound in full.
LEMMA FillKeepsHedge ==
    ASSUME EngineInv, HedgeInv, NEW o \in Oids, NEW k \in 1..MaxSize, OnHlFill(o, k)
    PROVE  HedgeInv'
<1>1. k \in Nat /\ surprises \in Nat /\ answered \in Int /\ ltPosition \in Int
  BY EngineAssumption DEF EngineInv, PositionInv, OrderTypeOK
<1>2. ~Speculated(o)
  BY DEF HedgeInv, Speculated
<1>3. o \in recentlyPlaced => side[o] = HedgeDirection
  BY DEF EngineInv, PositionInv, LastOrderFits, HedgeDirection
<1>4. CASE FillIgnored(o, k)
  BY <1>4 DEF FillIgnored, HedgeInv, HedgedBook, ledgerVars
<1>5. CASE FillHedged(o, k)
  <2>1. PICK filled \in 0..k :
           /\ ltPosition' = LighterAfter(HedgeDirection, filled)
           /\ Charge(IocSurprise("confirmed", k, filled))
    BY <1>5 DEF FillHedged
  <2>2. /\ answered' = answered + Signed(HedgeDirection, k)
        /\ spec' = None
    BY <1>3, <1>5 DEF FillHedged, BookFill, HedgeInv
  <2>3. surprises' = 0 => surprises = 0 /\ filled = k
    BY <1>1, <2>1 DEF Charge, IocSurprise
  <2> QED
    BY <1>1, <2>1, <2>2, <2>3 DEF HedgeInv, HedgedBook, LighterAfter, Signed
<1>6. CASE FillUnwound(o, k)
  <2>1. PICK answer \in Outcomes \ {"confirmed"}, filled \in 0..k, reduced \in 0..k :
           /\ ltPosition' = LighterAfter(HedgeDirection, filled)
           /\ answered' = answered + Signed(side[o], k) - Signed(HedgeDirection, reduced)
           /\ Charge(IocSurprise(answer, k, filled) + IF reduced = k THEN 0 ELSE 1)
    BY <1>6 DEF FillUnwound
  <2>2. side[o] = HedgeDirection /\ spec' = None
    BY <1>3, <1>6 DEF FillUnwound, HedgeInv
  <2>3. surprises' = 0 => surprises = 0 /\ filled = 0 /\ reduced = k
    BY <1>1, <2>1 DEF Charge, IocSurprise
  <2> QED
    BY <1>1, <2>1, <2>2, <2>3 DEF HedgeInv, HedgedBook, LighterAfter, Signed
<1> QED
  BY <1>2, <1>4, <1>5, <1>6 DEF OnHlFill, FillReconciled, FillBelowSpec

\* Without speculative hedges and as long as the venues do what they answer, the Lighter
\* position offsets every Hyperliquid fill taken up, on the side of the order filled,
\* though the strategy that placed the order may have been reset (on_hl_fill).
THEOREM BookIsHedged == ~SpecHedge => (Spec => []HedgedBook)
<1> SUFFICES ASSUME ~SpecHedge
             PROVE  Spec => []HedgedBook
  OBVIOUS
<1>1. Init => HedgeInv
  BY EngineAssumption DEF Init, HedgeInv, HedgedBook
<1>2. ASSUME EngineInv, HedgeInv, [Next]_vars
      PROVE  HedgeInv'
  <2>1. TypeOK /\ surprises \in Nat
    BY <1>2, EngineInvTypes, EngineAssumption DEF TypeOK, OrderTypeOK
  <2>2. CASE Quiet
    BY <1>2, <2>2 DEF Quiet, HedgeInv, HedgedBook, ledgerVars
  <2>3. CASE Places
    BY <1>2, <2>1, <2>3
       DEF Places, SendPlace, PlaceAccepted, PlaceRejected, Charge, HedgeInv, HedgedBook
  <2>4. CASE CancelsQuietly
    BY <1>2, <2>4
       DEF CancelsQuietly, Cancels, CancelNothing, CancelAcked, CancelFailed, HedgeInv,
           HedgedBook
  <2>5. ASSUME NEW spread \in Spreads \cup {None}, Tick(spread)
        PROVE  HedgeInv'
    BY <2>1, <2>2, <2>3, <2>4, <2>5, TickEffect
  <2>6. ASSUME NEW o \in Oids, NEW k \in 1..MaxSize, OnHlFill(o, k)
        PROVE  HedgeInv'
    BY <1>2, <2>6, FillKeepsHedge
  <2>7. ~OnTradeEvent
    BY DEF OnTradeEvent
  <2>8. ASSUME NEW o \in Oids, NEW k \in 1..MaxSize, Execute(o, k)
        PROVE  HedgeInv'
    BY <1>2, <2>8 DEF Execute, HedgeInv, HedgedBook, ledgerVars
  <2>9. Advance \/ UNCHANGED vars => Quiet
    BY DEF Advance, vars, Quiet
  <2> QED
    BY <1>2, <2>2, <2>5, <2>6, <2>7, <2>8, <2>9 DEF Next
<1>3. HedgeInv => HedgedBook
  BY DEF HedgeInv
<1> QED
  BY <1>1, <1>2, <1>3, EngineInvariant, PTL DEF Spec
=============================================================================
