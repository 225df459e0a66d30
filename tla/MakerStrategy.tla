--------------------------- MODULE MakerStrategy ---------------------------
(***************************************************************************)
(* The decisions of HlMakerLighterHedger (src/src/strategy.cpp): when the  *)
(* signal gate arms and disarms, and what a market snapshot asks the       *)
(* engine to do.  The operators are pure; MakerHedgeEngine holds the state.*)
(*                                                                         *)
(* Spreads are signed basis points (Lighter mid over Hyperliquid mid), the *)
(* order price is not kept (a trade crosses it or does not), and a time is *)
(* the number of clock units still to wait, 0 once the wait is over.       *)
(***************************************************************************)
EXTENDS Integers

CONSTANTS
    None,            \* the empty std::optional
    SpreadBps,       \* StrategyConfig::spread_bps
    CloseSpreadBps,  \* StrategyConfig::close_spread_bps, 0 = use spread_bps
    CancelBandBps,   \* StrategyConfig::cancel_band_bps
    MinRearm,        \* StrategyConfig::min_rearm_ms, in clock units
    Sizes            \* what pair_size_usd comes to in base units

ShortLighterLongHl == "ShortLighterLongHl"
LongLighterShortHl == "LongLighterShortHl"
Directions == {ShortLighterLongHl, LongLighterShortHl}

\* The spread a signal was armed at: the open or the close threshold.
Entries == {SpreadBps, CloseSpreadBps}

Gates == [direction : Directions, entry : Entries]
MakerOrders == [direction : Directions, size : Sizes, entry : Entries]

\* The constructor rejects a spread_bps that is not positive and a negative band.
ASSUME StrategyAssumption ==
    /\ SpreadBps \in Nat \ {0}
    /\ CloseSpreadBps \in Nat
    /\ CancelBandBps \in Nat
    /\ MinRearm \in Nat
    /\ Sizes \subseteq Nat \ {0}

ASSUME NoneIsNoValue ==
    /\ None \notin Nat
    /\ None \notin Gates
    /\ None \notin MakerOrders

----------------------------------------------------------------------------
AbsBps(x) == IF x < 0 THEN -x ELSE x

Opposite(d) ==
    IF d = ShortLighterLongHl THEN LongLighterShortHl ELSE ShortLighterLongHl

ElapsePastZero(wait) == wait - 1

\* One clock unit of a wait: a limiter that has opened stays open.
Elapse(wait) == IF wait = 0 THEN 0 ELSE wait - 1

DirectionForSpread(spread) ==
    IF spread >= 0 THEN ShortLighterLongHl ELSE LongLighterShortHl

\* A trade that reduces the Hyperliquid position may use the lower close threshold.
EffectiveSpread(spread, position) ==
    LET reduces == \/ position < 0 /\ DirectionForSpread(spread) = ShortLighterLongHl
                   \/ position > 0 /\ DirectionForSpread(spread) = LongLighterShortHl
    IN  IF CloseSpreadBps \in 1..(SpreadBps - 1) /\ reduces
        THEN CloseSpreadBps
        ELSE SpreadBps

CancelThreshold(entry) ==
    IF entry > CancelBandBps THEN entry - CancelBandBps ELSE 0

\* The spread no longer supports a signal or an order of this direction and entry.
Reverted(x, spread) ==
    \/ DirectionForSpread(spread) # x.direction
    \/ AbsBps(spread) < CancelThreshold(x.entry)

\* gate_ after the first half of on_market_snapshot: an armed gate may disarm, a
\* disarmed one may arm once min_rearm_ms has passed since the last disarm.
\* A disarmed gate keeps no direction or entry: nothing reads them until it re-arms.
GateAfter(gate, rearmWait, spread, position) ==
    LET threshold == EffectiveSpread(spread, position) IN
    IF gate # None
    THEN IF Reverted(gate, spread) THEN None ELSE gate
    ELSE IF AbsBps(spread) >= threshold /\ rearmWait = 0
         THEN [direction |-> DirectionForSpread(spread), entry |-> threshold]
         ELSE None

\* The gate disarming on its own restarts the re-arm wait only in these states;
\* in PendingHlMaker the cancel that follows does it (disarm()).
RestartsRearm(state, gate, gateAfter) ==
    /\ gate # None /\ gateAfter = None
    /\ state \in {"Idle", "CancelledPendingConfirm"}

WantsPlace(state, gateAfter) == state = "Idle" /\ gateAfter # None

WantsCancel(state, pending, gateAfter, spread) ==
    /\ state = "PendingHlMaker"
    /\ pending # None
    /\ gateAfter = None \/ Reverted(pending, spread)

BuildMakerOrder(gate, size) ==
    [direction |-> gate.direction, size |-> size, entry |-> gate.entry]
=============================================================================
