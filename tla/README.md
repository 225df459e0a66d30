# TLA+ development of the HL-maker / Lighter-taker arbitrage program

The program quotes a post-only order on Hyperliquid (HL) when the price
difference to Lighter is wide enough, and hedges every fill at once with an IOC
order on Lighter; a second policy quotes on Lighter and hedges on HL. What makes it hard is not the decision to quote but what
happens between the calls: fills that come late, in parts, or after a cancel;
rate limits that postpone a call; venue answers that are lost; a second thread
that raises a kill switch in the middle of a tick; connections that break with
requests on their way. The modules here model those, from the decision down to
the WebSocket, TLC checks them on small instances, and TLAPS proves invariants
for all of their parameters.

Paths are relative to the repository (`src/src/engine.cpp` is its
`src/engine.cpp`).

## 1. Inventory

| Part | Source | State | Operations | Modelled in |
|---|---|---|---|---|
| Maker strategy `HlMakerLighterHedger` | `strategy.cpp` | state, signal gate, pending order, time of last disarm | market snapshot, reset | `MakerStrategy` (pure), `MakerHedgeEngine` |
| Engine `MakerHedgeEngine` | `engine.cpp` 17-842 | active oid, recently placed oids, last direction, counted position, speculative hedge, deferred action, two rate limiters | `on_market_data`, `execute_action`, deferred action, `on_hl_fill`, `on_trade_event` | `MakerHedgeEngine` |
| Main loop | `main_live.cpp` | queues, tick state | drain fills, feed check, reconciliation, quote check, engine call; disconnect callback | `LiveLoop` |
| Kill switch `RiskGuard` | `risk.cpp` | flag, reason, failure counter, exposure | activate, reset, check a new entry | `LiveLoop` (flag and reason) |
| Fill feed `HlFillFeed` | `market_feed.cpp` 616-698 | subscribed | message, disconnect, resubscribe | `Feeds`, `LiveLoop` |
| WebSocket client `WsClient` | `ws_client.cpp` | connected, closing, pending sends, writes in progress | connect, send, flush, read, reconnect, close | `WsClient`, used by `HlWsPost` and `Feeds` |
| Reverse strategy and engine `LighterMakerHlHedger`, `LighterMakerTakerEngine` | `strategy.cpp` 287-471, `engine.cpp` 844-1150 | as above, without position, speculation and set of recent orders | `on_market_data`, `execute_action`, deferred action, `on_lighter_fill` | `LighterMakerEngine` |
| Market and account feeds | `market_feed.cpp` | subscription flags, last position, last state of each order | message, disconnect, wait for a position, an order or a cancel | `Feeds`, `LighterTrading` |
| Order transports | `hl_ws_post.cpp`, `lighter_ws_sendtx.cpp` | pending requests, next id, mutexes | send and wait, message, disconnect, stop | `HlWsPost`, `LighterTrading` |
| Signed trading | `native_trading.cpp` | nonce cache, client set up or not | place, cancel, IOC with confirmation, position query | `HlWsPost`, `LighterTrading` |
| Journal, telemetry | `journal.hpp`, `perf.cpp` | rows | append, flush | no: never read back |
| Crypto, msgpack, HTTP, demo programs | ... | none | ... | no: pure encoding, or single-shot programs |
| Dual-maker coordinator | `docs/dual-maker-execution-design.md` | | | no: a design without code |

How they interact. The main thread wakes at every market event, at least once a
second, and at the engine's retry deadline. Each turn it drains the fill queue
into `on_hl_fill`, drains trade prints into `on_trade_event`, checks the fill
feed and the age of the quotes against the kill switch, and, if no switch is on,
calls `on_market_data`. The feeds run on IO threads of their own. They hand over
fills and trades through locked queues, but the fill feed's disconnect callback
works directly on the kill switch and on the engine's active order id, without a
lock. Every order call blocks the main thread until it is answered or times out;
the disconnect callback posts a cancel from the fill feed's thread meanwhile.
Each WebSocket has an io thread, which alone runs the client's handlers and the
owner's callbacks.

What is hard, and what makes each part correct:

- *Engine, ordering*: a fill is reported after the fact, in parts, after a
  cancel, after the next order. The counted position must stay bounded, every
  fill taken up must be hedged on the right side, and no second maker order may
  stand beside one whose cancel failed.
- *Engine, deferral*: a rate-limited place or cancel is run later, on a changed
  strategy. It must be retried when allowed, and end.
- *Engine, speculation*: a hedge sent before its fill must be settled by exactly
  one fill or cancel.
- *Reverse engine*: the side of a hedge comes from the pending order, the side of
  an unwind from the last placement, and both must be those of the order filled.
- *Main loop, interleaving*: the engine must not run while its fills cannot be
  seen; an outage must empty the book; a kill switch must be lifted again; the
  reconciliation must neither lose nor double a fill.

- *Transports*: what was sent while the connection was down goes out at the next
  handshake, when its caller may have been told that it failed. A caller must get
  its own result or a failure, and no request may be acted on twice.
- *Lighter trading*: a transaction's nonce is used up when it is signed, its
  answer is whatever message comes next, and its effect is read from a position
  or from order news. Nonces must stay usable and confirmations must be true.
- *Feeds*: a flag must not outlive the connection it was set on, no fill may be
  dropped before the flag, and every connection must end up subscribed.

The full list of hazards, each at its line with the property that watches it or
the reason none does, is in `PROJECT.json`.

## 2. Modules

### `MakerStrategy`
Pure operators of the strategy: when the gate arms (`GateAfter`), the lower
threshold for trades that reduce the position (`EffectiveSpread`), when an order
or signal has reverted, and when a snapshot asks for a placement or a cancel. A
spread is a signed number of basis points.

### `MakerHedgeEngine`
The state of the strategy and of the engine, and the two venues as far as the
engine can tell. One action is one call the main loop makes:

| Action | Code |
|---|---|
| `TickSnapshot` | `on_market_data` without a due deferral: snapshot handler, then `execute_action` on its result |
| `TickDeferredPlace`, `TickDeferredCancel` | a due deferral runs first and its log lines end the tick |
| `TickDeferredRefused` | a due placement refused at the position limit writes no log line, so the tick goes on with the reset strategy |
| `FillIgnored`, `FillReconciled`, `FillBelowSpec`, `FillHedged`, `FillUnwound` | the paths of `on_hl_fill` |
| `OnTradeEvent` | `on_trade_event` past its filters |
| `Execute`, `Advance` | HL executes part of a resting order; time passes |

Abstractions. The mid price is 1, so `max_position_usd` is a number of base
units; the order price is dropped, because prices only decide whether a trade
crosses, and a trade may or may not. Clock readings become countdowns
(`placeWait`, `cancelWait`, `rearmWait`, `retryWait`). A disarmed gate keeps no
direction or entry: nothing reads them before they are overwritten. An order id
is reused once nothing of its order is left. Fill messages of different orders
may be handled in any order. A Lighter IOC order is answered `confirmed`,
`unconfirmed` or `failed` and may have filled any part whatever the answer; the
variable `surprises` counts the answers that were not the truth, including HL
orders that rest without an acknowledgement. `answered` and `ltPosition` are
history: what the engine took up on HL and what its orders made on Lighter.

Not reachable, hence not in the model: the engine never calls the strategy's
`on_hl_maker_fill`, so the states and actions only it leads to (open hedge,
unwind) cannot occur.

### `LiveLoop`
The loop body with one program counter, the IO thread of the fill feed with
another. Each read or write of the kill switch and of the active order is a step
of its own. Of the engine it keeps the order in the book and the counted
position; what the engine decides is left open. All orders buy one unit; market
quotes are present from the start and may turn stale. Trade prints, the wake-up deadline and shutdown are left out.

### `LighterMakerEngine`
The reverse policy, in the same decomposition: `Tick` is `on_market_data`,
`FillIgnored`, `FillHedged` and `FillUnwound` are the paths of
`on_lighter_fill`. It has no position limit, no speculation and no memory of
earlier orders. A placement counts only when the account feed shows the order
resting (`PlaceConfirmed`), a cancel only when it shows it cancelled
(`CancelConfirmed`); the engine goes on as if nothing had happened otherwise,
while the order may rest or be gone all the same. `CancelConfirmed` is allowed
whenever an order is active, one that has executed in full included, which the
feed would not report as cancelled. `unhedged` is history: the fills the engine
took up on Lighter, less what it undid there, plus the position its hedges made
on HL. `surprises` counts the answers that were not what the engine reads into
them: an order that rests without confirmation, a hedge that filled in part or
though its answer was lost, an unwind that did not fill. `on_hl_hedge_reject`
and the `UnwindLighterPosition` case are never reached.

### `WsClient`
The client as operators on its six variables; a module that owns a client
conjoins them with its callbacks and its server. `Send` only posts a handler to
the io thread, `RunSend` is that handler: it queues without a connection and
starts a write otherwise, beside whatever write is in progress. Beast allows one
write at a time, and the buffer belongs to the handler that has returned, so an
overlapping write may arrive (`WriteDone`) or vanish (`WriteFails`). `Handshake`
empties the queue into the chain of `flush_pending`, `ReadFails` ends the
connection. The client's own pings change no state and are left out; so is
giving up after `max_reconnect_attempts`, which no user of the client sets.

### `HlWsPost` and `OrderCalls`
`HlWsPostTransport` over `WsClient`, with the callers in `native_trading.cpp`
and the exchange. A post is `Register`, `SendRequest`, then `ReturnAnswer`, or
`TimeOut` and `EraseAndReturn`; `TakeAnswer` and `MakeReady` are `on_message`
before and after its unlock; `Break`, `MakeReady` and `AllFailed` are
`on_disconnect`. The two mutexes appear where one is taken inside the other:
`EntryHeld` and `MapHeld`. Two threads post. An answer is reduced to the kinds
the callers tell apart (`Results`), and `AckOk` is what each call takes for
success. When the connection breaks the exchange may still act on one request
that was on its way.

`OrderCalls` is what a transport promises whatever it does inside: a call is
acted on at most once, perhaps after its caller was told that it failed, and a
caller told a result is told that of its own call. `ImplementsOrderCalls` is the
refinement; the mapping `Told` forgets queues, entries, locks and threads.

### `LighterTrading`
`NativeLighterTrading` with its transport and its two confirming feeds, for
either policy. A call is `Begin...` (client set-up, and the position read before
a hedge), `Submit` or `SignFails` (a nonce is taken either way), `SendReturns`
or `SendTimesOut`, and for an accepted transaction the wait for its effect. The
connection is reduced to an order-preserving line that breaks: here the client's
own steps do not matter, and `HlWsPost` has them. `send_tx` never finds another
request in flight, since only the main thread calls it. The venue accepts a
nonce it has not used, refuses anything it likes, and executes later. `Restart`
is the end of the process by an exception that `main` does not catch, or by an
operator, and its new start. `gaps` and `clean` are history.

### `Feeds`
The five subscriptions over `WsClient`; a behaviour is that of one feed. They
differ in when they subscribe (`SubscribeAhead`, `Greeted`), in what sets a flag
(`Acknowledged`, `Received`) and in what is dropped before it (`NeedsFlag`). The
token expires at any time; what the server then does with a subscription is
nothing.

### `MCMakerHedgeEngine`, `MCLighterMakerEngine`
Spreads, starting positions and the symmetry of order ids for TLC.

### Proof modules
`MakerHedgeEngine_proofs`, `LighterMakerEngine_proofs`, `LiveLoop_proofs`,
`HlWsPost_proofs`, `Feeds_proofs`, `LighterTrading_proofs` (the nonces) and
`LighterOrders_proofs` (answers and confirmations) hold the theorems of section
4. `WsClient_proofs` holds what every handler of `WsClient` keeps, for any owner:
a write ends with its connection, and at most one write belongs to the chain of
`flush_pending`. `Feeds_proofs` and `HlWsPost_proofs` extend it;
`LighterOrders_proofs` extends `LighterTrading_proofs`.

## 3. What the runs check

Every property has a mutant in `PROJECT.json`: a plausible fault of a definition
(named `...KeepsGate`, `...OffByOne`, and so on, beside the definition it
mutates) under which TLC finds the property violated.

| Run | Properties | Shows |
|---|---|---|
| `hedge` | `TypeOK`, `HedgedBook`, `GateMatchesOrder`, `NoSecondMaker` | with truthful answers and no speculation the two venues offset each other; gate and order agree; an unacknowledged cancel blocks the next order |
| `limit` | `PositionBounded`, `LastOrderFits`, `RetryWhenAllowed`, `DeferralEnds` | the counted position passes the limit by less than one order; a deferred call waits for its own limiter and is run, refused or superseded |
| `speculative` | `SpecFollowsOrder` | a speculative hedge is only out for the active order |
| `reverse` | `TypeOK`, `FillFindsOrder`, `HedgedBook`, `NoMakerBesideActive`, `DeferralEnds` | a Lighter fill is hedged or unwound on its own side, no order joins an active one, a deferred call ends |
| `live` | `TypeOK`, `OneBlindTick`, `NamedSwitchEnds` | however the threads interleave, at most one engine tick runs without a subscription, and a kill switch is lifted unless its reason is lost |
| `hl_post` | `TypeOK`, `AnswerIsOwn`, `UnknownOrdersFailed`, `CancelledIsGone`, `UnansweredIsQueued`, `ImplementsOrderCalls`, `PostEnds` | a caller is told the result of its own post, which is acted on at most once; an order nobody knows comes only from a call the transport failed; a cancel taken for done is done; a post without an answer between two connections waits in the queue; every post returns but for the lock cycle |
| `lighter_trading` | `TypeOK`, `NonceInStep`, `NonceNeverBehind`, `AnswersInStep`, `ConfirmedIsExecuted`, `RestingWasPlaced`, `CancelledIsGone` | nonces are in step until a transaction is lost or refused and are never too old; no answer is taken twice, and a call takes an earlier call's answer only when that one ended without it; a confirmed hedge, order or cancel is real under the conditions named |
| `feeds` | `TypeOK`, `FlagIsReal`, `NothingDropped`, `QueuedOnce`, `HlWritesAlone`, `EventuallySubscribed` | a feed that says it is subscribed is; nothing is dropped before the flag; each reconnection queues the subscriptions once and in order, and nothing else; HL's feeds never overlap writes; a connection that stays up ends subscribed |

Runs in which the code does not do what its comments say. Each is a finding in
`PROJECT.json`:

| Run | Violated | What happens |
|---|---|---|
| `partial_fill` | `EveryFillTakenUp` | a partial fill makes room for the next order; the rest of the first is then ignored (so is the fill of an order that executes before its cancel is acknowledged, when it is read after the next placement) |
| `torn_reset` | `KillSwitchEnds` | the reason of a fresh kill switch is cleared by a reset in progress; nothing lifts it |
| `outage_order` | `BookEmptyInOutage` | an order whose acknowledgement is pending at the disconnect stays in the book |
| `post_deadlock` | `AutoReconnect` | a post that times out while the connection drops: caller and io thread hold one mutex each and want the other's; no reconnection, and the main loop hangs |

*Known limits* the models reach and no run watches:

- A placement deferred by the rate limit survives a fill that resets the
  strategy, so the pending and the active order may differ in side; a speculative
  hedge then takes the pending one's (`engine.cpp` 505, 729).
- A cancel without an active order returns before the reset and leaves the
  strategy in `CancelledPendingConfirm` (`engine.cpp` 572, likewise 987).
- A kill switch for stale quotes hides an outage of the fill feed, so one tick
  may run that has just found the feed down; `OneBlindTick` says that it is one
  (`main_live.cpp` 555, 596).
- The reconciliation counts a fill that is still on its way, and the next drain
  counts it again (`main_live.cpp` 569, 579).
- While a kill switch is on the journal is not flushed, and a retry deadline in
  the past makes the loop spin (`main_live.cpp` 612, 450).
- A nonce that was signed for a transaction the venue did not take is never
  reused: the cache stays ahead until a restart (`native_trading.cpp` 1067).
- Two threads may take the same millisecond for the nonce of a Hyperliquid
  action (`native_trading.cpp` 185, 258); the exchange then refuses one.

*Bounds.* Two order ids are enough for every interaction of an order with its
successor, since the engine forgets older orders the moment it places a new one,
and an id is reused when its order has left no trace. Sizes 1 and 2 give whole
and partial fills, and a limit of 2 can be met exactly, missed by one and passed.
An interval of one or two
units separates "limited" from "due"; in `limit` it is longer than the re-arm
wait, which the configuration permits, because only then can two cancels follow
each other within the interval. `MaxSurprises`
bounds wrong answers (one is enough to reach each path that handles one; the
proofs have no such bound), `LighterCap` bounds the hedges that trade prints
fire without fills. In `LiveLoop`, two outages, two stale ticks, two orders, one
refused cancel and one failed query allow each pair of them to overlap; a third
of a kind would meet the same program states.

In `HlWsPost`, `MaxPosts = 3` has an order, a cancel of it by either thread and a
post that times out and is flushed later, all in one behaviour. In
`LighterTrading`, `MaxTx = 2` is a call and its successor, which is what a late
answer, a gap or a stale position needs; the hedges ask for 1 where
`MinBase = 2`, so that rounding up shows; `MaxNoise` bounds stray messages and
wrong readings, `MaxRestarts` restarts. In `Feeds`, `MaxInbox` and `MaxWrites`
only bound what the server sends unasked; connections are unbounded.

*Deadlock* is checked for the engines and the main loop, which never stop by
themselves. It is off where the system may stop: `HlWsPost` (shut down, or the
lock cycle), `Feeds` (shut down), `LighterTrading` (the calls are used up).

*Fairness.* `limit` and `reverse` assume what the loop gives: it wakes at least once a
second (`wait_until` with the housekeeping deadline) and time passes
(`LoopSpec`); it speaks of a program whose kill switch is off. In `LiveLoop`
both threads keep running and a dropped connection is retried for ever
(`max_reconnect_attempts = 0` in `schedule_reconnect`); disconnections, stale
quotes and executions are not forced. `ThreadSpec` of `HlWsPost` assumes that
threads run: a caller goes on and its wait expires, a callback is finished, and a
caller that wants `pending_mu_` gets it in the end (strong fairness: the io
thread holds it only inside `on_disconnect`, and seconds of reconnection lie
between two of those). Nothing is assumed of network, exchange or connection.
`FairSpec` of `Feeds` assumes that the io thread runs and that on a connection
that stays up the oldest write ends.

## 4. What is proved

`MakerHedgeEngine_proofs` proves, for all thresholds, sizes, limits, intervals,
order ids and numbers of wrong answers that satisfy the named assumptions:

| Theorem | States |
|---|---|
| `TypeCorrect` | `Spec => []TypeOK` |
| `PositionLimit` | `Spec => [](PositionBounded /\ LastOrderFits)` |
| `SpeculationFollowsOrder` | `Spec => []SpecFollowsOrder` |
| `ControlConsistent` | `Spec => [](GateMatchesOrder /\ RetryWhenAllowed)` |
| `NoMakerBesideCancel` | `Spec => NoSecondMaker` |
| `BookIsHedged` | `~SpecHedge => (Spec => []HedgedBook)` |

`LighterMakerEngine_proofs` does the same for the reverse engine:

| Theorem | States |
|---|---|
| `TypeCorrect` | `Spec => []TypeOK` |
| `FillIsAttributed` | `Spec => []FillFindsOrder` |
| `NoOrderBesideActive` | `Spec => NoMakerBesideActive` |
| `BookIsHedged` | `Spec => []HedgedBook` |

`Feeds_proofs`, for any bound on the inbox and on the writes in progress:

| Theorem | States |
|---|---|
| `FeedTypeCorrect` | `Spec => []TypeOK` |
| `FlagsAreReal` | `Spec => []FlagIsReal` |
| `NothingIsDropped` | `Spec => []NothingDropped` |
| `HlWritesNeverOverlap` | `Spec => []HlWritesAlone` |
| `ChannelsQueuedOnce` | `Spec => []QueuedOnce` |

`LighterTrading_proofs` and `LighterOrders_proofs`, for any number of calls,
restarts and wrong readings:

| Theorem | States |
|---|---|
| `NoncesInStep` | `Spec => []NonceInStep` |
| `NoncesNeverBehind` | `Spec => []NonceNeverBehind` |
| `TradingTypeCorrect` | `Spec => []TypeOK` |
| `AnswersStayInStep` | `Spec => []AnswersInStep` |
| `ConfirmedHedgeExecuted` | `Spec => []ConfirmedIsExecuted` |
| `RestingOrdersPlaced` | `Spec => []RestingWasPlaced` |
| `CancelledOrdersGone` | `Spec => []CancelledIsGone` |

`HlWsPost_proofs`, for any number of posts by the two threads:

| Theorem | States |
|---|---|
| `PostTypeCorrect` | `Spec => []TypeOK` |
| `AnswersAreOwn` | `Spec => []AnswerIsOwn` |
| `UnknownOrdersOnlyFailed` | `Spec => []UnknownOrdersFailed` |
| `AcknowledgedCancelsGone` | `Spec => []CancelledIsGone` |
| `UnansweredStaysQueued` | `Spec => []UnansweredIsQueued` |
| `TransportKeepsPromise` | `Spec => ImplementsOrderCalls`, the refinement of `OrderCalls` |

`LiveLoop_proofs`, for any number of orders, outages, stale quotes, refused
cancels and failed queries:

| Theorem | States |
|---|---|
| `LoopTypeCorrect` | `Spec => []TypeOK` |
| `AtMostOneBlindTick` | `Spec => []OneBlindTick` |

The assumptions are those of the modules: a positive spread threshold as the
strategy's constructor demands, positive sizes up to `MaxSize`, a positive
limit, a starting position within the limit plus one order; for the feeds, that
the client can send the channels' subscriptions and a pong; for the transport, at
least one post, and two different threads; for Lighter trading and the main loop,
the types of the bounds. `None`, which stands for "no value yet" in `HlWsPost` and
`LighterTrading`, is none of the values it is told apart from.

*The argument.* `EngineInv` is the conjunction of two invariants, each inductive
with the types. `ControlInv` ties state, gate, pending order and deferred action
together: besides what `GateMatchesOrder` says, a deferral and its deadline exist
together and the deadline is the time left of the limiter concerned; while the
strategy waits for a cancel with an active order, what is deferred is that
cancel, which is why no step can place. `PositionInv` bounds the position.
`PositionBounded` alone is not inductive: a fill may arrive long after the check
of the limit. What makes it so is `LastOrderFits`: the position plus everything
the last order can still fill, resting or unreported, stays below the limit plus
one order. Placing establishes it because the limit is checked in the same call,
a deferred call included; a fill moves size from one term to the other; and
fills of older orders are ignored, which the findings above show to be a fault of
its own. `HedgeInv` adds that, with no surprises and no speculation,
`answered + ltPosition = 0`; it rests on `side[o] = lastDirection` for the last
order, so that a hedge goes to the right side after the strategy was reset.

For the reverse engine `FillFindsOrder` is not inductive: a deferred placement is
sent for the strategy as it is later. `DeferredIsPending` says that the strategy
still waits for exactly that order and no other is active, `ActiveIsAwaited` that
the strategy is past `Idle` while an order is active. With them every placement
meets an empty `activeIndex`, and `HedgedBook` follows because the three sides
involved (of the order, of the pending order, of the last placement) are one.
The same shape fails in `MakerHedgeEngine`: there a deferred placement does
outlive a reset (see the known limits in section 3), because a fill of a
remembered order resets the strategy though that order is no longer active. The
reverse engine forgets an order at once, so no such fill is taken up.

For the feeds `FeedInv` says where everything of a connection is: nothing is on
its way and nothing is subscribed between two connections, and a new one starts
without flags; what is on its way belongs to a subscription; and (`AckFirst`) a
channel that is subscribed has its flag or its answer on the way, ahead of every
message of that channel. `NothingDropped` needs the last, `FlagIsReal` the
others. `HlWritesAlone` needs that a Hyperliquid feed has nothing posted while
it is connected (`HlSilent`), which in turn needs that nothing it receives makes
it send, and that the chain of `flush_pending` is one write long (`WsInv`).
`QueuedOnce` needs what a connection leaves behind (`NothingKept`): nothing in
`pending_sends_`, since the handshake empties it and a connected client adds
nothing, and nothing posted when the disconnect callback subscribes again, since
the read that fails runs after what was posted. From there a handler only moves
the first posted message behind the queued ones, which changes nothing of the
whole (`MoveFirst`).

For the nonces `NonceInv` says that requests wait on one side of the connection
only, that each queue is in the order of its nonces, between the venue's next
one and the cached one, and that without a gap they are consecutive. It follows
that the branch of `next_nonce` that asks the venue when the cache is 0 never
returns anything but the cache (`TakesCached`).

For the calls on Lighter `CallInv` adds three parts. `AnswerInv` is about a
connection that matches answers to calls by arrival alone: requests go out, and
answers come back, in the order of the calls (`Ordered`), and a request that may
still be answered belongs to the call that waits or to one that ended without its
answer (`OwnOrGivenUp`). So the answer of a later call cannot be taken, nor one
answer twice. `AnswersInStep` needs all of it: that an answer taken by the wrong
call is of an earlier one follows from the order, not from any check in
`send_tx`. `SeenInv` says that the account feed shows nothing the venue did not
do, and that a cancelled order stays so, through every loss of the feed.
`HedgeInv` says what `wait_for_position_change` relies on: while nothing blurs a
hedge, the venue holds the position read before it or that position moved by
exactly what the hedge executed, and the feed shows no third one; `clean` names
the conditions.

For the Hyperliquid transport `PostInv` follows a post through its life.
`UnderWay`: a post without a result belongs to one caller. `Passage`: it is in one
place at a time, in the caller, in one of the four queues of the client
(`HeldOnce`) or with the exchange, and the exchange acts on it when it leaves the
last. That is why nothing is acted on twice, and it fails for a client that keeps
what it flushes. `Answered`: every body on its way to a caller, in the air, in a
callback or in an entry, is the exchange's result for that id, or says that the
connection broke. `Resting`: only a placed order rests, and a cancel is of an
order the exchange has handled, hence cannot overtake it. `Waiting`: a caller that
still waits is in `pending_` or in the loop of the callback that makes it ready
(`InReach`), which gives `UnansweredIsQueued` when a connection is lost.
`TransportKeepsPromise` maps each action under `PostInv`: a post made is `Make`,
a request served, or acted on as the connection breaks, is `Act`, a result
returned is `Answer` or `Fail`, and every other step stutters (`Told` forgets it).

For the main loop `OneBlindTick` is not inductive: a second tick is kept out by
the switch, and the switch by nobody lifting it. `BlindInv` says that a feed that
has lost its connection does not call itself subscribed (`Unsubscribed`); that
the name of a stale-quote switch is only there with that switch, so that the check
of the quotes lifts no other (`StaleIsNamed`); and that after a blind tick the
loop can only be on the way through its check of the feed, with the switch on
behind it (`RaisedAfterBlind`). The bound on the position in `TypeOK` needs that
an order is in one place and its fill counted once, on top of a position that was
queried (`OnePlace`, `Counted`).

The inductive invariants were checked by TLC on the instances of section 3 before
they were proved.

*Only model-checked*: the liveness properties (`DeferralEnds` of both engines,
`NamedSwitchEnds`, `PostEnds`, `EventuallySubscribed`), which rest on fairness and
on `ENABLED`, out of this prover's reach. `HedgedBook` beside speculative hedges
is false without its premise, so `BookIsHedged` keeps it. The four violations of
section 3 are counterexamples and need no proof.

## 5. Not modelled

- Signing, msgpack, keccak, the Lighter signer library: pure functions; a
  signature that fails is (`SignFails`).
- JSON search and number parsing in the feeds and the answers. What they can get
  wrong for a caller is modelled where it matters: a reply without the market
  reads as no position, a message that is not recognised is dropped.
- Prices, `AtomicBbo` and the order of quotes: the engines see a spread chosen
  anew in each tick, so every order of quotes is covered.
- The dry-run branches and the REST fallbacks of the transports, which send no
  order or send it one at a time without a connection that lasts.
- The journal and the telemetry, which nothing reads back. Rows lost in a crash
  stay a listed hazard.
- Client pings (`do_ping`, `on_ping`), control frames that Beast lets run beside a
  write and that change no state of the client, and `max_reconnect_attempts`,
  which every owner leaves at 0, no limit.
- `RiskGuard::check_new_entry` and the counter of failed hedges, which
  `main_live` never calls; its kill switch is in `LiveLoop`.
- The demo and smoke programs, and the public REST exchange.

## 6. Plan

Done: `MakerStrategy`, `MakerHedgeEngine`, `LighterMakerEngine` and `LiveLoop`
with their runs, `WsClient` with `HlWsPost` (implementing `OrderCalls`),
`LighterTrading` and `Feeds`; every safety property of a passing run is stated by
a theorem.

1. `HedgeLedger`: the promise of the engine (every fill taken up is offset or
   unwound) as an abstract specification, with `MakerHedgeEngine` proved to
   implement it by a refinement mapping from `answered` and `ltPosition`.
2. `LighterMakerEngine`: partial hedges, which
   `docs/lighter-maker-hl-taker-integration-plan.md` 146-149 wants reconciled and
   the engine counts as complete, as a property of their own.
3. Lemmas of `HlWsPost_proofs` and `LighterOrders_proofs` on sequences (what
   leaves and enters a queue) shared in one place.
4. The composition of loop and engine for trade prints under a kill switch.
