------------------------------ MODULE LiveLoop ------------------------------
(***************************************************************************)
(* The main loop of src/src/main_live.cpp with the kill switch (RiskGuard) *)
(* and the fill feed (HlFillFeed over WsClient), which lives on an IO      *)
(* thread of its own and calls back into the kill switch and the exchange. *)
(*                                                                         *)
(* The two threads share the kill switch and the engine's active order id  *)
(* without a lock, so every read and every write of them is a step of its  *)
(* own.  The queue of fills is locked while the loop drains it.            *)
(*                                                                         *)
(* Of the engine only what the loop touches is kept: the order it has in   *)
(* the book and the position it counts.  Every order is a buy of one unit; *)
(* what the engine decides when it runs is left open.                      *)
(***************************************************************************)
EXTENDS Naturals, FiniteSets

CONSTANTS
    MaxOrders,    \* bound: orders the engine places
    MaxDrops,     \* bound: disconnections of the fill feed
    MaxStale,     \* bound: ticks that see stale quotes
    MaxRefused,   \* bound: cancels Hyperliquid answers with an error
    MaxErrors     \* bound: position queries that fail

ASSUME LoopAssumption ==
    /\ MaxOrders \in Nat \ {0}
    /\ MaxDrops \in Nat
    /\ MaxStale \in Nat
    /\ MaxRefused \in Nat
    /\ MaxErrors \in Nat

\* "fill feed not subscribed", "fill feed disconnected: ...", "stale quotes detected".
FeedReasons == {"unsubscribed", "disconnected"}
Reasons == FeedReasons \cup {"", "stale"}

Orders == 1..MaxOrders
NoOrder == 0

VARIABLES
    pc,           \* where the main thread is
    io,           \* where the IO thread of the fill feed is
    connected,    \* WsClient::connected_ of the fill feed
    subscribed,   \* HlFillFeed::subscribed_
    kill,         \* RiskGuard::kill_switch_
    reason,       \* RiskGuard::kill_switch_reason_, one of Reasons
    stale,        \* the quotes of this tick's snapshot are too old
    active,       \* active_hl_oid_ of the engine
    enginePos,    \* hl_position_base_ of the engine
    queried,      \* what query_hl_position returned
    queue,        \* g_fill_queue, as the orders whose fills it holds
    inflight,     \* fill messages on their way over the fill feed
    resting,      \* Hyperliquid: the orders in the book
    filled,       \* Hyperliquid: the orders executed
    placed,       \* history: number of orders placed
    blind,        \* history: engine ticks since the feed lost its subscription, 2 = more
    drops, stales, refused, errors    \* history: how often each was

killVars   == <<kill, reason>>
feedVars   == <<connected, subscribed, inflight>>
engineVars == <<active, enginePos>>
venueVars  == <<resting, filled, placed>>
boundVars  == <<drops, stales, refused, errors>>
vars == <<pc, io, feedVars, killVars, stale, engineVars, queried, queue, venueVars,
          blind, boundVars>>

\* Faults of the code the properties must catch.
ConnectedIsEnough == connected

\* HlFillFeed::is_subscribed.
FillsSubscribed == connected /\ subscribed

\* hl_exchange.cancel_order on the order the engine holds; the answer is not looked at.
CancelAtVenue ==
    \/ /\ resting' = resting \ {active}
       /\ UNCHANGED refused
    \/ /\ active \in resting
       /\ refused < MaxRefused
       /\ refused' = refused + 1
       /\ UNCHANGED resting

----------------------------------------------------------------------------
(* The main thread, in the order of the loop body. *)

Goto(from, to) == pc = from /\ pc' = to

\* The loop drains the queue under its lock.  A fill of the last order placed is hedged,
\* counted and ends the active order; any other is ignored by the engine.
DrainFills ==
    /\ Goto("fills", "check")
    /\ IF placed \in queue
       THEN active' = NoOrder /\ enginePos' = enginePos + 1
       ELSE UNCHANGED engineVars
    /\ queue' = {}
    /\ UNCHANGED <<io, feedVars, killVars, stale, queried, venueVars, blind, boundVars>>

\* The snapshot of this tick: its quotes are fresh or stale.
SnapshotQuotes ==
    \/ /\ stale' = FALSE
       /\ UNCHANGED stales
    \/ /\ stales < MaxStale
       /\ stale' = TRUE
       /\ stales' = stales + 1

CheckFeedIn(liftable) ==
    /\ pc = "check"
    /\ pc' = CASE ~FillsSubscribed /\ ~kill                       -> "raiseFeed"
               [] FillsSubscribed /\ kill /\ reason \in liftable  -> "query"
               [] OTHER                                           -> "stale"
    /\ SnapshotQuotes
    /\ UNCHANGED <<io, feedVars, killVars, engineVars, queried, queue, venueVars, blind,
                   drops, refused, errors>>

CheckFeedForgetsDisconnect == CheckFeedIn({"unsubscribed"})

\* "Check fill feed status every tick": raise the switch when it is down, begin to lift a
\* switch that was raised for it when it is up.
CheckFeed == CheckFeedIn(FeedReasons)

\* activate_kill_switch, for the fill feed and for stale quotes: the flag, then the reason.
RaiseFlag(from, to) ==
    /\ Goto(from, to)
    /\ kill' = TRUE
    /\ UNCHANGED <<io, feedVars, reason, stale, engineVars, queried, queue, venueVars,
                   blind, boundVars>>

NameReason(from, to, why) ==
    /\ Goto(from, to)
    /\ reason' = why
    /\ UNCHANGED <<io, feedVars, kill, stale, engineVars, queried, queue, venueVars,
                   blind, boundVars>>

\* "Cancel any active maker order immediately"; the engine is not told.
CancelActive ==
    /\ Goto("cancelActive", "stale")
    /\ IF active # NoOrder THEN CancelAtVenue ELSE UNCHANGED <<resting, refused>>
    /\ UNCHANGED <<io, feedVars, killVars, stale, engineVars, queried, queue, filled, placed,
                   blind, drops, stales, errors>>

\* query_hl_position: the position at Hyperliquid, or 0 when anything goes wrong.
QueryPosition ==
    /\ Goto("query", "sync")
    /\ \/ /\ queried' = Cardinality(filled)
          /\ UNCHANGED errors
       \/ /\ errors < MaxErrors
          /\ queried' = 0
          /\ errors' = errors + 1
    /\ UNCHANGED <<io, feedVars, killVars, stale, engineVars, queue, venueVars, blind,
                   drops, stales, refused>>

SyncAddsPosition ==
    /\ Goto("sync", "resetFeed")
    /\ enginePos' = enginePos + queried
    /\ queried' = 0
    /\ UNCHANGED <<io, feedVars, killVars, stale, active, queue, venueVars, blind,
                   boundVars>>

\* A mismatch is settled by believing the answer; nothing is hedged.
SyncPosition ==
    /\ Goto("sync", "resetFeed")
    /\ enginePos' = queried
    /\ queried' = 0
    /\ UNCHANGED <<io, feedVars, killVars, stale, active, queue, venueVars, blind, boundVars>>

\* reset_kill_switch: the flag, then the reason.
ResetFlag(from, to) ==
    /\ Goto(from, to)
    /\ kill' = FALSE
    /\ UNCHANGED <<io, feedVars, reason, stale, engineVars, queried, queue, venueVars, blind,
                   boundVars>>

ClearReason(from, to) ==
    /\ Goto(from, to)
    /\ reason' = ""
    /\ UNCHANGED <<io, feedVars, kill, stale, engineVars, queried, queue, venueVars, blind,
                   boundVars>>

\* The stale-quote switch: raised on old quotes, whatever else is on; old quotes end the
\* tick; fresh ones lift a switch this check raised.
CheckQuotes ==
    /\ pc = "stale"
    /\ pc' = CASE stale /\ ~kill                       -> "raiseStale"
               [] stale /\ kill                        -> "fills"
               [] ~stale /\ kill /\ reason = "stale"   -> "resetStale"
               [] OTHER                                -> "gate"
    /\ UNCHANGED <<io, feedVars, killVars, stale, engineVars, queried, queue, venueVars,
                   blind, boundVars>>

\* "if (risk.kill_switch_active()) continue": the engine runs only without a kill switch.
Gate ==
    /\ pc = "gate"
    /\ pc' = IF kill THEN "fills" ELSE "engine"
    /\ blind' = IF ~kill /\ ~FillsSubscribed /\ blind < 2 THEN blind + 1 ELSE blind
    /\ UNCHANGED <<io, feedVars, killVars, stale, engineVars, queried, queue, venueVars,
                   boundVars>>

\* on_market_data does nothing, sends an order and waits for its acknowledgement, or
\* cancels: the order it holds is dropped unless Hyperliquid answers with an error.
EngineHolds ==
    /\ Goto("engine", "fills")
    /\ UNCHANGED <<io, feedVars, killVars, stale, engineVars, queried, queue, venueVars,
                   blind, boundVars>>

EngineSends ==
    /\ Goto("engine", "sent")
    /\ active = NoOrder
    /\ placed < MaxOrders
    /\ placed' = placed + 1
    /\ resting' = resting \cup {placed + 1}
    /\ UNCHANGED <<io, feedVars, killVars, stale, engineVars, queried, queue, filled, blind,
                   boundVars>>

EngineAcked ==
    /\ Goto("sent", "fills")
    /\ active' = placed
    /\ UNCHANGED <<io, feedVars, killVars, stale, enginePos, queried, queue, venueVars,
                   blind, boundVars>>

EngineCancels ==
    /\ Goto("engine", "fills")
    /\ active # NoOrder
    /\ CancelAtVenue
    /\ active' = IF refused' = refused THEN NoOrder ELSE active
    /\ UNCHANGED <<io, feedVars, killVars, stale, enginePos, queried, queue, filled, placed,
                   blind, drops, stales, errors>>

MainStep ==
    \/ DrainFills
    \/ CheckFeed
    \/ RaiseFlag("raiseFeed", "nameFeed")
    \/ NameReason("nameFeed", "cancelActive", "unsubscribed")
    \/ CancelActive
    \/ QueryPosition
    \/ SyncPosition
    \/ ResetFlag("resetFeed", "clearFeed")
    \/ ClearReason("clearFeed", "stale")
    \/ CheckQuotes
    \/ RaiseFlag("raiseStale", "nameStale")
    \/ NameReason("nameStale", "fills", "stale")
    \/ ResetFlag("resetStale", "clearStale")
    \/ ClearReason("clearStale", "gate")
    \/ Gate
    \/ EngineHolds
    \/ EngineSends
    \/ EngineAcked
    \/ EngineCancels

----------------------------------------------------------------------------
(* The IO thread of the fill feed. *)

IoGoto(from, to) == io = from /\ io' = to

\* A read fails: what was on its way is lost, and the disconnect callbacks begin.
Drop ==
    /\ IoGoto("idle", "unsubscribe")
    /\ connected
    /\ drops < MaxDrops
    /\ drops' = drops + 1
    /\ connected' = FALSE
    /\ inflight' = {}
    /\ UNCHANGED <<pc, subscribed, killVars, stale, engineVars, queried, queue, venueVars,
                   blind, stales, refused, errors>>

\* HlFillFeed marks itself unsubscribed; its new subscribe waits in pending_sends_.
Unsubscribe ==
    /\ IoGoto("unsubscribe", "notify")
    /\ subscribed' = FALSE
    /\ UNCHANGED <<pc, connected, inflight, killVars, stale, engineVars, queried, queue,
                   venueVars, blind, boundVars>>

\* The callback of main: nothing when a kill switch is on already.
NotifyDisconnect ==
    /\ io = "notify"
    /\ io' = IF kill THEN "idle" ELSE "raise"
    /\ UNCHANGED <<pc, feedVars, killVars, stale, engineVars, queried, queue, venueVars,
                   blind, boundVars>>

IoRaiseFlag ==
    /\ IoGoto("raise", "name")
    /\ kill' = TRUE
    /\ UNCHANGED <<pc, feedVars, reason, stale, engineVars, queried, queue, venueVars, blind,
                   boundVars>>

IoNameReason ==
    /\ IoGoto("name", "cancel")
    /\ reason' = "disconnected"
    /\ UNCHANGED <<pc, feedVars, kill, stale, engineVars, queried, queue, venueVars, blind,
                   boundVars>>

\* The callback reads the engine's active order on this thread and cancels it.
IoCancelActive ==
    /\ IoGoto("cancel", "idle")
    /\ IF active # NoOrder THEN CancelAtVenue ELSE UNCHANGED <<resting, refused>>
    /\ UNCHANGED <<pc, feedVars, killVars, stale, engineVars, queried, queue, filled, placed,
                   blind, drops, stales, errors>>

\* Handshake: the pending subscribe is flushed.
Reconnect ==
    /\ io = "idle"
    /\ ~connected
    /\ connected' = TRUE
    /\ UNCHANGED <<pc, io, subscribed, inflight, killVars, stale, engineVars, queried, queue,
                   venueVars, blind, boundVars>>

\* The subscriptionResponse.
Resubscribe ==
    /\ io = "idle"
    /\ connected /\ ~subscribed
    /\ subscribed' = TRUE
    /\ blind' = 0
    /\ UNCHANGED <<pc, io, connected, inflight, killVars, stale, engineVars, queried, queue,
                   venueVars, boundVars>>

\* A fill message: queued under the lock for the main thread.
DeliverFill ==
    /\ io = "idle"
    /\ FillsSubscribed
    /\ \E o \in inflight :
           /\ inflight' = inflight \ {o}
           /\ queue' = queue \cup {o}
    /\ UNCHANGED <<pc, io, connected, subscribed, killVars, stale, engineVars, queried,
                   venueVars, blind, boundVars>>

IoStep ==
    \/ Unsubscribe
    \/ NotifyDisconnect
    \/ IoRaiseFlag
    \/ IoNameReason
    \/ IoCancelActive
    \/ Reconnect
    \/ Resubscribe
    \/ DeliverFill

\* Hyperliquid executes an order; without a subscription the message is never sent again
\* (a snapshot of past fills is skipped by parse_hl_fill).
ExecuteOrder(o) ==
    /\ o \in resting
    /\ resting' = resting \ {o}
    /\ filled' = filled \cup {o}
    /\ inflight' = IF FillsSubscribed THEN inflight \cup {o} ELSE inflight
    /\ UNCHANGED <<pc, io, connected, subscribed, killVars, stale, engineVars, queried,
                   queue, placed, blind, boundVars>>

----------------------------------------------------------------------------
\* The loop starts after the feeds, with quotes of both venues; the fill feed may not be up.
Init ==
    /\ pc = "fills" /\ io = "idle"
    /\ connected = FALSE /\ subscribed = FALSE
    /\ kill = FALSE /\ reason = ""
    /\ stale = FALSE
    /\ active = NoOrder /\ enginePos = 0 /\ queried = 0
    /\ queue = {} /\ inflight = {}
    /\ resting = {} /\ filled = {} /\ placed = 0
    /\ blind = 0
    /\ drops = 0 /\ stales = 0 /\ refused = 0 /\ errors = 0

Next ==
    \/ MainStep
    \/ IoStep
    \/ Drop
    \/ \E o \in Orders : ExecuteOrder(o)

Spec == Init /\ [][Next]_vars

\* Both threads keep running, and a dropped connection is retried for ever
\* (schedule_reconnect with max_reconnect_attempts = 0).
FairSpec == Spec /\ WF_vars(MainStep) /\ WF_vars(IoStep)

----------------------------------------------------------------------------
(* Properties. *)

\* Types and ranges of every variable.
TypeOK ==
    /\ pc \in {"fills", "check", "raiseFeed", "nameFeed", "cancelActive", "query", "sync",
               "resetFeed", "clearFeed", "stale", "raiseStale", "nameStale", "resetStale",
               "clearStale", "gate", "engine", "sent"}
    /\ io \in {"idle", "unsubscribe", "notify", "raise", "name", "cancel"}
    /\ connected \in BOOLEAN /\ subscribed \in BOOLEAN
    /\ kill \in BOOLEAN /\ reason \in Reasons /\ stale \in BOOLEAN
    /\ active \in Orders \cup {NoOrder}
    /\ enginePos \in 0..(2 * MaxOrders) /\ queried \in 0..MaxOrders
    /\ queue \subseteq Orders /\ inflight \subseteq Orders
    /\ resting \subseteq Orders /\ filled \subseteq Orders
    /\ placed \in 0..MaxOrders /\ blind \in 0..2
    /\ drops \in 0..MaxDrops /\ stales \in 0..MaxStale
    /\ refused \in 0..MaxRefused /\ errors \in 0..MaxErrors

\* However the two threads interleave, the engine runs at most one tick between the moment
\* the fill feed loses its subscription and the moment it has it again.
OneBlindTick == blind <= 1

\* A kill switch is lifted again once the feed is back and the quotes are fresh, whichever
\* of the two checks raised it and whatever the other one does meanwhile, as long as its
\* reason is not lost.
NamedSwitchEnds == kill /\ reason # "" ~> ~kill \/ reason = ""

\* "kill switch reset (fill feed reconnected and subscribed)", "kill switch reset (quotes
\* fresh)" (main_live.cpp:584, 598): a kill switch raised for either is lifted.
KillSwitchEnds == kill ~> ~kill

\* "Cancel any active maker order immediately" (main_live.cpp:408, 558): once both threads
\* are done with an outage, no order rests while its fills cannot be seen.
BookEmptyInOutage ==
    pc = "fills" /\ io = "idle" /\ kill /\ reason \in FeedReasons /\ ~FillsSubscribed
        => resting = {}
=============================================================================
