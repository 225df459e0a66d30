---------------------------- MODULE LiveLoop_proofs ----------------------------
(***************************************************************************)
(* The types of the main loop, the position it counts among them, and that *)
(* it runs at most one tick without seeing its fills.                      *)
(***************************************************************************)
EXTENDS LiveLoop, FiniteSetTheorems, TLAPS

\* TypeOK without the bound of the position.
BasicTypes ==
    /\ pc \in {"fills", "check", "raiseFeed", "nameFeed", "cancelActive", "query", "sync",
               "resetFeed", "clearFeed", "stale", "raiseStale", "nameStale", "resetStale",
               "clearStale", "gate", "engine", "sent"}
    /\ io \in {"idle", "unsubscribe", "notify", "raise", "name", "cancel"}
    /\ connected \in BOOLEAN /\ subscribed \in BOOLEAN
    /\ kill \in BOOLEAN /\ reason \in Reasons /\ stale \in BOOLEAN
    /\ active \in 0..placed
    /\ placed \in 0..MaxOrders /\ blind \in 0..2
    /\ drops \in 0..MaxDrops /\ stales \in 0..MaxStale
    /\ refused \in 0..MaxRefused /\ errors \in 0..MaxErrors
    /\ pc = "sent" => placed > 0

\* An order is in one place: in the book, its fill on the way or queued; and nothing is
\* known of an order before it is placed.
OnePlace ==
    /\ queue \subseteq 1..placed /\ inflight \subseteq 1..placed
    /\ resting \subseteq 1..placed /\ filled \subseteq 1..placed
    /\ resting \cap filled = {} /\ inflight \subseteq filled /\ queue \subseteq filled
    /\ inflight \cap queue = {}

\* Each order is counted at most once by its fill, on top of a position that was queried:
\* the last order may not be counted yet.
Counted ==
    /\ enginePos \in Nat /\ queried \in Nat
    /\ queried <= placed
    /\ enginePos <= 2 * placed
    /\ placed \in resting \cup inflight \cup queue => enginePos <= 2 * placed - 1

LoopInv == BasicTypes /\ OnePlace /\ Counted

\* The reason of the stale-quote switch is only there with the switch, or while it is
\* being lifted; no lifting for the fill feed finds it.
StaleIsNamed ==
    /\ reason = "stale" => kill \/ pc = "clearStale"
    /\ pc \in {"query", "sync", "resetFeed", "clearFeed"} => reason # "stale"
    /\ pc = "nameStale" => kill

\* Between its disconnection and the answer to its next subscription the feed does not
\* call itself subscribed.
Unsubscribed ==
    /\ io = "idle" /\ ~connected => ~subscribed
    /\ io \in {"notify", "raise", "name", "cancel"} => ~subscribed
    /\ io # "idle" => ~connected
    /\ blind > 0 => ~FillsSubscribed

\* After a blind tick the loop goes through its check of the feed, which finds the switch on
\* or raises it; then nothing can lift it before the feed is back.
RaisedAfterBlind ==
    blind > 0 =>
        /\ pc \in {"engine", "sent", "fills", "check", "raiseFeed", "nameFeed", "cancelActive",
                   "stale", "gate"}
        /\ reason # "stale"
        /\ pc \in {"nameFeed", "cancelActive", "stale", "gate"} => kill

BlindInv == StaleIsNamed /\ Unsubscribed /\ RaisedAfterBlind /\ OneBlindTick

\* The orders executed are no more than those placed.
LEMMA FilledCount ==
    ASSUME LoopInv PROVE Cardinality(filled) \in Nat /\ Cardinality(filled) <= placed
<1>1. placed \in Nat /\ filled \subseteq 1..placed
  BY LoopAssumption DEF LoopInv, BasicTypes, OnePlace
<1>2. IsFiniteSet(1..placed) /\ Cardinality(1..placed) = placed
  BY <1>1, FS_Interval
<1>3. IsFiniteSet(filled) /\ Cardinality(filled) <= Cardinality(1..placed)
  BY <1>1, <1>2, FS_Subset
<1>4. QED
  BY <1>2, <1>3, FS_CardinalityType

\* No order, no fill, nothing raised.
LEMMA LoopInit == ASSUME Init PROVE LoopInv /\ BlindInv
<1>1. /\ connected \in BOOLEAN /\ subscribed \in BOOLEAN /\ kill \in BOOLEAN /\ stale \in BOOLEAN
      /\ ~subscribed
  BY Zenon DEF Init
<1>2. pc = "fills" /\ io = "idle" /\ reason = ""
  BY Zenon DEF Init
<1>3. /\ active = 0 /\ placed = 0 /\ blind = 0 /\ enginePos = 0 /\ queried = 0
      /\ drops = 0 /\ stales = 0 /\ refused = 0 /\ errors = 0
  BY Zenon DEF Init, NoOrder
<1>4. queue = {} /\ inflight = {} /\ resting = {} /\ filled = {}
  BY Zenon DEF Init
<1>5. BasicTypes
  <2>1. /\ active \in 0..placed /\ placed \in 0..MaxOrders /\ blind \in 0..2
        /\ drops \in 0..MaxDrops /\ stales \in 0..MaxStale
        /\ refused \in 0..MaxRefused /\ errors \in 0..MaxErrors
    BY <1>3, LoopAssumption
  <2>2. reason \in Reasons
    BY <1>2 DEF Reasons
  <2>3. pc # "sent"
    BY <1>2
  <2>4. QED
    BY <1>1, <1>2, <2>1, <2>2, <2>3, Zenon DEF BasicTypes
<1>6. OnePlace
  BY <1>4 DEF OnePlace
<1>7. Counted
  BY <1>3, <1>4 DEF Counted
<1>8. StaleIsNamed
  BY <1>2 DEF StaleIsNamed
<1>9. Unsubscribed
  <2>1. ~(blind > 0)
    BY <1>3
  <2>2. QED
    BY <1>1, <1>2, <2>1, Zenon DEF Unsubscribed
<1>10. RaisedAfterBlind /\ OneBlindTick
  BY <1>3 DEF RaisedAfterBlind, OneBlindTick
<1>11. QED
  BY <1>5, <1>6, <1>7, <1>8, <1>9, <1>10 DEF LoopInv, BlindInv

\* Steps that move no order and count nothing.
LEMMA OrdersUntouched ==
    ASSUME LoopInv, UNCHANGED <<enginePos, queried, queue, inflight, resting, filled, placed>>
    PROVE  OnePlace' /\ Counted'
  BY DEF LoopInv, OnePlace, Counted

\* A cancel, of the engine, the loop or the disconnect callback, takes an order out of the
\* book or is refused.
LEMMA CancelKeeps ==
    ASSUME LoopInv, CancelAtVenue \/ UNCHANGED <<resting, refused>>,
           UNCHANGED <<enginePos, queried, queue, inflight, filled, placed>>
    PROVE  OnePlace' /\ Counted' /\ refused' \in 0..MaxRefused
<1>1. resting' \subseteq resting
  BY DEF CancelAtVenue
<1>2. refused' \in 0..MaxRefused
  BY LoopAssumption DEF CancelAtVenue, LoopInv, BasicTypes
<1>3. QED
  BY <1>1, <1>2 DEF LoopInv, OnePlace, Counted

\* The steps of the main thread that touch no order.
LEMMA SwitchKeeps ==
    ASSUME LoopInv,
           \/ CheckFeed \/ CheckQuotes \/ Gate \/ EngineHolds
           \/ RaiseFlag("raiseFeed", "nameFeed") \/ RaiseFlag("raiseStale", "nameStale")
           \/ NameReason("nameFeed", "cancelActive", "unsubscribed")
           \/ NameReason("nameStale", "fills", "stale")
           \/ ResetFlag("resetFeed", "clearFeed") \/ ResetFlag("resetStale", "clearStale")
           \/ ClearReason("clearFeed", "stale") \/ ClearReason("clearStale", "gate")
    PROVE  LoopInv'
<1>1. /\ UNCHANGED <<enginePos, queried, queue, inflight, resting, filled, placed, active>>
      /\ UNCHANGED <<io, connected, subscribed, drops, refused, errors>>
  BY DEF CheckFeed, CheckFeedIn, SnapshotQuotes, CheckQuotes, Gate, EngineHolds, RaiseFlag,
         NameReason, ResetFlag, ClearReason, feedVars, engineVars, venueVars, boundVars
<1>2. OnePlace' /\ Counted'
  BY <1>1, OrdersUntouched
<1>3. kill' \in BOOLEAN /\ stale' \in BOOLEAN
  BY Zenon DEF LoopInv, BasicTypes, CheckFeed, CheckFeedIn, SnapshotQuotes, CheckQuotes, Gate,
         EngineHolds, RaiseFlag, NameReason, ResetFlag, ClearReason, killVars
<1>4. reason' \in Reasons
  BY DEF LoopInv, BasicTypes, CheckFeed, CheckFeedIn, SnapshotQuotes, CheckQuotes, Gate,
         EngineHolds, RaiseFlag, NameReason, ResetFlag, ClearReason, killVars, Reasons, FeedReasons
<1>5. stales' \in 0..MaxStale /\ blind' \in 0..2
  <2>1. stales' = stales \/ (stales < MaxStale /\ stales' = stales + 1)
    BY DEF CheckFeed, CheckFeedIn, SnapshotQuotes, CheckQuotes, Gate, EngineHolds, RaiseFlag,
           NameReason, ResetFlag, ClearReason, boundVars
  <2>2. blind' = blind \/ (blind < 2 /\ blind' = blind + 1)
    BY DEF CheckFeed, CheckFeedIn, CheckQuotes, Gate, EngineHolds, RaiseFlag, NameReason,
           ResetFlag, ClearReason
  <2>3. QED
    BY <2>1, <2>2, LoopAssumption DEF LoopInv, BasicTypes
<1>6. pc' \in {"fills", "nameFeed", "raiseFeed", "query", "cancelActive", "clearFeed", "stale",
               "raiseStale", "nameStale", "resetStale", "clearStale", "gate", "engine"}
  BY DEF CheckFeed, CheckFeedIn, CheckQuotes, Gate, EngineHolds, RaiseFlag, NameReason, ResetFlag,
         ClearReason, Goto
<1>7. BasicTypes'
  BY <1>1, <1>3, <1>4, <1>5, <1>6 DEF LoopInv, BasicTypes
<1>8. QED
  BY <1>2, <1>7 DEF LoopInv

\* DrainFills: the fill of the last order is counted, once.
LEMMA DrainKeeps == ASSUME LoopInv, DrainFills PROVE LoopInv'
<1>1. /\ pc' = "check" /\ queue' = {}
      /\ UNCHANGED <<io, connected, subscribed, inflight, kill, reason, stale, queried, resting,
                     filled, placed, blind, drops, stales, refused, errors>>
  BY DEF DrainFills, Goto, feedVars, killVars, venueVars, boundVars
<1>2. \/ placed \in queue /\ active' = 0 /\ enginePos' = enginePos + 1
      \/ placed \notin queue /\ active' = active /\ enginePos' = enginePos
  BY DEF DrainFills, NoOrder, engineVars
<1>3. placed \in Nat
  BY LoopAssumption DEF LoopInv, BasicTypes
<1>4. BasicTypes'
  BY <1>1, <1>2, <1>3 DEF LoopInv, BasicTypes
<1>5. OnePlace'
  BY <1>1 DEF LoopInv, OnePlace
<1>6. Counted'
  <2>1. CASE placed \in queue /\ enginePos' = enginePos + 1
    <3>1. placed \notin resting \cup inflight
      BY <2>1 DEF LoopInv, OnePlace
    <3>2. QED
      BY <1>1, <1>3, <2>1, <3>1 DEF LoopInv, Counted
  <2>2. CASE placed \notin queue /\ enginePos' = enginePos
    BY <1>1, <2>2 DEF LoopInv, Counted
  <2>3. QED
    BY <1>2, <2>1, <2>2
<1>7. QED
  BY <1>4, <1>5, <1>6 DEF LoopInv

\* QueryPosition and SyncPosition: what is believed is no more than was executed.
LEMMA SyncKeeps == ASSUME LoopInv, QueryPosition \/ SyncPosition PROVE LoopInv'
<1>1. /\ UNCHANGED <<io, connected, subscribed, inflight, kill, reason, stale, active, queue,
                     resting, filled, placed, blind, drops, stales, refused>>
      /\ pc' \in {"sync", "resetFeed"}
  BY DEF QueryPosition, SyncPosition, Goto, feedVars, killVars, venueVars, boundVars, engineVars
<1>2. errors' \in 0..MaxErrors
  BY LoopAssumption DEF LoopInv, BasicTypes, QueryPosition, SyncPosition, boundVars
<1>3. BasicTypes'
  BY <1>1, <1>2 DEF LoopInv, BasicTypes
<1>4. OnePlace'
  BY <1>1 DEF LoopInv, OnePlace
<1>5. placed \in Nat
  BY LoopAssumption DEF LoopInv, BasicTypes
<1>6. CASE QueryPosition
  <2>1. queried' \in Nat /\ queried' <= placed /\ enginePos' = enginePos
    BY <1>5, <1>6, FilledCount DEF QueryPosition, engineVars
  <2>2. Counted'
    BY <1>1, <2>1 DEF LoopInv, Counted
  <2>3. QED
    BY <1>3, <1>4, <2>2 DEF LoopInv
<1>7. CASE SyncPosition
  <2>1. enginePos' = queried /\ queried' = 0
    BY <1>7 DEF SyncPosition
  <2>2. placed \in resting \cup inflight \cup queue => placed >= 1
    BY <1>5 DEF LoopInv, OnePlace
  <2>3. Counted'
    BY <1>1, <1>5, <2>1, <2>2 DEF LoopInv, Counted
  <2>4. QED
    BY <1>3, <1>4, <2>3 DEF LoopInv
<1>8. QED
  BY <1>6, <1>7

\* CancelActive and IoCancelActive: the engine is not told of the cancel.
LEMMA CancelActiveKeeps == ASSUME LoopInv, CancelActive \/ IoCancelActive PROVE LoopInv'
<1>1. /\ UNCHANGED <<connected, subscribed, inflight, kill, reason, stale, active, enginePos,
                     queried, queue, filled, placed, blind, drops, stales, errors>>
      /\ pc' = pc \/ pc' = "stale"
      /\ io' = io \/ io' = "idle"
  BY DEF CancelActive, IoCancelActive, Goto, IoGoto, feedVars, killVars, engineVars
<1>2. CancelAtVenue \/ UNCHANGED <<resting, refused>>
  BY DEF CancelActive, IoCancelActive
<1>3. OnePlace' /\ Counted' /\ refused' \in 0..MaxRefused
  BY <1>1, <1>2, CancelKeeps
<1>4. BasicTypes'
  BY <1>1, <1>3 DEF LoopInv, BasicTypes
<1>5. QED
  BY <1>3, <1>4 DEF LoopInv

\* EngineCancels: the order is dropped unless Hyperliquid answers with an error.
LEMMA EngineCancelsKeeps == ASSUME LoopInv, EngineCancels PROVE LoopInv'
<1>1. /\ UNCHANGED <<io, connected, subscribed, inflight, kill, reason, stale, enginePos,
                     queried, queue, filled, placed, blind, drops, stales, errors>>
      /\ pc' = "fills"
      /\ active' = active \/ active' = 0
  BY DEF EngineCancels, Goto, feedVars, killVars, NoOrder
<1>2. OnePlace' /\ Counted' /\ refused' \in 0..MaxRefused
  BY <1>1, CancelKeeps DEF EngineCancels
<1>3. active' \in 0..placed
  BY <1>1, LoopAssumption DEF LoopInv, BasicTypes
<1>4. BasicTypes'
  BY <1>1, <1>2, <1>3 DEF LoopInv, BasicTypes
<1>5. QED
  BY <1>2, <1>4 DEF LoopInv

\* EngineSends: the new order is not counted, and what was counted is at most twice the
\* orders before it.
LEMMA SendKeeps == ASSUME LoopInv, EngineSends PROVE LoopInv'
<1>1. /\ UNCHANGED <<io, connected, subscribed, inflight, kill, reason, stale, active, enginePos,
                     queried, queue, filled, blind, drops, stales, refused, errors>>
      /\ pc' = "sent" /\ placed < MaxOrders /\ placed' = placed + 1
      /\ resting' = resting \cup {placed + 1}
  BY DEF EngineSends, Goto, feedVars, killVars, engineVars, boundVars
<1>2. placed \in Nat /\ placed' \in 1..MaxOrders
  BY <1>1, LoopAssumption DEF LoopInv, BasicTypes
<1>3. active' \in 0..placed'
  BY <1>1, <1>2 DEF LoopInv, BasicTypes
<1>4. BasicTypes'
  BY <1>1, <1>2, <1>3 DEF LoopInv, BasicTypes
<1>5. OnePlace'
  <2>1. 1..placed \subseteq 1..placed' /\ placed + 1 \in 1..placed' /\ placed + 1 \notin 1..placed
    BY <1>1, <1>2
  <2>2. QED
    BY <1>1, <2>1 DEF LoopInv, OnePlace
<1>6. Counted'
  BY <1>1, <1>2 DEF LoopInv, Counted
<1>7. QED
  BY <1>4, <1>5, <1>6 DEF LoopInv

\* EngineAcked: the engine holds the order it placed last.
LEMMA AckKeeps == ASSUME LoopInv, EngineAcked PROVE LoopInv'
<1>1. /\ UNCHANGED <<io, connected, subscribed, inflight, kill, reason, stale, enginePos, queried,
                     queue, resting, filled, placed, blind, drops, stales, refused, errors>>
      /\ pc' = "fills" /\ active' = placed
  BY DEF EngineAcked, Goto, feedVars, killVars, venueVars, boundVars
<1>2. active' \in 0..placed
  BY <1>1, LoopAssumption DEF LoopInv, BasicTypes
<1>3. BasicTypes'
  BY <1>1, <1>2 DEF LoopInv, BasicTypes
<1>4. QED
  BY <1>1, <1>3, OrdersUntouched DEF LoopInv

\* The steps of the IO thread that touch no order, and the disconnection.
LEMMA FeedKeeps ==
    ASSUME LoopInv,
           \/ Unsubscribe \/ NotifyDisconnect \/ IoRaiseFlag \/ IoNameReason \/ Reconnect
           \/ Resubscribe \/ Drop
    PROVE  LoopInv'
<1>1. /\ UNCHANGED <<pc, stale, active, enginePos, queried, queue, resting, filled, placed,
                     stales, refused, errors>>
      /\ inflight' = inflight \/ inflight' = {}
  BY DEF Unsubscribe, NotifyDisconnect, IoRaiseFlag, IoNameReason, Reconnect, Resubscribe, Drop,
         feedVars, engineVars, venueVars, boundVars
<1>2. connected' \in BOOLEAN /\ subscribed' \in BOOLEAN /\ kill' \in BOOLEAN
  BY Zenon DEF LoopInv, BasicTypes, Unsubscribe, NotifyDisconnect, IoRaiseFlag, IoNameReason,
         Reconnect, Resubscribe, Drop, feedVars, killVars
<1>3. reason' \in Reasons
  BY DEF LoopInv, BasicTypes, Unsubscribe, NotifyDisconnect, IoRaiseFlag, IoNameReason,
         Reconnect, Resubscribe, Drop, killVars, Reasons, FeedReasons
<1>4. io' \in {"idle", "unsubscribe", "notify", "raise", "name", "cancel"}
  BY DEF LoopInv, BasicTypes, Unsubscribe, NotifyDisconnect, IoRaiseFlag, IoNameReason,
         Reconnect, Resubscribe, Drop, IoGoto
<1>5. drops' \in 0..MaxDrops /\ blind' \in 0..2
  <2>1. drops' = drops \/ (drops < MaxDrops /\ drops' = drops + 1)
    BY DEF Unsubscribe, NotifyDisconnect, IoRaiseFlag, IoNameReason, Reconnect, Resubscribe, Drop,
           boundVars
  <2>2. blind' = blind \/ blind' = 0
    BY DEF Unsubscribe, NotifyDisconnect, IoRaiseFlag, IoNameReason, Reconnect, Resubscribe, Drop
  <2>3. QED
    BY <2>1, <2>2, LoopAssumption DEF LoopInv, BasicTypes
<1>6. BasicTypes'
  BY <1>1, <1>2, <1>3, <1>4, <1>5 DEF LoopInv, BasicTypes
<1>7. OnePlace'
  BY <1>1 DEF LoopInv, OnePlace
<1>8. Counted'
  BY <1>1 DEF LoopInv, Counted
<1>9. QED
  BY <1>6, <1>7, <1>8 DEF LoopInv

\* DeliverFill: a fill goes from the way into the queue.
LEMMA DeliverKeeps == ASSUME LoopInv, DeliverFill PROVE LoopInv'
<1>1. /\ UNCHANGED <<pc, io, connected, subscribed, kill, reason, stale, active, enginePos,
                     queried, resting, filled, placed, blind, drops, stales, refused, errors>>
  BY DEF DeliverFill, killVars, engineVars, venueVars, boundVars
<1>2. PICK o \in inflight : inflight' = inflight \ {o} /\ queue' = queue \cup {o}
  BY DEF DeliverFill
<1>3. BasicTypes'
  BY <1>1 DEF LoopInv, BasicTypes
<1>4. OnePlace'
  BY <1>1, <1>2 DEF LoopInv, OnePlace
<1>5. Counted'
  BY <1>1, <1>2 DEF LoopInv, Counted
<1>6. QED
  BY <1>3, <1>4, <1>5 DEF LoopInv

\* ExecuteOrder: an order leaves the book; its fill is on the way or lost.
LEMMA ExecuteKeeps == ASSUME LoopInv, NEW o \in Orders, ExecuteOrder(o) PROVE LoopInv'
<1>1. /\ UNCHANGED <<pc, io, connected, subscribed, kill, reason, stale, active, enginePos,
                     queried, queue, placed, blind, drops, stales, refused, errors>>
      /\ o \in resting /\ resting' = resting \ {o} /\ filled' = filled \cup {o}
      /\ inflight' = inflight \/ inflight' = inflight \cup {o}
  BY DEF ExecuteOrder, killVars, engineVars, boundVars
<1>2. BasicTypes'
  BY <1>1 DEF LoopInv, BasicTypes
<1>3. OnePlace'
  BY <1>1 DEF LoopInv, OnePlace
<1>4. Counted'
  BY <1>1 DEF LoopInv, Counted
<1>5. QED
  BY <1>2, <1>3, <1>4 DEF LoopInv

\* Every step keeps the orders in one place and the position within its bound.
LEMMA LoopStep == ASSUME LoopInv, [Next]_vars PROVE LoopInv'
<1>1. CASE MainStep
  <2>1. CASE DrainFills
    BY <2>1, DrainKeeps
  <2>2. CASE QueryPosition \/ SyncPosition
    BY <2>2, SyncKeeps
  <2>3. CASE CancelActive
    BY <2>3, CancelActiveKeeps
  <2>4. CASE EngineSends
    BY <2>4, SendKeeps
  <2>5. CASE EngineAcked
    BY <2>5, AckKeeps
  <2>6. CASE EngineCancels
    BY <2>6, EngineCancelsKeeps
  <2>7. QED
    BY <1>1, <2>1, <2>2, <2>3, <2>4, <2>5, <2>6, SwitchKeeps DEF MainStep
<1>2. CASE IoStep \/ Drop
  <2>1. CASE IoCancelActive
    BY <2>1, CancelActiveKeeps
  <2>2. CASE DeliverFill
    BY <2>2, DeliverKeeps
  <2>3. QED
    BY <1>2, <2>1, <2>2, FeedKeeps DEF IoStep
<1>3. CASE \E o \in Orders : ExecuteOrder(o)
  BY <1>3, ExecuteKeeps
<1>4. CASE UNCHANGED vars
  <2>1. BasicTypes'
    BY <1>4 DEF LoopInv, BasicTypes, vars, feedVars, killVars, engineVars, venueVars, boundVars
  <2>2. OnePlace' /\ Counted'
    BY <1>4, OrdersUntouched DEF vars, feedVars, engineVars, venueVars
  <2>3. QED
    BY <2>1, <2>2 DEF LoopInv
<1>5. QED
  BY <1>1, <1>2, <1>3, <1>4 DEF Next

----------------------------------------------------------------------------
(* One blind tick. *)

\* CheckFeed goes on by what it saw of the feed and the switch.
LEMMA CheckFeedTo ==
    ASSUME CheckFeed
    PROVE  /\ pc = "check" /\ pc' \in {"raiseFeed", "query", "stale"}
           /\ pc' = "query" => FillsSubscribed /\ reason \in FeedReasons
           /\ pc' = "stale" /\ ~FillsSubscribed => kill
           /\ UNCHANGED <<io, connected, subscribed, kill, reason, blind>>
<1>1. /\ pc = "check"
      /\ pc' = CASE ~FillsSubscribed /\ ~kill                          -> "raiseFeed"
                 [] FillsSubscribed /\ kill /\ reason \in FeedReasons  -> "query"
                 [] OTHER                                              -> "stale"
      /\ UNCHANGED <<io, connected, subscribed, kill, reason, blind>>
  BY Zenon DEF CheckFeed, CheckFeedIn, feedVars, killVars
<1>2. "raiseFeed" # "query" /\ "query" # "stale" /\ "raiseFeed" # "stale"
  OBVIOUS
<1>3. CASE ~FillsSubscribed /\ ~kill
  <2>1. pc' = "raiseFeed"
    BY <1>1, <1>3, Zenon
  <2>2. QED
    BY <1>1, <1>2, <2>1, Zenon
<1>4. CASE FillsSubscribed /\ kill /\ reason \in FeedReasons
  <2>1. pc' = "query"
    BY <1>1, <1>4, Zenon
  <2>2. QED
    BY <1>1, <1>2, <1>4, <2>1, Zenon
<1>5. CASE /\ ~(~FillsSubscribed /\ ~kill)
           /\ ~(FillsSubscribed /\ kill /\ reason \in FeedReasons)
  <2>1. pc' = "stale"
    BY <1>1, <1>5, Zenon
  <2>2. QED
    BY <1>1, <1>2, <1>5, <2>1, Zenon
<1>6. QED
  BY <1>3, <1>4, <1>5, Zenon

\* CheckQuotes goes on by the age of the quotes, the switch and its reason.
LEMMA CheckQuotesTo ==
    ASSUME CheckQuotes
    PROVE  /\ pc = "stale" /\ pc' \in {"raiseStale", "fills", "resetStale", "gate"}
           /\ pc' = "raiseStale" => ~kill
           /\ pc' = "resetStale" => reason = "stale"
           /\ UNCHANGED <<io, connected, subscribed, kill, reason, blind>>
<1>1. /\ pc = "stale"
      /\ pc' = CASE stale /\ ~kill                       -> "raiseStale"
                 [] stale /\ kill                        -> "fills"
                 [] ~stale /\ kill /\ reason = "stale"   -> "resetStale"
                 [] OTHER                                -> "gate"
      /\ UNCHANGED <<io, connected, subscribed, kill, reason, blind>>
  BY Zenon DEF CheckQuotes, feedVars, killVars
<1>2. /\ "raiseStale" # "fills" /\ "raiseStale" # "resetStale" /\ "raiseStale" # "gate"
      /\ "resetStale" # "fills" /\ "resetStale" # "gate"
  OBVIOUS
<1>3. CASE stale /\ ~kill
  <2>1. pc' = "raiseStale"
    BY <1>1, <1>3, Zenon
  <2>2. QED
    BY <1>1, <1>2, <1>3, <2>1, Zenon
<1>4. CASE stale /\ kill
  <2>1. pc' = "fills"
    BY <1>1, <1>4, Zenon
  <2>2. QED
    BY <1>1, <1>2, <2>1, Zenon
<1>5. CASE ~stale /\ kill /\ reason = "stale"
  <2>1. pc' = "resetStale"
    BY <1>1, <1>5, Zenon
  <2>2. QED
    BY <1>1, <1>2, <1>5, <2>1, Zenon
<1>6. CASE ~stale /\ ~(kill /\ reason = "stale")
  <2>1. pc' = "gate"
    BY <1>1, <1>6, Zenon
  <2>2. QED
    BY <1>1, <1>2, <2>1, Zenon
<1>7. QED
  BY <1>3, <1>4, <1>5, <1>6, Zenon

\* The steps that leave the switch and the feed alone.
Quiet ==
    \/ DrainFills \/ CancelActive \/ QueryPosition \/ SyncPosition
    \/ EngineHolds \/ EngineSends \/ EngineAcked \/ EngineCancels

LEMMA QuietTo ==
    ASSUME Quiet
    PROVE  /\ UNCHANGED <<io, connected, subscribed, kill, reason, blind>>
           /\ <<pc, pc'>> \in {<<"fills", "check">>, <<"cancelActive", "stale">>,
                               <<"query", "sync">>, <<"sync", "resetFeed">>,
                               <<"engine", "fills">>, <<"engine", "sent">>, <<"sent", "fills">>}
  BY DEF Quiet, DrainFills, CancelActive, QueryPosition, SyncPosition, EngineHolds, EngineSends,
         EngineAcked, EngineCancels, Goto, feedVars, killVars

\* The steps that raise, lift or name the switch.
Switch ==
    \/ RaiseFlag("raiseFeed", "nameFeed") \/ RaiseFlag("raiseStale", "nameStale")
    \/ NameReason("nameFeed", "cancelActive", "unsubscribed")
    \/ NameReason("nameStale", "fills", "stale")
    \/ ResetFlag("resetFeed", "clearFeed") \/ ResetFlag("resetStale", "clearStale")
    \/ ClearReason("clearFeed", "stale") \/ ClearReason("clearStale", "gate")

LEMMA SwitchTo ==
    ASSUME Switch
    PROVE  /\ UNCHANGED <<io, connected, subscribed, blind>>
           /\ \/ <<pc, pc'>> \in {<<"raiseFeed", "nameFeed">>, <<"raiseStale", "nameStale">>}
                 /\ kill' = TRUE /\ reason' = reason
              \/ <<pc, pc'>> = <<"nameFeed", "cancelActive">>
                 /\ kill' = kill /\ reason' = "unsubscribed"
              \/ <<pc, pc'>> = <<"nameStale", "fills">> /\ kill' = kill /\ reason' = "stale"
              \/ <<pc, pc'>> \in {<<"resetFeed", "clearFeed">>, <<"resetStale", "clearStale">>}
                 /\ kill' = FALSE /\ reason' = reason
              \/ <<pc, pc'>> \in {<<"clearFeed", "stale">>, <<"clearStale", "gate">>}
                 /\ kill' = kill /\ reason' = ""
  BY DEF Switch, RaiseFlag, NameReason, ResetFlag, ClearReason, Goto, feedVars

\* The steps of the IO thread and of the connection leave the loop where it is; they only
\* ever raise the switch.
Feed == IoStep \/ Drop \/ \E o \in Orders : ExecuteOrder(o)

LEMMA FeedTo ==
    ASSUME Feed
    PROVE  /\ pc' = pc
           /\ kill' = kill \/ kill' = TRUE
           /\ reason' = reason \/ reason' = "disconnected"
           /\ blind' = blind \/ blind' = 0
  BY DEF Feed, IoStep, Drop, ExecuteOrder, Unsubscribe, NotifyDisconnect, IoRaiseFlag,
         IoNameReason, IoCancelActive, Reconnect, Resubscribe, DeliverFill, killVars

LEMMA StepKinds ==
    ASSUME Next PROVE Quiet \/ Switch \/ CheckFeed \/ CheckQuotes \/ Gate \/ Feed
  BY DEF Next, MainStep, Quiet, Switch, Feed

LEMMA StaleStep == ASSUME LoopInv, BlindInv, Next PROVE StaleIsNamed'
<1>1. CASE Quiet
  BY <1>1, QuietTo DEF BlindInv, StaleIsNamed
<1>2. CASE Switch
  BY <1>2, SwitchTo DEF BlindInv, StaleIsNamed
<1>3. CASE CheckFeed
  BY <1>3, CheckFeedTo DEF BlindInv, StaleIsNamed, FeedReasons
<1>4. CASE CheckQuotes
  BY <1>4, CheckQuotesTo DEF BlindInv, StaleIsNamed
<1>5. CASE Gate
  <2>1. pc = "gate" /\ pc' \in {"fills", "engine"} /\ UNCHANGED <<kill, reason>>
    BY <1>5 DEF Gate, killVars
  <2>2. QED
    BY <2>1 DEF BlindInv, StaleIsNamed
<1>6. CASE Feed
  BY <1>6, FeedTo DEF BlindInv, StaleIsNamed
<1>7. QED
  BY <1>1, <1>2, <1>3, <1>4, <1>5, <1>6, StepKinds

\* The fill feed goes down in an order its flags always agree with.
LEMMA UnsubscribedStep == ASSUME LoopInv, BlindInv, Next PROVE Unsubscribed'
<1>1. CASE Quiet \/ Switch \/ CheckFeed \/ CheckQuotes
  <2>1. UNCHANGED <<io, connected, subscribed, blind>>
    BY <1>1, QuietTo, SwitchTo, CheckFeedTo, CheckQuotesTo
  <2>2. QED
    BY <2>1 DEF BlindInv, Unsubscribed, FillsSubscribed
<1>2. CASE Gate
  <2>1. UNCHANGED <<io, connected, subscribed>> /\ (blind' = blind \/ ~FillsSubscribed)
    BY <1>2 DEF Gate, feedVars
  <2>2. QED
    BY <2>1 DEF BlindInv, Unsubscribed, FillsSubscribed
<1>3. CASE Drop
  <2>1. io' = "unsubscribe" /\ ~connected'
    BY <1>3, Zenon DEF Drop, IoGoto
  <2>2. QED
    BY <2>1 DEF Unsubscribed, FillsSubscribed
<1>4. CASE Unsubscribe
  <2>1. io = "unsubscribe" /\ io' = "notify" /\ connected' = connected /\ ~subscribed'
    BY <1>4, Zenon DEF Unsubscribe, IoGoto
  <2>2. QED
    BY <2>1 DEF BlindInv, Unsubscribed, FillsSubscribed
<1>5. CASE NotifyDisconnect \/ IoRaiseFlag \/ IoNameReason \/ IoCancelActive
  <2>1. /\ io \in {"notify", "raise", "name", "cancel"}
        /\ io' \in {"idle", "raise", "name", "cancel"}
        /\ UNCHANGED <<connected, subscribed, blind>>
    BY <1>5 DEF NotifyDisconnect, IoRaiseFlag, IoNameReason, IoCancelActive, IoGoto, feedVars
  <2>2. QED
    BY <2>1 DEF BlindInv, Unsubscribed, FillsSubscribed
<1>6. CASE Reconnect
  <2>1. io = "idle" /\ io' = "idle" /\ ~connected /\ connected' /\ subscribed' = subscribed
    BY <1>6, Zenon DEF Reconnect
  <2>2. ~subscribed'
    BY <2>1 DEF BlindInv, Unsubscribed
  <2>3. QED
    BY <2>1, <2>2 DEF Unsubscribed, FillsSubscribed
<1>7. CASE Resubscribe
  <2>1. io' = "idle" /\ connected /\ connected' = connected /\ blind' = 0
    BY <1>7 DEF Resubscribe
  <2>2. QED
    BY <2>1 DEF Unsubscribed
<1>8. CASE DeliverFill \/ \E o \in Orders : ExecuteOrder(o)
  <2>1. UNCHANGED <<io, connected, subscribed, blind>>
    BY <1>8 DEF DeliverFill, ExecuteOrder
  <2>2. QED
    BY <2>1 DEF BlindInv, Unsubscribed, FillsSubscribed
<1>9. QED
  BY <1>1, <1>2, <1>3, <1>4, <1>5, <1>6, <1>7, <1>8, StepKinds DEF Feed, IoStep

\* After a blind tick the switch is on before the gate is reached again.
LEMMA RaisedStep == ASSUME LoopInv, BlindInv, Next PROVE RaisedAfterBlind' /\ OneBlindTick'
<1>0. blind \in 0..2 /\ (blind > 0 => ~FillsSubscribed)
  BY DEF LoopInv, BasicTypes, BlindInv, Unsubscribed
<1>1. CASE Quiet
  BY <1>1, QuietTo DEF BlindInv, RaisedAfterBlind, OneBlindTick
<1>2. CASE Switch
  BY <1>2, SwitchTo DEF BlindInv, RaisedAfterBlind, OneBlindTick
<1>3. CASE CheckFeed
  BY <1>0, <1>3, CheckFeedTo DEF BlindInv, RaisedAfterBlind, OneBlindTick
<1>4. CASE CheckQuotes
  BY <1>4, CheckQuotesTo DEF BlindInv, RaisedAfterBlind, OneBlindTick
<1>5. CASE Gate
  <2>1. /\ pc = "gate" /\ pc' \in {"fills", "engine"} /\ UNCHANGED <<kill, reason>>
        /\ kill => blind' = blind
        /\ blind' = blind \/ blind' = blind + 1
    BY <1>5 DEF Gate, killVars
  <2>2. CASE kill
    BY <2>1, <2>2 DEF BlindInv, RaisedAfterBlind, OneBlindTick
  <2>3. CASE ~kill
    <3>1. blind = 0 /\ reason # "stale"
      BY <1>0, <2>1, <2>3 DEF BlindInv, RaisedAfterBlind, StaleIsNamed
    <3>2. QED
      BY <2>1, <3>1 DEF RaisedAfterBlind, OneBlindTick
  <2>4. QED
    BY <2>2, <2>3
<1>6. CASE Feed
  <2>1. CASE blind' = 0
    BY <2>1 DEF RaisedAfterBlind, OneBlindTick
  <2>2. CASE blind' = blind
    <3>1. pc' = pc /\ (reason' = "stale" => reason = "stale")
      BY <1>6, FeedTo
    <3>2. kill => kill'
      BY <1>6, FeedTo, Zenon
    <3>3. QED
      BY <2>2, <3>1, <3>2 DEF BlindInv, RaisedAfterBlind, OneBlindTick
  <2>3. QED
    BY <1>6, <2>1, <2>2, FeedTo
<1>7. QED
  BY <1>1, <1>2, <1>3, <1>4, <1>5, <1>6, StepKinds

LEMMA BlindStep == ASSUME LoopInv, BlindInv, [Next]_vars PROVE BlindInv'
<1>1. CASE Next
  BY <1>1, StaleStep, UnsubscribedStep, RaisedStep DEF BlindInv
<1>2. CASE UNCHANGED vars
  <2>1. UNCHANGED <<pc, io, connected, subscribed, kill, reason, blind>>
    BY <1>2 DEF vars, feedVars, killVars
  <2>2. QED
    BY <2>1 DEF BlindInv, StaleIsNamed, Unsubscribed, RaisedAfterBlind, OneBlindTick,
                FillsSubscribed
<1>3. QED
  BY <1>1, <1>2

----------------------------------------------------------------------------
\* The bounds of the loop's state: the position the engine counts stays within twice the
\* orders it placed, since a fill is counted once on top of a position that was queried.
THEOREM LoopTypeCorrect == Spec => []TypeOK
<1>1. LoopInv => TypeOK
  <2> SUFFICES ASSUME LoopInv PROVE TypeOK
    OBVIOUS
  <2>1. placed \in 0..MaxOrders /\ 1..placed \subseteq Orders /\ active \in Orders \cup {NoOrder}
    BY LoopAssumption DEF LoopInv, BasicTypes, Orders, NoOrder
  <2>2. queue \subseteq Orders /\ inflight \subseteq Orders
    BY <2>1 DEF LoopInv, OnePlace
  <2>3. resting \subseteq Orders /\ filled \subseteq Orders
    BY <2>1 DEF LoopInv, OnePlace
  <2>4. enginePos \in 0..(2 * MaxOrders) /\ queried \in 0..MaxOrders
    BY <2>1, LoopAssumption DEF LoopInv, Counted
  <2>5. QED
    BY <2>1, <2>2, <2>3, <2>4, Zenon DEF LoopInv, BasicTypes, TypeOK
<1>2. QED
  BY LoopInit, LoopStep, <1>1, PTL DEF Spec

\* However the main thread and the IO thread interleave, the engine runs at most one tick
\* between the loss of the fill feed's subscription and its return: the check of the feed and
\* the disconnect callback between them leave no way to a second tick, and neither the
\* stale-quote check nor the lifting of an earlier switch lifts the one they raised.
THEOREM AtMostOneBlindTick == Spec => []OneBlindTick
<1>1. LoopInv /\ BlindInv /\ [Next]_vars => LoopInv' /\ BlindInv'
  BY LoopStep, BlindStep
<1>2. BlindInv => OneBlindTick
  BY DEF BlindInv
<1>3. QED
  BY LoopInit, <1>1, <1>2, PTL DEF Spec
=============================================================================
