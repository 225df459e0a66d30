---------------------------- MODULE LighterTrading ----------------------------
(***************************************************************************)
(* Orders on their way to Lighter: NativeLighterTrading (src/src/          *)
(* native_trading.cpp 544-1084) numbers and signs a transaction, sends it  *)
(* through LighterWsSendTxTransport (src/src/lighter_ws_sendtx.cpp) and    *)
(* looks for its effect: a hedge in the position (LighterPositionFeed, or  *)
(* a REST query), an order or a cancel in the order news                   *)
(* (LighterAccountFeed; both in src/src/market_feed.cpp).                  *)
(*                                                                         *)
(* Calls come from the main thread, one at a time.  A step is what runs    *)
(* between two answers.  The sockets are down to what matters here: a      *)
(* connection keeps order, loses what is on its way when it breaks, and    *)
(* what was sent while it was down goes out at the next handshake.         *)
(***************************************************************************)
EXTENDS Integers, Sequences, SequencesExt, FiniteSets

CONSTANTS
    MaxTx,        \* bound: the number of calls
    Sizes,        \* the sizes of hedges asked for
    MinBase,      \* min_base_amount_
    MaxRestarts,  \* bound: how often the process is restarted
    MaxNoise,     \* bound: pings on the order connection and wrong readings of the position
    None

Txs == 1..MaxTx

OrderStates == {"open", "canceled", "filled"}

ASSUME TradingAssumption ==
    /\ MaxTx \in Nat
    /\ Sizes \subseteq Nat \ {0}
    /\ MinBase \in Nat
    /\ MaxRestarts \in Nat
    /\ MaxNoise \in Nat
    /\ None \notin Int /\ None \notin OrderStates

\* What send_tx may return instead of the answer of a transaction.
Ping == 0
TimedOut == -1
Disconnected == -2

Calls == [kind : {"ioc", "limit", "cancel"}, size : Sizes, sign : {1, -1}, target : Txs \cup {None}]
Answers == [tx : Txs \cup {Ping, Disconnected}, ok : BOOLEAN]
Acks == [ok : BOOLEAN, confirmed : BOOLEAN, size : Nat, clean : BOOLEAN]

VARIABLES
    policy,     \* "hedge": IOC orders and the position feed; "maker": orders, cancels and
                \* unwinds with the account feed
    nextTx,     \* the number of the next call, which is also its client order index
    calls,      \* the calls made, by number; None before
    pc,         \* "idle", "based", "sent" (in send_tx) or "confirming"
    cache,      \* nonce_cache_
    ready,      \* client_ready_
    nonce,      \* the nonce each call signed; None before
    base,       \* pos_before
    response,   \* what the waiting send_tx has received: None or an answer
    ack,        \* what each call returned; None before
    taken,      \* the transaction whose answer each call took, or Ping, TimedOut, Disconnected
    linked,     \* the order connection is up
    outbox,     \* sent while it was down
    wire,       \* sent, not yet handled by the venue
    inbox,      \* messages on their way back over this connection
    venueNext,  \* venue: the next nonce of the API key
    accepted,   \* venue: accepted, not executed yet
    executed,   \* venue: what each hedge executed; None before
    position,   \* venue: the position
    orders,     \* venue: the state of each limit order; None before
    feedUp,     \* the policy's account feed is connected and subscribed
    updates,    \* positions on their way over it
    latest,     \* latest_ of LighterPositionFeed
    news,       \* order states on their way over it
    seen,       \* orders_by_client_ and orders_by_index_: the last state seen
    clean,      \* history: nothing else could move or blur the position, see BeginHedge
    gaps,       \* history: nonces signed whose transaction the venue did not accept
    restarts, noise

callVars  == <<nextTx, calls, ack, taken>>
localVars == <<pc, cache, ready, nonce, base, response>>
lineVars  == <<linked, outbox, wire, inbox>>
venueVars == <<venueNext, accepted, executed, position, orders>>
feedVars  == <<feedUp, updates, latest, news, seen>>
histVars  == <<clean, gaps>>
vars == <<policy, callVars, localVars, lineVars, venueVars, feedVars, histVars,
          restarts, noise>>

Current == nextTx - 1
Call == calls[Current]

\* scaled_size: never less than the market's minimum.
Scaled(size) == IF size < MinBase THEN MinBase ELSE size

Magnitude(a) == IF a < 0 THEN -a ELSE a

DistanceOfSizes(a, b) ==
    IF Magnitude(a) < Magnitude(b) THEN Magnitude(b) - Magnitude(a)
    ELSE Magnitude(a) - Magnitude(b)

Distance(a, b) == IF a < b THEN b - a ELSE a - b

MakeNoise == noise < MaxNoise /\ noise' = noise + 1

----------------------------------------------------------------------------
(* The calls. *)

\* query_position_snapshot: the position, or none when the reply lacks the market.
Reads(value) == \/ value = position /\ UNCHANGED noise
                \/ value = 0 /\ position # 0 /\ MakeNoise

\* Transactions that can still change the position.
Outstanding == Range(outbox) \cup Range(wire) \cup accepted

OpenIds == {id \in Txs : orders[id] = "open"}

\* The feed shows or will show a position other than the present one.
FeedLags == (Range(updates) \cup {latest}) \ {None, position} # {}

EnsureClientEachTime ==
    /\ ready' = TRUE
    /\ cache' = venueNext

EnsureClientFromLast ==
    /\ ready' = TRUE
    /\ cache' = IF ready THEN cache ELSE venueNext - 1

\* ensure_client, which every call makes, sets the nonce cache the first time only.
EnsureClient ==
    /\ ready' = TRUE
    /\ cache' = IF ready THEN cache ELSE venueNext

\* main creates the token of the account feeds before anything else: create_auth_token.
CreateAuthToken ==
    /\ pc = "idle" /\ ~ready
    /\ EnsureClient
    /\ UNCHANGED <<policy, callVars, pc, nonce, base, response, lineVars, venueVars, feedVars,
                   histVars, restarts, noise>>

Begin(call) ==
    /\ pc = "idle" /\ ready /\ nextTx \in Txs
    /\ EnsureClient
    /\ calls' = [calls EXCEPT ![nextTx] = call]
    /\ nextTx' = nextTx + 1
    /\ pc' = "based"

\* place_ioc_order reads the position first.
BeginHedge ==
    \E size \in Sizes, sign \in {1, -1}, before \in {position, 0} :
        /\ Begin([kind |-> "ioc", size |-> size, sign |-> sign, target |-> None])
        /\ Reads(before)
        /\ base' = before
        /\ clean' = (before = position /\ ~FeedLags /\ Outstanding = {} /\ OpenIds = {})
        /\ UNCHANGED <<policy, ack, taken, nonce, response, lineVars, venueVars, feedVars, gaps, restarts>>

BeginOther(kind, sign, target) ==
    \E size \in Sizes :
        /\ policy = "maker"
        /\ Begin([kind |-> kind, size |-> size, sign |-> sign, target |-> target])
        /\ clean' = TRUE
        /\ UNCHANGED <<policy, ack, taken, nonce, base, response, lineVars, venueVars, feedVars, gaps, restarts, noise>>

BeginLimit == \E sign \in {1, -1} : BeginOther("limit", sign, None)

\* A cancel needs an order index, which only a confirmed order has.
BeginCancel ==
    \E id \in Txs :
        /\ ack[id] # None /\ calls[id].kind = "limit" /\ ack[id].ok
        /\ BeginOther("cancel", 1, id)

TakeNonceAgain ==
    LET n == IF cache # 0 THEN cache ELSE venueNext IN
    /\ nonce' = [nonce EXCEPT ![Current] = n]
    /\ cache' = IF cache # 0 THEN n + 1 ELSE n

\* next_nonce: from the cache unless that is 0.
TakeNonce ==
    LET n == IF cache # 0 THEN cache ELSE venueNext IN
    /\ nonce' = [nonce EXCEPT ![Current] = n]
    /\ cache' = n + 1

Return(result) ==
    /\ ack' = [ack EXCEPT ![Current] = result]
    /\ pc' = "idle"

Failed == [ok |-> FALSE, confirmed |-> FALSE, size |-> 0, clean |-> clean]

\* The signer refuses: the nonce is spent.
SignFails ==
    /\ pc = "based"
    /\ TakeNonce
    /\ Return(Failed)
    /\ gaps' = gaps \cup {Current}
    /\ UNCHANGED <<policy, nextTx, calls, taken, ready, base, response, lineVars, venueVars,
                   feedVars, clean, restarts, noise>>

SubmitKeepsResponse ==
    /\ pc = "based"
    /\ TakeNonce
    /\ pc' = "sent"
    /\ \/ linked /\ wire' = Append(wire, Current) /\ UNCHANGED outbox
       \/ ~linked /\ outbox' = Append(outbox, Current) /\ UNCHANGED wire
    /\ UNCHANGED <<policy, callVars, ready, base, response, linked, inbox, venueVars, feedVars,
                   clean, gaps, restarts, noise>>

\* send_tx hands the request to the client, which writes or queues it, and waits.
Submit ==
    /\ pc = "based"
    /\ TakeNonce
    /\ pc' = "sent"
    /\ response' = None
    /\ \/ linked /\ wire' = Append(wire, Current) /\ UNCHANGED outbox
       \/ ~linked /\ outbox' = Append(outbox, Current) /\ UNCHANGED wire
    /\ UNCHANGED <<policy, callVars, ready, base, linked, inbox, venueVars, feedVars, clean,
                   gaps, restarts, noise>>

Took(tx) == taken' = [taken EXCEPT ![Current] = tx]

\* send_tx times out: its answer may still come, to a later call.
SendTimesOut ==
    /\ pc = "sent" /\ response = None
    /\ Took(TimedOut)
    /\ Return(Failed)
    /\ UNCHANGED <<policy, nextTx, calls, cache, ready, nonce, base, response, lineVars,
                   venueVars, feedVars, histVars, restarts, noise>>

\* send_tx returns what it holds; only tx_response_ok lets the call go on.
SendReturns ==
    /\ pc = "sent" /\ response # None
    /\ Took(response.tx)
    /\ clean' = (clean /\ response.tx = Current)
    /\ \/ /\ ~response.ok
          /\ Return([Failed EXCEPT !.clean = clean'])
       \/ /\ response.ok
          /\ pc' = "confirming"
          /\ UNCHANGED ack
    /\ UNCHANGED <<policy, nextTx, calls, cache, ready, nonce, base, response, lineVars,
                   venueVars, feedVars, gaps, restarts, noise>>

Confirmed(size, wasClean) ==
    [ok |-> TRUE, confirmed |-> TRUE, size |-> size, clean |-> wasClean]

Unconfirmed == [Failed EXCEPT !.ok = TRUE]

\* wait_for_position_change: any position other than pos_before ends the wait, be it one
\* the feed held already.
HedgeConfirmedByFeed ==
    /\ pc = "confirming" /\ Call.kind = "ioc"
    /\ policy = "hedge"
    /\ latest # None /\ latest # base
    /\ Return(Confirmed(Distance(latest, base), clean))
    /\ UNCHANGED <<policy, nextTx, calls, taken, cache, ready, nonce, base, response, lineVars,
                   venueVars, feedVars, histVars, restarts, noise>>

\* No such position in time, or no position feed: the position is queried once more.
HedgeQueried ==
    /\ pc = "confirming" /\ Call.kind = "ioc"
    /\ policy = "hedge" => latest \in {None, base}
    /\ \E after \in {position, 0} :
           /\ Reads(after)
           /\ Return(IF after = base THEN Unconfirmed
                     ELSE Confirmed(Distance(after, base), clean /\ after = position))
    /\ UNCHANGED <<policy, nextTx, calls, taken, cache, ready, nonce, base, response, lineVars,
                   venueVars, feedVars, histVars, restarts>>

SeenUnlessCancelled ==
    \/ Call.kind = "limit" /\ seen[Current] # "canceled"
    \/ Call.kind = "cancel" /\ seen[Call.target] = "canceled"

SeenAtAll ==
    \/ Call.kind = "limit" /\ seen[Current] = "open"
    \/ Call.kind = "cancel" /\ seen[Call.target] # None

\* wait_for_order_resting and wait_for_cancel.
SeenAsWanted ==
    \/ Call.kind = "limit" /\ seen[Current] = "open"
    \/ Call.kind = "cancel" /\ seen[Call.target] = "canceled"

OrderConfirmed ==
    /\ pc = "confirming" /\ Call.kind # "ioc"
    /\ SeenAsWanted
    /\ Return(Unconfirmed)
    /\ UNCHANGED <<policy, nextTx, calls, taken, cache, ready, nonce, base, response, lineVars,
                   venueVars, feedVars, histVars, restarts, noise>>

OrderNotSeen ==
    /\ pc = "confirming" /\ Call.kind # "ioc"
    /\ ~SeenAsWanted
    /\ Return(Failed)
    /\ UNCHANGED <<policy, nextTx, calls, taken, cache, ready, nonce, base, response, lineVars,
                   venueVars, feedVars, histVars, restarts, noise>>

----------------------------------------------------------------------------
(* The order connection. *)

\* on_message: whatever comes while a request waits is its answer, the last one if
\* several come before it wakes.
OnMessage ==
    /\ inbox # <<>>
    /\ inbox' = Tail(inbox)
    /\ response' = IF pc = "sent" THEN Head(inbox) ELSE response
    /\ UNCHANGED <<policy, callVars, pc, cache, ready, nonce, base, linked, outbox, wire,
                   venueVars, feedVars, histVars, restarts, noise>>

\* The venue sends something that is not an answer.
VenuePings ==
    /\ linked /\ MakeNoise
    /\ inbox' = Append(inbox, [tx |-> Ping, ok |-> FALSE])
    /\ UNCHANGED <<policy, callVars, localVars, linked, outbox, wire, venueVars, feedVars,
                   histVars, restarts>>

\* A nonce is taken once; whether one ahead of the next is taken is the venue's affair.
MayAccept(tx) == nonce[tx] >= venueNext

\* The venue accepts or refuses the oldest request.
Judge(tx, ok) ==
    /\ ok => MayAccept(tx)
    /\ venueNext' = IF ok THEN nonce[tx] + 1 ELSE venueNext
    /\ accepted' = IF ok THEN accepted \cup {tx} ELSE accepted

VenueJudges ==
    /\ linked /\ wire # <<>>
    /\ wire' = Tail(wire)
    /\ \E ok \in BOOLEAN :
           /\ Judge(Head(wire), ok)
           /\ gaps' = IF ok THEN gaps ELSE gaps \cup {Head(wire)}
           /\ inbox' = Append(inbox, [tx |-> Head(wire), ok |-> ok])
    /\ UNCHANGED <<policy, callVars, localVars, linked, outbox, executed, position, orders,
                   feedVars, clean, restarts, noise>>

\* The connection breaks.  The oldest request may have got through; on_disconnect
\* answers the request that waits.
LinkBreaks ==
    /\ linked
    /\ linked' = FALSE
    /\ wire' = <<>>
    /\ inbox' = <<>>
    /\ \/ /\ wire # <<>>
          /\ Judge(Head(wire), TRUE)
          /\ gaps' = gaps \cup Range(Tail(wire))
       \/ /\ gaps' = gaps \cup Range(wire)
          /\ UNCHANGED <<venueNext, accepted>>
    /\ response' = IF pc = "sent" THEN [tx |-> Disconnected, ok |-> FALSE] ELSE response
    /\ UNCHANGED <<policy, callVars, pc, cache, ready, nonce, base, outbox, executed, position,
                   orders, feedVars, clean, restarts, noise>>

\* The next handshake flushes what was queued, whether its call still waits or not.
LinkRestored ==
    /\ ~linked
    /\ linked' = TRUE
    /\ wire' = outbox
    /\ outbox' = <<>>
    /\ UNCHANGED <<policy, callVars, localVars, inbox, venueVars, feedVars, histVars, restarts,
                   noise>>

----------------------------------------------------------------------------
(* The venue executes what it accepted, some time later. *)

Executes(tx) ==
    /\ tx \in accepted
    /\ accepted' = accepted \ {tx}

\* The venue tells the feed, if it is up.
Tell(queue, item) == IF feedUp THEN Append(queue, item) ELSE queue

HedgeExecutes(tx) ==
    /\ Executes(tx) /\ calls[tx].kind = "ioc"
    /\ \E size \in 0..Scaled(calls[tx].size) :
           /\ executed' = [executed EXCEPT ![tx] = size]
           /\ position' = position + calls[tx].sign * size
           /\ updates' = IF size > 0 /\ policy = "hedge" THEN Tell(updates, position') ELSE updates
    /\ UNCHANGED <<policy, callVars, localVars, lineVars, venueNext, orders, feedUp, latest,
                   news, seen, histVars, restarts, noise>>

OrderBecomes(id, state) ==
    /\ orders' = [orders EXCEPT ![id] = state]
    /\ news' = Tell(news, [id |-> id, state |-> state])

\* A post-only order rests, or is cancelled because it would cross.
OrderEnters(tx) ==
    /\ Executes(tx) /\ calls[tx].kind = "limit"
    /\ \E state \in {"open", "canceled"} : OrderBecomes(tx, state)
    /\ UNCHANGED <<policy, callVars, localVars, lineVars, venueNext, executed, position,
                   feedUp, updates, latest, seen, histVars, restarts, noise>>

CancelExecutes(tx) ==
    /\ Executes(tx) /\ calls[tx].kind = "cancel"
    /\ \/ /\ orders[calls[tx].target] = "open"
          /\ OrderBecomes(calls[tx].target, "canceled")
       \/ /\ orders[calls[tx].target] # "open"
          /\ UNCHANGED <<orders, news>>
    /\ UNCHANGED <<policy, callVars, localVars, lineVars, venueNext, executed, position,
                   feedUp, updates, latest, seen, histVars, restarts, noise>>

OrderFills(id) ==
    /\ orders[id] = "open"
    /\ OrderBecomes(id, "filled")
    /\ position' = position + calls[id].sign * Scaled(calls[id].size)
    /\ UNCHANGED <<policy, callVars, localVars, lineVars, venueNext, accepted, executed,
                   feedUp, updates, latest, seen, histVars, restarts, noise>>

----------------------------------------------------------------------------
(* The account feed. *)

\* LighterPositionFeed::on_message: a message that lacks the market reads as no position;
\* one whose channel is not the quoted name the parser looks for is dropped.
PositionArrives ==
    /\ updates # <<>>
    /\ updates' = Tail(updates)
    /\ \/ /\ latest' = Head(updates)
          /\ UNCHANGED <<clean, noise>>
       \/ /\ latest' = 0 /\ Head(updates) # 0
          /\ MakeNoise
          /\ clean' = FALSE
       \/ UNCHANGED <<latest, clean, noise>>
    /\ UNCHANGED <<policy, callVars, localVars, lineVars, venueVars, feedUp, news, seen, gaps,
                   restarts>>

\* LighterAccountFeed::on_message.
NewsArrives ==
    /\ news # <<>>
    /\ news' = Tail(news)
    /\ seen' = [seen EXCEPT ![Head(news).id] = Head(news).state]
    /\ UNCHANGED <<policy, callVars, localVars, lineVars, venueVars, feedUp, updates, latest,
                   histVars, restarts, noise>>

\* What was on its way is lost; what was seen is kept.
FeedBreaks ==
    /\ feedUp
    /\ feedUp' = FALSE
    /\ updates' = <<>>
    /\ news' = <<>>
    /\ UNCHANGED <<policy, callVars, localVars, lineVars, venueVars, latest, seen, histVars,
                   restarts, noise>>

OpenOrders == SetToSeq({[id |-> id, state |-> "open"] : id \in OpenIds})

\* The answer to the subscription shows the position, or the orders that are open.
FeedRestored ==
    /\ ~feedUp
    /\ feedUp' = TRUE
    /\ updates' = IF policy = "hedge" THEN <<position>> ELSE <<>>
    /\ news' = IF policy = "maker" THEN OpenOrders ELSE <<>>
    /\ UNCHANGED <<policy, callVars, localVars, lineVars, venueVars, latest, seen, histVars,
                   restarts, noise>>

----------------------------------------------------------------------------
\* An exception ends the process (an HTTP failure in any of the calls, which main does not
\* catch), or it is stopped; it starts again with nothing remembered.
Restart ==
    /\ restarts < MaxRestarts
    /\ restarts' = restarts + 1
    /\ pc' = "idle"
    /\ ready' = FALSE
    /\ cache' = 0
    /\ response' = None
    /\ linked' = FALSE
    /\ outbox' = <<>> /\ wire' = <<>> /\ inbox' = <<>>
    /\ \/ /\ wire # <<>>
          /\ Judge(Head(wire), TRUE)
       \/ UNCHANGED <<venueNext, accepted>>
    /\ gaps' = {}
    /\ feedUp' = FALSE
    /\ updates' = <<>> /\ news' = <<>>
    /\ latest' = None
    /\ seen' = [id \in Txs |-> None]
    /\ UNCHANGED <<policy, callVars, nonce, base, executed, position, orders, clean,
                   noise>>

Init ==
    /\ policy \in {"hedge", "maker"}
    /\ nextTx = 1
    /\ calls = [id \in Txs |-> None]
    /\ pc = "idle"
    /\ cache = 0
    /\ ready = FALSE
    /\ nonce = [id \in Txs |-> None]
    /\ base = 0
    /\ response = None
    /\ ack = [id \in Txs |-> None]
    /\ taken = [id \in Txs |-> None]
    /\ linked = FALSE
    /\ outbox = <<>> /\ wire = <<>> /\ inbox = <<>>
    /\ venueNext = 0
    /\ accepted = {}
    /\ executed = [id \in Txs |-> None]
    /\ position = 0
    /\ orders = [id \in Txs |-> None]
    /\ feedUp = FALSE
    /\ updates = <<>> /\ news = <<>>
    /\ latest = None
    /\ seen = [id \in Txs |-> None]
    /\ clean = TRUE
    /\ gaps = {}
    /\ restarts = 0
    /\ noise = 0

Caller ==
    \/ SignFails
    \/ Submit
    \/ SendTimesOut
    \/ SendReturns
    \/ HedgeConfirmedByFeed
    \/ HedgeQueried
    \/ OrderConfirmed
    \/ OrderNotSeen

Venue ==
    \/ VenuePings
    \/ VenueJudges
    \/ \E tx \in accepted : HedgeExecutes(tx) \/ OrderEnters(tx) \/ CancelExecutes(tx)
    \/ \E id \in Txs : OrderFills(id)

Next ==
    \/ CreateAuthToken
    \/ BeginHedge
    \/ BeginLimit
    \/ BeginCancel
    \/ Caller
    \/ Venue
    \/ OnMessage
    \/ LinkBreaks
    \/ LinkRestored
    \/ PositionArrives
    \/ NewsArrives
    \/ FeedBreaks
    \/ FeedRestored
    \/ Restart

Spec == Init /\ [][Next]_vars

----------------------------------------------------------------------------
(* Properties. *)

\* Every variable keeps its type: the members of NativeLighterTrading, of the transport
\* and the feeds, and the venue.
TypeOK ==
    /\ policy \in {"hedge", "maker"}
    /\ nextTx \in 1..(MaxTx + 1)
    /\ calls \in [Txs -> Calls \cup {None}]
    /\ pc \in {"idle", "based", "sent", "confirming"}
    /\ cache \in Nat
    /\ ready \in BOOLEAN
    /\ nonce \in [Txs -> Nat \cup {None}]
    /\ base \in Int
    /\ response \in Answers \cup {None}
    /\ ack \in [Txs -> Acks \cup {None}]
    /\ taken \in [Txs -> Txs \cup {Ping, TimedOut, Disconnected, None}]
    /\ linked \in BOOLEAN /\ feedUp \in BOOLEAN
    /\ outbox \in Seq(Txs) /\ wire \in Seq(Txs)
    /\ inbox \in Seq(Answers)
    /\ venueNext \in Nat
    /\ accepted \in SUBSET Txs
    /\ executed \in [Txs -> Nat \cup {None}]
    /\ position \in Int
    /\ orders \in [Txs -> OrderStates \cup {None}]
    /\ updates \in Seq(Int)
    /\ latest \in Int \cup {None}
    /\ news \in Seq([id : Txs, state : OrderStates])
    /\ seen \in [Txs -> OrderStates \cup {None}]
    /\ clean \in BOOLEAN
    /\ gaps \in SUBSET Txs
    /\ restarts \in 0..MaxRestarts
    /\ noise \in 0..MaxNoise

\* While no signature failed and the venue took every transaction of this process, the
\* cached nonce is the venue's next one after those on their way; it is never set right
\* once that ends, short of a restart (next_nonce, ensure_client).
NonceInStep ==
    ready /\ gaps = {} => cache = venueNext + Len(wire) + Len(outbox)

\* No transaction on its way has a nonce the venue has used already, whatever was queued,
\* lost, refused or restarted: none is refused for an old nonce (next_nonce).
NonceNeverBehind ==
    \A tx \in Range(wire) \cup Range(outbox) : nonce[tx] >= venueNext

\* No answer is taken by two calls; and a call takes the answer of another one only when
\* that is an earlier call which ended without it, by a time-out, on a message that is no
\* answer or on the answer of a call before it: nothing else, no reconnection in particular,
\* puts answers and calls out of step (send_tx, on_message, on_disconnect).
AnswersInStep ==
    \A id \in Txs :
        taken[id] \in Txs \ {id} =>
            /\ taken[taken[id]] \in {Ping, TimedOut} \cup 1..(taken[id] - 1)
            /\ taken[id] < id
            /\ \A other \in Txs \ {id} : taken[other] # taken[id]

\* A confirmed hedge executed with the confirmed size, if its own answer was taken, no
\* earlier transaction could still execute, no own order rested, the queries showed the
\* position and the feed held no other one when the call began: anything else that moves
\* the position is taken for the hedge (place_ioc_order, wait_for_position_change).
ConfirmedIsExecuted ==
    \A id \in Txs :
        ack[id] # None /\ ack[id].confirmed /\ ack[id].clean => executed[id] = ack[id].size

\* An order reported as resting did enter the book, even when the answer taken for its
\* placement was another's (wait_for_order_resting).
RestingWasPlaced ==
    \A id \in Txs :
        ack[id] # None /\ calls[id].kind = "limit" /\ ack[id].ok => orders[id] # None

\* An order whose cancel is confirmed is gone from the book (wait_for_cancel).
CancelledIsGone ==
    \A id \in Txs :
        ack[id] # None /\ calls[id].kind = "cancel" /\ ack[id].ok
            => orders[calls[id].target] # "open"
=============================================================================
