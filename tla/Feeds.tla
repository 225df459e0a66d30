--------------------------------- MODULE Feeds ---------------------------------
(***************************************************************************)
(* The five subscriptions of src/src/market_feed.cpp, each over a WsClient *)
(* of its own: MarketFeed's two sockets (446-614), HlFillFeed (616-698),   *)
(* LighterPositionFeed (700-799) and LighterAccountFeed (801-942).         *)
(*                                                                         *)
(* They differ in when they subscribe, in what they take for the answer,   *)
(* and in what they do with a message that comes before it.  A behaviour   *)
(* is that of one of them.  All their sends are made by the io thread, or  *)
(* before it starts, so what is posted runs before the next message, the   *)
(* next connection or the next failed read.                                *)
(***************************************************************************)
EXTENDS WsClient, FiniteSets

CONSTANTS
    MaxInbox,   \* bound: messages on their way when the server sends one unasked
    MaxWrites   \* bound: writes in progress when it sends a ping

AllChannels == {"bbo", "trades", "userFills", "ticker", "positions", "orders"}

ASSUME FeedsAssumption ==
    /\ AllChannels \cup {"pong"} \subseteq Msgs
    /\ MaxInbox \in Nat
    /\ MaxWrites \in Nat

FeedKinds == {"hlMarket", "hlFills", "ltMarket", "ltPosition", "ltAccount"}

VARIABLES
    feed,      \* which feed this is
    flags,     \* the channels whose ..._subscribed_ is set
    active,    \* server: the channels it sends over this connection
    inbox,     \* server: what is on its way, in order
    expired,   \* server: it refuses the auth token
    failed,    \* history: a write of this connection failed or vanished
    dropped    \* history: the channels of which a message was thrown away

serverVars == <<active, inbox, expired>>
vars == <<wsVars, feed, flags, serverVars, failed, dropped>>

\* subscribe(), in the order it sends.
Subscriptions ==
    CASE feed = "hlMarket"   -> <<"bbo", "trades">>
      [] feed = "hlFills"    -> <<"userFills">>
      [] feed = "ltMarket"   -> <<"ticker">>
      [] feed = "ltPosition" -> <<"positions">>
      [] feed = "ltAccount"  -> <<"orders", "trades">>

Channels == Range(Subscriptions)

\* start() and the disconnect callback subscribe, except Lighter's market data, which waits
\* for the greeting.
SubscribeAhead == IF feed = "ltMarket" THEN <<>> ELSE Subscriptions

OnLighter == feed \in {"ltMarket", "ltPosition", "ltAccount"}

\* Subscriptions that carry auth_token.
Authorised == feed \in {"ltPosition", "ltAccount"}

Message(kind, channel) == [kind |-> kind, channel |-> channel]

Messages ==
    [kind : {"ack", "data"}, channel : AllChannels] \cup
    [kind : {"connected", "ping"}, channel : {""}]

----------------------------------------------------------------------------
(* The io thread. *)

SendPosted ==
    /\ RunSend
    /\ UNCHANGED <<feed, flags, serverVars, failed, dropped>>

Connecting ==
    /\ posted = <<>>
    /\ ConnectFails \/ RetryDue
    /\ UNCHANGED <<feed, flags, serverVars, failed, dropped>>

\* Lighter greets every connection.
Opens ==
    /\ posted = <<>>
    /\ Handshake
    /\ inbox' = IF OnLighter THEN <<Message("connected", "")>> ELSE <<>>
    /\ failed' = FALSE
    /\ UNCHANGED <<feed, flags, active, expired, dropped>>

\* A subscription is answered unless the token has expired; a pong is not.
RequestArrives(i) ==
    LET channel == writing[i].msg IN
    /\ WriteDone(i)
    /\ \/ /\ channel \in Channels /\ ~(Authorised /\ expired)
          /\ active' = active \cup {channel}
          /\ inbox' = Append(inbox, Message("ack", channel))
       \/ /\ channel \notin Channels \/ (Authorised /\ expired)
          /\ UNCHANGED <<active, inbox>>
    /\ UNCHANGED <<feed, flags, expired, failed, dropped>>

RequestFails(i) ==
    /\ WriteFails(i)
    /\ failed' = TRUE
    /\ UNCHANGED <<feed, flags, serverVars, dropped>>

GreetedByAccountOnly ==
    /\ IF feed = "ltAccount" THEN Send(Subscriptions) ELSE UNCHANGED wsVars
    /\ UNCHANGED <<flags, dropped>>

\* "connected": the account feed always subscribes, the two others unless they are
\* subscribed.
Greeted ==
    /\ IF feed = "ltAccount" \/ flags = {} THEN Send(Subscriptions) ELSE UNCHANGED wsVars
    /\ UNCHANGED <<flags, dropped>>

Pinged ==
    /\ Send(<<"pong">>)
    /\ UNCHANGED <<flags, dropped>>

AcknowledgedOnce(channel) ==
    /\ flags' = IF flags = {} THEN {channel} ELSE flags
    /\ UNCHANGED <<wsVars, dropped>>

AcknowledgedWithTrades(channel) ==
    /\ flags' = flags \cup {channel, "trades"}
    /\ UNCHANGED <<wsVars, dropped>>

\* The answer to a subscription sets its flag.
Acknowledged(channel) ==
    /\ flags' = flags \cup {channel}
    /\ UNCHANGED <<wsVars, dropped>>

\* Fills and Hyperliquid's trades count only once their flag is set.
NeedsFlag(channel) ==
    feed = "hlFills" \/ (feed = "hlMarket" /\ channel = "trades")

\* A ticker sets its flag too.
Received(channel) ==
    /\ flags' = IF feed = "ltMarket" THEN flags \cup {channel} ELSE flags
    /\ dropped' = IF NeedsFlag(channel) /\ channel \notin flags
                  THEN dropped \cup {channel} ELSE dropped
    /\ UNCHANGED wsVars

OnMessage ==
    LET m == Head(inbox) IN
    /\ Connected /\ posted = <<>> /\ inbox # <<>>
    /\ inbox' = Tail(inbox)
    /\ \/ m.kind = "connected" /\ Greeted
       \/ m.kind = "ping" /\ Pinged
       \/ m.kind = "ack" /\ Acknowledged(m.channel)
       \/ m.kind = "data" /\ Received(m.channel)
    /\ UNCHANGED <<feed, active, expired, failed>>

\* A read fails: what is on its way is lost, and the server forgets the subscriptions.
Breaks ==
    /\ posted = <<>>
    /\ ReadFails
    /\ active' = {}
    /\ inbox' = <<>>
    /\ UNCHANGED <<feed, flags, expired, failed, dropped>>

DisconnectKeepsFlags ==
    /\ phase = "lost"
    /\ phase' = AfterReconnect
    /\ posted' = posted \o SubscribeAhead
    /\ UNCHANGED <<closing, pendingSends, flush, writing, flags>>

DisconnectForgetsChannels ==
    /\ phase = "lost"
    /\ phase' = AfterReconnect
    /\ flags' = {}
    /\ UNCHANGED <<closing, posted, pendingSends, flush, writing>>

\* The disconnect callback, and what the client does after it.
Disconnected ==
    /\ phase = "lost"
    /\ phase' = AfterReconnect
    /\ posted' = posted \o SubscribeAhead
    /\ flags' = {}
    /\ UNCHANGED <<closing, pendingSends, flush, writing>>

OnDisconnect ==
    /\ Disconnected
    /\ UNCHANGED <<feed, serverVars, failed, dropped>>

\* stop().
Stops ==
    /\ Close \/ DoClose
    /\ UNCHANGED <<feed, flags, serverVars, failed, dropped>>

----------------------------------------------------------------------------
(* The server. *)

Publish(channel) ==
    /\ Connected /\ channel \in active /\ Len(inbox) < MaxInbox
    /\ inbox' = Append(inbox, Message("data", channel))
    /\ UNCHANGED <<wsVars, feed, flags, active, expired, failed, dropped>>

Ping ==
    /\ Connected /\ OnLighter /\ Len(inbox) < MaxInbox /\ Len(writing) < MaxWrites
    /\ inbox' = Append(inbox, Message("ping", ""))
    /\ UNCHANGED <<wsVars, feed, flags, active, expired, failed, dropped>>

\* main makes the token once, for 24 hours.
TokenExpires ==
    /\ Authorised /\ ~expired
    /\ expired' = TRUE
    /\ UNCHANGED <<wsVars, feed, flags, active, inbox, failed, dropped>>

----------------------------------------------------------------------------
Init ==
    /\ feed \in FeedKinds
    /\ WsInit(SubscribeAhead)
    /\ flags = {}
    /\ active = {}
    /\ inbox = <<>>
    /\ expired = FALSE
    /\ failed = FALSE
    /\ dropped = {}

OldestArrives == writing # <<>> /\ RequestArrives(1)

Next ==
    \/ SendPosted
    \/ Connecting
    \/ Opens
    \/ \E i \in DOMAIN writing : RequestArrives(i) \/ RequestFails(i)
    \/ OnMessage
    \/ Breaks
    \/ OnDisconnect
    \/ Stops
    \/ \E channel \in active : Publish(channel)
    \/ Ping
    \/ TokenExpires

Spec == Init /\ [][Next]_vars

\* The io thread runs, and on a connection that stays up the oldest write ends.
FairSpec == Spec /\ WF_vars(SendPosted) /\ WF_vars(OldestArrives) /\ WF_vars(OnMessage)

----------------------------------------------------------------------------
(* Properties. *)

\* Every variable keeps its type: the members of WsClient and of the feed, and the server.
TypeOK ==
    /\ WsTypeOK
    /\ feed \in FeedKinds
    /\ flags \subseteq Channels
    /\ active \subseteq Channels
    /\ inbox \in Seq(Messages)
    /\ expired \in BOOLEAN
    /\ failed \in BOOLEAN
    /\ dropped \subseteq Channels

\* A feed that calls itself subscribed on a connection is subscribed on that connection:
\* no answer and no flag of an earlier one survives (is_subscribed, the disconnect
\* callbacks).  The kill switch of the main loop relies on it.
FlagIsReal == Connected => flags \subseteq active

\* No fill and no trade the server sends is thrown away because the flag of its channel is
\* not set yet, over every connection (HlFillFeed::on_message, on_hl_message).
NothingDropped == dropped = {}

\* Between two connections each subscription is queued exactly once, in the order of
\* subscribe(), and nothing of the last one is: however it ended, whatever it was still
\* sending and however many attempts failed since (the disconnect callbacks, send,
\* flush_pending).
QueuedOnce ==
    phase \in {"connecting", "timer"} => pendingSends \o posted = SubscribeAhead

\* Hyperliquid's feeds never have two writes in progress, which Beast forbids: all they
\* send is queued before the handshake and flushed one by one (flush_pending).  Lighter's
\* feeds answer greetings and pings at once and give no such promise.
HlWritesAlone == ~OnLighter => Len(writing) <= 1

\* On a connection that stays up every channel gets its flag for good, unless a write
\* failed, or beside another vanished, or the token is too old to be accepted.
EventuallySubscribed ==
    <>[]Connected => <>[](flags = Channels \/ failed \/ expired)
=============================================================================
