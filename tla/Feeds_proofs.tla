----------------------------- MODULE Feeds_proofs -----------------------------
(***************************************************************************)
(* The safety properties of the feeds, for inboxes of any length and any   *)
(* number of writes at once.                                               *)
(***************************************************************************)
EXTENDS Feeds, WsClient_proofs

\* The feed's part of the type, without the client's.
FeedTypeOK ==
    /\ feed \in FeedKinds
    /\ flags \subseteq Channels
    /\ active \subseteq Channels
    /\ inbox \in Seq(Messages)
    /\ expired \in BOOLEAN
    /\ failed \in BOOLEAN
    /\ dropped \subseteq Channels

\* Nothing of a connection outlives it, and a new one starts without flags.
FreshConnection ==
    /\ phase \in {"connecting", "timer", "lost"} => inbox = <<>> /\ active = {}
    /\ phase \in {"connecting", "timer"} => flags = {}

\* What is on its way belongs to a subscription, and so does every flag of a connection.
OnlyActive ==
    /\ \A i \in DOMAIN inbox :
           inbox[i].kind \in {"ack", "data"} => inbox[i].channel \in active
    /\ FlagIsReal

\* An answer for a channel among the first n - 1 messages of a queue.
AckBefore(queue, channel, n) ==
    \E j \in DOMAIN queue : j < n /\ queue[j].kind = "ack" /\ queue[j].channel = channel

\* The answer to a subscription comes before its first message.
AckFirst ==
    /\ \A channel \in active :
           NeedsFlag(channel) => channel \in flags \/ AckBefore(inbox, channel, Len(inbox) + 1)
    /\ \A i \in DOMAIN inbox :
           inbox[i].kind = "data" /\ NeedsFlag(inbox[i].channel) =>
               inbox[i].channel \in flags \/ AckBefore(inbox, inbox[i].channel, i)

\* A Hyperliquid feed sends nothing while it is connected.
HlSilent ==
    ~OnLighter =>
        /\ Connected => posted = <<>>
        /\ Len(writing) <= 1
        /\ \A i \in DOMAIN inbox : inbox[i].kind \in {"ack", "data"}

FeedInv ==
    /\ WsInv
    /\ FeedTypeOK
    /\ FreshConnection
    /\ OnlyActive
    /\ AckFirst
    /\ HlSilent
    /\ NothingDropped

\* What a feed subscribes to are channels, and the client can send them.
LEMMA SubscriptionsAre ==
    ASSUME feed \in FeedKinds
    PROVE  /\ Subscriptions \in Seq(Msgs) /\ SubscribeAhead \in Seq(Msgs)
           /\ Channels \subseteq AllChannels
           /\ <<"pong">> \in Seq(Msgs)
<1>1. Subscriptions \in Seq(AllChannels)
  <2>1. CASE feed = "hlMarket"
    BY <2>1 DEF Subscriptions, AllChannels
  <2>2. CASE feed = "hlFills"
    BY <2>2 DEF Subscriptions, AllChannels
  <2>3. CASE feed = "ltMarket"
    BY <2>3 DEF Subscriptions, AllChannels
  <2>4. CASE feed = "ltPosition"
    BY <2>4 DEF Subscriptions, AllChannels
  <2>5. CASE feed = "ltAccount"
    BY <2>5 DEF Subscriptions, AllChannels
  <2>6. QED
    BY <2>1, <2>2, <2>3, <2>4, <2>5 DEF FeedKinds
<1>2. AllChannels \subseteq Msgs /\ "pong" \in Msgs
  BY FeedsAssumption
<1> HIDE DEF AllChannels
<1>3. Subscriptions \in Seq(Msgs)
  BY <1>1, <1>2
<1>4. SubscribeAhead \in Seq(Msgs)
  BY <1>3 DEF SubscribeAhead
<1>5. Channels \subseteq AllChannels
  BY <1>1 DEF Channels, Range
<1>6. <<"pong">> \in Seq(Msgs)
  BY <1>2
<1>7. QED
  BY <1>3, <1>4, <1>5, <1>6

\* The messages of the server.
LEMMA MessageIs ==
    /\ \A c \in AllChannels : Message("ack", c) \in Messages /\ Message("data", c) \in Messages
    /\ Message("connected", "") \in Messages /\ Message("ping", "") \in Messages
    /\ \A m \in Messages : m.kind \in {"ack", "data", "connected", "ping"}
    /\ \A k, c : Message(k, c).kind = k /\ Message(k, c).channel = c
  BY DEF Messages, Message

\* A feed starts without flags and without a connection.
LEMMA FeedInit == ASSUME Init PROVE FeedInv
<1>1. feed \in FeedKinds
  BY DEF Init
<1>2. WsInv
  BY <1>1, SubscriptionsAre, WsInitKeeps DEF Init
<1>3. expired \in BOOLEAN /\ failed \in BOOLEAN
  BY Zenon DEF Init
<1>4. inbox \in Seq(Messages) /\ Len(inbox) = 0 /\ DOMAIN inbox = {}
  BY DEF Init
<1>5. FeedTypeOK
  BY <1>1, <1>3, <1>4 DEF Init, FeedTypeOK
<1>6. FreshConnection /\ OnlyActive /\ AckFirst /\ NothingDropped
  BY <1>4 DEF Init, FreshConnection, OnlyActive, FlagIsReal, AckFirst, NothingDropped
<1>7. Len(writing) <= 1 /\ phase # "open"
  BY DEF Init, WsInit
<1>8. HlSilent
  BY <1>4, <1>7 DEF HlSilent, Connected
<1>9. QED
  BY <1>2, <1>5, <1>6, <1>8 DEF FeedInv

\* Steps that leave the server, the flags and what the feed dropped alone keep the feed's
\* part, if they neither lose nor make a connection.
LEMMA FeedUntouched ==
    ASSUME FeedInv, UNCHANGED <<feed, flags, active, inbox, dropped>>,
           expired' \in BOOLEAN, failed' \in BOOLEAN,
           phase' = phase \/ phase' = "closed" \/ {phase, phase'} \subseteq {"connecting", "timer"}
    PROVE  /\ FeedTypeOK' /\ FreshConnection' /\ OnlyActive' /\ AckFirst' /\ NothingDropped'
<1>1. FeedTypeOK'
  BY DEF FeedInv, FeedTypeOK, Channels, Subscriptions
<1>2. FreshConnection'
  BY DEF FeedInv, FreshConnection
<1>3. OnlyActive'
  BY DEF FeedInv, OnlyActive, FlagIsReal, Connected
<1>4. AckFirst'
  BY DEF FeedInv, AckFirst, AckBefore, NeedsFlag
<1>5. QED
  BY <1>1, <1>2, <1>3, <1>4 DEF FeedInv, NothingDropped

\* Adding a message to the inbox keeps what comes first where it was.
LEMMA InboxGrows ==
    ASSUME inbox \in Seq(Messages), NEW m \in Messages, inbox' = Append(inbox, m)
    PROVE  /\ inbox' \in Seq(Messages) /\ Len(inbox') = Len(inbox) + 1 /\ Len(inbox) \in Nat
           /\ DOMAIN inbox' = DOMAIN inbox \cup {Len(inbox) + 1}
           /\ inbox'[Len(inbox) + 1] = m
           /\ \A i \in DOMAIN inbox : inbox'[i] = inbox[i] /\ i \in Nat /\ i < Len(inbox) + 1
           /\ \A c, n : AckBefore(inbox, c, n) => AckBefore(inbox', c, n)
<1>1. /\ inbox' \in Seq(Messages) /\ Len(inbox') = Len(inbox) + 1 /\ Len(inbox) \in Nat
      /\ DOMAIN inbox' = DOMAIN inbox \cup {Len(inbox) + 1}
      /\ inbox'[Len(inbox) + 1] = m
      /\ \A i \in DOMAIN inbox : inbox'[i] = inbox[i] /\ i \in Nat /\ i < Len(inbox) + 1
  OBVIOUS
<1>2. QED
  BY <1>1 DEF AckBefore

\* Taking the oldest message shifts the others by one.
LEMMA InboxShrinks ==
    ASSUME inbox \in Seq(Messages), inbox # <<>>, inbox' = Tail(inbox)
    PROVE  /\ inbox' \in Seq(Messages) /\ Len(inbox) \in Nat /\ Len(inbox) >= 1
           /\ DOMAIN inbox = 1..Len(inbox)
           /\ Len(inbox') = Len(inbox) - 1 /\ DOMAIN inbox' = 1..(Len(inbox) - 1)
           /\ \A i \in DOMAIN inbox' : inbox'[i] = inbox[i + 1] /\ i + 1 \in DOMAIN inbox /\ i \in Nat
           /\ 1 \in DOMAIN inbox /\ inbox[1] = Head(inbox) /\ Head(inbox) \in Messages
           /\ \A c : \A n \in Nat : AckBefore(inbox, c, n + 1) =>
                  AckBefore(inbox', c, n) \/ (Head(inbox).kind = "ack" /\ Head(inbox).channel = c)
<1>1. /\ inbox' \in Seq(Messages) /\ Len(inbox) \in Nat /\ Len(inbox) >= 1
      /\ DOMAIN inbox = 1..Len(inbox)
      /\ Len(inbox') = Len(inbox) - 1 /\ DOMAIN inbox' = 1..(Len(inbox) - 1)
      /\ \A i \in DOMAIN inbox' : inbox'[i] = inbox[i + 1] /\ i + 1 \in DOMAIN inbox /\ i \in Nat
      /\ 1 \in DOMAIN inbox /\ inbox[1] = Head(inbox) /\ Head(inbox) \in Messages
  OBVIOUS
<1>2. ASSUME NEW c, NEW n \in Nat, AckBefore(inbox, c, n + 1)
      PROVE  AckBefore(inbox', c, n) \/ (Head(inbox).kind = "ack" /\ Head(inbox).channel = c)
  <2>1. PICK j \in DOMAIN inbox : j < n + 1 /\ inbox[j].kind = "ack" /\ inbox[j].channel = c
    BY <1>2 DEF AckBefore
  <2>2. CASE j = 1
    BY <2>1, <2>2, <1>1
  <2>3. CASE j # 1
    <3>1. j - 1 \in DOMAIN inbox' /\ j - 1 < n /\ inbox'[j - 1] = inbox[j]
      BY <2>1, <2>3, <1>1
    <3>2. QED
      BY <2>1, <3>1 DEF AckBefore
  <2>4. QED
    BY <2>2, <2>3
<1>3. QED
  BY <1>1, <1>2

\* A Hyperliquid feed stays silent in a step that posts nothing, starts no write and adds
\* nothing to the inbox, unless the connection is gone.
LEMMA HlStaysSilent ==
    ASSUME FeedInv, feed' = feed, inbox' = inbox \/ inbox' = <<>>,
           Len(writing') <= Len(writing) \/ Len(writing') <= 1,
           Len(writing) \in Nat, Len(writing') \in Nat,
           ~Connected' \/ posted' = <<>> \/ (Connected /\ posted' = posted)
    PROVE  HlSilent'
  BY DEF FeedInv, HlSilent, OnLighter

\* SendPosted: with a connection only Lighter's feeds have something posted.
LEMMA SendPostedKeeps == ASSUME FeedInv, SendPosted PROVE FeedInv'
<1>1. WsInv'
  BY RunSendKeeps DEF FeedInv, SendPosted
<1>2. FeedTypeOK' /\ FreshConnection' /\ OnlyActive' /\ AckFirst' /\ NothingDropped'
  BY FeedUntouched DEF FeedInv, FeedTypeOK, SendPosted, RunSend, serverVars
<1>3. HlSilent'
  BY DEF FeedInv, HlSilent, OnLighter, SendPosted, RunSend, serverVars, Connected
<1>4. QED
  BY <1>1, <1>2, <1>3 DEF FeedInv

\* Connecting and stopping.
LEMMA ConnectionStepKeeps == ASSUME FeedInv, Connecting \/ Stops PROVE FeedInv'
<1>1. WsInv'
  BY ConnectionKeeps, CallsKeep DEF FeedInv, Connecting, Stops
<1>2. expired' \in BOOLEAN /\ failed' \in BOOLEAN /\ feed' = feed /\ inbox' = inbox
      /\ UNCHANGED <<flags, active, dropped, posted>>
  BY DEF FeedInv, FeedTypeOK, Connecting, Stops, serverVars, ConnectFails, RetryDue, Close, DoClose
<1>3. phase' = phase \/ phase' = "closed" \/ {phase, phase'} \subseteq {"connecting", "timer"}
  BY DEF Connecting, Stops, ConnectFails, RetryDue, AfterReconnect, Close, DoClose
<1>4. FeedTypeOK' /\ FreshConnection' /\ OnlyActive' /\ AckFirst' /\ NothingDropped'
  BY <1>2, <1>3, FeedUntouched
<1>5. Len(writing') <= Len(writing) /\ Len(writing) \in Nat /\ Len(writing') \in Nat
  BY DEF FeedInv, WsInv, WsTypeOK, Connecting, Stops, ConnectFails, RetryDue, Close, DoClose
<1>6. ~Connected' \/ Connected
  BY <1>3 DEF Connected
<1>7. HlSilent'
  BY <1>2, <1>5, <1>6, HlStaysSilent
<1>8. QED
  BY <1>1, <1>4, <1>7 DEF FeedInv

\* Opens: the new connection has at most one write, one message and no flag.
LEMMA OpensKeeps == ASSUME FeedInv, Opens PROVE FeedInv'
<1>1. WsInv' /\ Len(writing') <= 1
  BY HandshakeKeeps DEF FeedInv, Opens
<1>2. /\ flags = {} /\ active = {} /\ UNCHANGED <<feed, flags, active, expired, dropped>>
      /\ phase' = "open" /\ posted' = <<>> /\ failed' = FALSE
  BY DEF FeedInv, FreshConnection, Opens, Handshake
<1>3. \/ OnLighter /\ inbox' = <<Message("connected", "")>>
      \/ ~OnLighter /\ inbox' = <<>>
  BY DEF Opens
<1>4. /\ inbox' \in Seq(Messages)
      /\ \A i \in DOMAIN inbox' : OnLighter /\ inbox'[i].kind = "connected"
  <2>1. CASE OnLighter
    <3> DEFINE m == Message("connected", "")
    <3>1. m \in Messages /\ m.kind = "connected" /\ inbox' = <<m>>
      BY <1>3, <2>1, MessageIs
    <3> HIDE DEF m
    <3>2. QED
      BY <3>1, <2>1
  <2>2. CASE ~OnLighter
    <3>1. inbox' = <<>>
      BY <1>3, <2>2
    <3>2. QED
      BY <3>1
  <2>3. QED
    BY <2>1, <2>2
<1>5. failed' \in BOOLEAN
  BY <1>2, Zenon
<1>6. FeedTypeOK'
  BY <1>2, <1>4, <1>5 DEF FeedInv, FeedTypeOK, Channels, Subscriptions
<1>7. FreshConnection' /\ OnlyActive' /\ NothingDropped'
  BY <1>2, <1>4 DEF FeedInv, FreshConnection, OnlyActive, FlagIsReal, NothingDropped
<1>8. AckFirst'
  BY <1>2, <1>4 DEF AckFirst
<1>9. HlSilent'
  BY <1>1, <1>2, <1>4 DEF HlSilent, OnLighter
<1>10. QED
  BY <1>1, <1>6, <1>7, <1>8, <1>9 DEF FeedInv

\* Breaks and OnDisconnect: nothing of the connection is left.
LEMMA LossKeeps == ASSUME FeedInv, Breaks \/ OnDisconnect PROVE FeedInv'
<1>1. feed \in FeedKinds /\ feed' = feed /\ SubscribeAhead \in Seq(Msgs)
  BY SubscriptionsAre DEF FeedInv, FeedTypeOK, Breaks, OnDisconnect, Disconnected
<1>0. Channels' = Channels /\ <<>> \in Seq(Messages)
  BY <1>1 DEF Channels, Subscriptions
<1>2. CASE Breaks
  <2>1. WsInv'
    BY <1>2, ConnectionKeeps DEF FeedInv, Breaks
  <2>2. /\ inbox' = <<>> /\ active' = {} /\ writing' = <<>> /\ phase' \in {"closed", "lost"}
        /\ UNCHANGED <<flags, expired, failed, dropped>>
    BY <1>2 DEF Breaks, ReadFails
  <2>3. FeedTypeOK'
    BY <1>1, <2>2, <1>0 DEF FeedInv, FeedTypeOK
  <2>4. FreshConnection' /\ OnlyActive' /\ AckFirst' /\ NothingDropped' /\ HlSilent'
    BY <2>2 DEF FeedInv, FreshConnection, OnlyActive, FlagIsReal, AckFirst, NothingDropped, HlSilent,
                Connected
  <2>5. QED
    BY <2>1, <2>3, <2>4 DEF FeedInv
<1>3. CASE OnDisconnect
  <2>1. /\ inbox' = <<>> /\ active' = {} /\ flags' = {} /\ phase' \in {"closed", "timer"}
        /\ writing' = <<>> /\ UNCHANGED <<expired, failed, dropped, pendingSends, closing, flush>>
        /\ posted' = posted \o SubscribeAhead
    BY <1>3 DEF FeedInv, WsInv, WritesNeedConnection, FreshConnection, Connected, OnDisconnect,
                Disconnected, AfterReconnect, serverVars
  <2>2. posted' \in Seq(Msgs)
    BY <1>1, <2>1 DEF FeedInv, WsInv, WsTypeOK
  <2>3. closing' \in BOOLEAN /\ pendingSends' \in Seq(Msgs) /\ flush' \in Seq(Msgs)
        /\ writing' \in Seq(Writes) /\ phase' \in Phases
    BY <2>1 DEF FeedInv, WsInv, WsTypeOK, Phases
  <2>4. WsInv'
    BY <2>1, <2>2, <2>3 DEF WsInv, WsTypeOK, WritesNeedConnection, OneChain
  <2>5. FeedTypeOK'
    BY <1>1, <2>1, <1>0 DEF FeedInv, FeedTypeOK
  <2>6. FreshConnection' /\ OnlyActive' /\ AckFirst' /\ NothingDropped' /\ HlSilent'
    BY <2>1 DEF FeedInv, FreshConnection, OnlyActive, FlagIsReal, AckFirst, NothingDropped, HlSilent,
                Connected
  <2>7. QED
    BY <2>4, <2>5, <2>6 DEF FeedInv
<1>4. QED
  BY <1>2, <1>3

\* A message of the server that is an answer or belongs to a subscription already answered
\* keeps the order of the inbox.
LEMMA ServerSends ==
    ASSUME FeedInv, NEW m \in Messages, inbox' = Append(inbox, m),
           UNCHANGED <<feed, flags, dropped, expired, failed, phase>>, phase = "open",
           \/ /\ m.kind = "ack" /\ m.channel \in Channels
              /\ active' = active \cup {m.channel}
           \/ m.kind = "data" /\ m.channel \in active /\ active' = active
           \/ m.kind = "ping" /\ active' = active
    PROVE  FeedTypeOK' /\ FreshConnection' /\ OnlyActive' /\ AckFirst' /\ NothingDropped'
<1>0. inbox \in Seq(Messages)
  BY DEF FeedInv, FeedTypeOK
<1> DEFINE last == Len(inbox) + 1
<1>1. /\ inbox' \in Seq(Messages) /\ Len(inbox') = last /\ last \in Nat /\ last < last + 1
      /\ DOMAIN inbox' = DOMAIN inbox \cup {last}
      /\ inbox'[last] = m
      /\ \A i \in DOMAIN inbox : inbox'[i] = inbox[i] /\ i \in Nat /\ i < last
      /\ \A c, n : AckBefore(inbox, c, n) => AckBefore(inbox', c, n)
  BY <1>0, InboxGrows
<1> HIDE DEF last
<1>2. Channels' = Channels
  BY DEF Channels, Subscriptions
<1>3. FeedTypeOK'
  BY <1>1, <1>2 DEF FeedInv, FeedTypeOK
<1>4. FreshConnection' /\ NothingDropped'
  BY DEF FeedInv, FreshConnection, NothingDropped
<1>5. active \subseteq active' /\ (m.kind \in {"ack", "data"} => m.channel \in active')
  OBVIOUS
<1>6. OnlyActive'
  BY <1>1, <1>5 DEF FeedInv, OnlyActive, FlagIsReal, Connected
<1>9. ASSUME NEW c \in active', NeedsFlag(c)
      PROVE  c \in flags' \/ AckBefore(inbox', c, Len(inbox') + 1)
  <2>1. CASE c \in active
    <3>1. c \in flags \/ AckBefore(inbox, c, last)
      BY <2>1, <1>9 DEF FeedInv, AckFirst, last
    <3>2. AckBefore(inbox, c, last) => AckBefore(inbox', c, last + 1)
      <4> SUFFICES ASSUME AckBefore(inbox, c, last) PROVE AckBefore(inbox', c, last + 1)
        OBVIOUS
      <4>1. PICK j \in DOMAIN inbox : j < last /\ inbox[j].kind = "ack" /\ inbox[j].channel = c
        BY DEF AckBefore
      <4>2. j \in DOMAIN inbox' /\ inbox'[j] = inbox[j] /\ j < last + 1
        BY <4>1, <1>1
      <4>3. QED
        BY <4>1, <4>2 DEF AckBefore
    <3>3. QED
      BY <3>1, <3>2, <1>1
  <2>2. CASE c \notin active
    <3>1. m.kind = "ack" /\ m.channel = c
      BY <2>2, <1>9
    <3>2. QED
      BY <3>1, <1>1 DEF AckBefore
  <2>3. QED
    BY <2>1, <2>2
<1>10. ASSUME NEW i \in DOMAIN inbox', inbox'[i].kind = "data", NeedsFlag(inbox'[i].channel)
       PROVE  inbox'[i].channel \in flags' \/ AckBefore(inbox', inbox'[i].channel, i)
  <2>1. CASE i \in DOMAIN inbox
    BY <2>1, <1>1, <1>10 DEF FeedInv, AckFirst
  <2>2. CASE i = last
    <3>1. m.kind = "data" /\ m.channel \in active /\ inbox'[i] = m
      BY <2>2, <1>1, <1>10
    <3>2. m.channel \in flags \/ AckBefore(inbox, m.channel, last)
      BY <3>1, <1>10 DEF FeedInv, AckFirst, last
    <3>3. QED
      BY <3>1, <3>2, <2>2, <1>1
  <2>3. QED
    BY <2>1, <2>2, <1>1
<1>11. AckFirst'
  BY <1>9, <1>10 DEF AckFirst, NeedsFlag
<1>12. QED
  BY <1>3, <1>4, <1>6, <1>11

\* The server sends a message unasked, or stops accepting the token.
LEMMA ServerKeeps ==
    ASSUME FeedInv, (\E channel \in active : Publish(channel)) \/ Ping \/ TokenExpires
    PROVE  FeedInv'
<1>0. WsInv'
  BY CallsKeep DEF FeedInv, Publish, Ping, TokenExpires
<1>1. feed \in FeedKinds /\ active \subseteq AllChannels
  BY SubscriptionsAre DEF FeedInv, FeedTypeOK
<1>2. UNCHANGED <<phase, posted, writing, feed>>
  BY DEF Publish, Ping, TokenExpires, wsVars
<1>3. CASE TokenExpires
  <2>1. UNCHANGED <<feed, flags, active, inbox, dropped, failed, phase>> /\ expired' = TRUE
    BY <1>2, <1>3 DEF TokenExpires
  <2>2. expired' \in BOOLEAN /\ failed' \in BOOLEAN
    BY <2>1, Zenon DEF FeedInv, FeedTypeOK
  <2>3. FeedTypeOK' /\ FreshConnection' /\ OnlyActive' /\ AckFirst' /\ NothingDropped'
    BY <2>1, <2>2, FeedUntouched
  <2>4. HlSilent'
    BY <1>2, <2>1 DEF FeedInv, HlSilent, OnLighter, Connected
  <2>5. QED
    BY <1>0, <2>3, <2>4 DEF FeedInv
<1>4. ASSUME NEW channel \in active, Publish(channel) PROVE FeedInv'
  <2> DEFINE m == Message("data", channel)
  <2>1. m \in Messages /\ m.kind = "data" /\ m.channel = channel
    BY <1>1, MessageIs
  <2>2. inbox' = Append(inbox, m) /\ phase = "open"
        /\ UNCHANGED <<flags, active, expired, failed, dropped>>
    BY <1>4 DEF Publish, Connected
  <2> HIDE DEF m
  <2>3. FeedTypeOK' /\ FreshConnection' /\ OnlyActive' /\ AckFirst' /\ NothingDropped'
    BY <1>2, <2>1, <2>2, ServerSends
  <2>4. \A i \in DOMAIN inbox' : (i \in DOMAIN inbox /\ inbox'[i] = inbox[i]) \/ inbox'[i] = m
    BY <2>1, <2>2, InboxGrows DEF FeedInv, FeedTypeOK
  <2>5. HlSilent'
    BY <1>2, <2>1, <2>4 DEF FeedInv, HlSilent, OnLighter, Connected
  <2>6. QED
    BY <1>0, <2>3, <2>5 DEF FeedInv
<1>5. CASE Ping
  <2> DEFINE m == Message("ping", "")
  <2>1. m \in Messages /\ m.kind = "ping"
    BY MessageIs
  <2>2. inbox' = Append(inbox, m) /\ phase = "open" /\ OnLighter
        /\ UNCHANGED <<flags, active, expired, failed, dropped>>
    BY <1>5 DEF Ping, Connected
  <2> HIDE DEF m
  <2>3. FeedTypeOK' /\ FreshConnection' /\ OnlyActive' /\ AckFirst' /\ NothingDropped'
    BY <1>2, <2>1, <2>2, ServerSends
  <2>4. HlSilent'
    BY <1>2, <2>2 DEF HlSilent, OnLighter
  <2>5. QED
    BY <1>0, <2>3, <2>4 DEF FeedInv
<1>6. QED
  BY <1>3, <1>4, <1>5

\* A write ends: a subscription that arrives is answered before anything is sent for it.
LEMMA WriteStepKeeps ==
    ASSUME FeedInv, NEW i \in DOMAIN writing, RequestArrives(i) \/ RequestFails(i)
    PROVE  FeedInv'
<1>1. WsInv' /\ Len(writing') <= Len(writing) /\ Len(writing) \in Nat /\ Len(writing') \in Nat
  <2>1. WsInv' /\ Len(writing') <= Len(writing)
    BY WriteKeeps DEF FeedInv, RequestArrives, RequestFails
  <2>2. QED
    BY <2>1 DEF FeedInv, WsInv, WsTypeOK
<1>2. UNCHANGED <<phase, posted, feed, flags, dropped, expired>> /\ phase = "open"
  BY DEF RequestArrives, RequestFails, WriteDone, WriteFails, Connected, serverVars
<1>3. CASE UNCHANGED <<active, inbox>> /\ failed' \in BOOLEAN
  <2>1. FeedTypeOK' /\ FreshConnection' /\ OnlyActive' /\ AckFirst' /\ NothingDropped'
    BY <1>2, <1>3, FeedUntouched DEF FeedInv, FeedTypeOK
  <2>2. HlSilent'
    BY <1>1, <1>2, <1>3, HlStaysSilent DEF Connected
  <2>3. QED
    BY <1>1, <2>1, <2>2 DEF FeedInv
<1>4. CASE RequestFails(i)
  <2>1. failed' \in BOOLEAN
    BY <1>4, Zenon DEF RequestFails
  <2>2. UNCHANGED <<active, inbox>>
    BY <1>4 DEF RequestFails, serverVars
  <2>3. QED
    BY <1>3, <2>1, <2>2
<1>5. CASE RequestArrives(i)
  <2> DEFINE channel == writing[i].msg
             m == Message("ack", channel)
  <2>1. failed' = failed /\ failed' \in BOOLEAN
    BY <1>5 DEF RequestArrives, FeedInv, FeedTypeOK
  <2>2. \/ UNCHANGED <<active, inbox>>
        \/ /\ channel \in Channels /\ active' = active \cup {channel}
           /\ inbox' = Append(inbox, m)
    BY <1>5 DEF RequestArrives
  <2>3. CASE channel \in Channels /\ active' = active \cup {channel} /\ inbox' = Append(inbox, m)
    <3>1. m \in Messages /\ m.kind = "ack" /\ m.channel = channel
      BY <2>3, MessageIs, SubscriptionsAre DEF FeedInv, FeedTypeOK
    <3> HIDE DEF m, channel
    <3>2. FeedTypeOK' /\ FreshConnection' /\ OnlyActive' /\ AckFirst' /\ NothingDropped'
      BY <1>2, <2>1, <2>3, <3>1, ServerSends
    <3>3. \A k \in DOMAIN inbox' : (k \in DOMAIN inbox /\ inbox'[k] = inbox[k]) \/ inbox'[k] = m
      BY <2>3, <3>1, InboxGrows DEF FeedInv, FeedTypeOK
    <3>4. HlSilent'
      BY <1>1, <1>2, <3>1, <3>3 DEF FeedInv, HlSilent, OnLighter, Connected
    <3>5. QED
      BY <1>1, <3>2, <3>4 DEF FeedInv
  <2>4. QED
    BY <1>3, <2>1, <2>2, <2>3
<1>6. QED
  BY <1>4, <1>5

\* Taking a message keeps the order of the others, if an answer sets its flag.
LEMMA MessageTaken ==
    ASSUME FeedInv, inbox # <<>>, inbox' = Tail(inbox), phase = "open", phase' = "open",
           UNCHANGED <<feed, active, expired, failed, dropped>>,
           flags \subseteq flags', flags' \subseteq active,
           Head(inbox).kind = "ack" => Head(inbox).channel \in flags'
    PROVE  FeedTypeOK' /\ FreshConnection' /\ OnlyActive' /\ AckFirst' /\ NothingDropped'
<1>0. inbox \in Seq(Messages)
  BY DEF FeedInv, FeedTypeOK
<1>1. /\ inbox' \in Seq(Messages) /\ Len(inbox) \in Nat /\ Len(inbox) >= 1
      /\ Len(inbox') = Len(inbox) - 1
      /\ \A i \in DOMAIN inbox' : inbox'[i] = inbox[i + 1] /\ i + 1 \in DOMAIN inbox /\ i \in Nat
      /\ \A c : \A n \in Nat : AckBefore(inbox, c, n + 1) =>
             AckBefore(inbox', c, n) \/ (Head(inbox).kind = "ack" /\ Head(inbox).channel = c)
  BY <1>0, InboxShrinks
<1>2. Channels' = Channels
  BY DEF Channels, Subscriptions
<1>3. FeedTypeOK'
  BY <1>1, <1>2 DEF FeedInv, FeedTypeOK
<1>4. FreshConnection' /\ NothingDropped'
  BY DEF FeedInv, FreshConnection, NothingDropped
<1>5. OnlyActive'
  BY <1>1 DEF FeedInv, OnlyActive, FlagIsReal
<1>6. ASSUME NEW c \in active', NeedsFlag(c)
      PROVE  c \in flags' \/ AckBefore(inbox', c, Len(inbox') + 1)
  <2>1. c \in flags \/ AckBefore(inbox, c, Len(inbox) + 1)
    BY <1>6 DEF FeedInv, AckFirst
  <2>2. Len(inbox') + 1 = Len(inbox)
    BY <1>1
  <2>3. QED
    BY <2>1, <2>2, <1>1
<1>7. ASSUME NEW i \in DOMAIN inbox', inbox'[i].kind = "data", NeedsFlag(inbox'[i].channel)
      PROVE  inbox'[i].channel \in flags' \/ AckBefore(inbox', inbox'[i].channel, i)
  <2>1. inbox'[i] = inbox[i + 1] /\ i + 1 \in DOMAIN inbox /\ i \in Nat
    BY <1>1
  <2>2. inbox[i + 1].channel \in flags \/ AckBefore(inbox, inbox[i + 1].channel, i + 1)
    BY <1>7, <2>1 DEF FeedInv, AckFirst
  <2>3. QED
    BY <2>1, <2>2, <1>1
<1>8. AckFirst'
  BY <1>6, <1>7 DEF AckFirst, NeedsFlag
<1>9. QED
  BY <1>3, <1>4, <1>5, <1>8

\* OnMessage: what needs a flag finds it set, and only a Lighter feed answers.
LEMMA OnMessageKeeps == ASSUME FeedInv, OnMessage PROVE FeedInv'
<1> DEFINE m == Head(inbox)
<1>1. /\ inbox # <<>> /\ inbox' = Tail(inbox) /\ phase = "open" /\ posted = <<>>
      /\ UNCHANGED <<feed, active, expired, failed>>
      /\ \/ m.kind = "connected" /\ Greeted
         \/ m.kind = "ping" /\ Pinged
         \/ m.kind = "ack" /\ Acknowledged(m.channel)
         \/ m.kind = "data" /\ Received(m.channel)
  BY DEF OnMessage, Connected
<1>2. /\ DOMAIN inbox = 1..Len(inbox) /\ 1 \in DOMAIN inbox /\ inbox[1] = m
      /\ \A i \in DOMAIN inbox' : inbox'[i] = inbox[i + 1] /\ i + 1 \in DOMAIN inbox
  BY <1>1, InboxShrinks DEF FeedInv, FeedTypeOK
<1>3. m.kind \in {"ack", "data"} => m.channel \in active
  BY <1>2 DEF FeedInv, OnlyActive
<1>4. feed \in FeedKinds /\ flags \subseteq active
  BY <1>1 DEF FeedInv, FeedTypeOK, OnlyActive, FlagIsReal, Connected
<1> HIDE DEF m
<1>5. CASE m.kind \in {"connected", "ping"}
  <2>1. OnLighter
    BY <1>2, <1>5 DEF FeedInv, HlSilent
  <2>2. UNCHANGED <<flags, dropped>>
        /\ ((\E msgs \in Seq(Msgs) : Send(msgs)) \/ UNCHANGED wsVars)
    BY <1>1, <1>4, <1>5, SubscriptionsAre DEF Greeted, Pinged
  <2>3. WsInv'
    BY <2>2, CallsKeep DEF FeedInv
  <2>4. phase' = "open"
    BY <2>2, <1>1 DEF Send, wsVars
  <2>5. FeedTypeOK' /\ FreshConnection' /\ OnlyActive' /\ AckFirst' /\ NothingDropped'
    BY <1>1, <1>4, <1>5, <2>2, <2>4, MessageTaken DEF m
  <2>6. HlSilent'
    BY <1>1, <2>1 DEF HlSilent, OnLighter
  <2>7. QED
    BY <2>3, <2>5, <2>6 DEF FeedInv
<1>6. CASE m.kind \in {"ack", "data"}
  <2>1. UNCHANGED wsVars /\ phase' = "open"
    BY <1>1, <1>6 DEF Acknowledged, Received, wsVars
  <2>2. flags \subseteq flags' /\ flags' \subseteq active /\ (m.kind = "ack" => m.channel \in flags')
    BY <1>1, <1>3, <1>4, <1>6 DEF Acknowledged, Received
  <2>3. dropped' = dropped
    <3>1. CASE m.kind = "ack"
      BY <3>1, <1>1 DEF Acknowledged
    <3>2. CASE m.kind = "data"
      <4>1. ~AckBefore(inbox, m.channel, 1)
        BY <1>2 DEF AckBefore
      <4>2. NeedsFlag(m.channel) => m.channel \in flags
        BY <4>1, <1>2, <3>2 DEF FeedInv, AckFirst
      <4>3. QED
        BY <4>2, <3>2, <1>1 DEF Received
    <3>3. QED
      BY <3>1, <3>2, <1>6
  <2>4. WsInv'
    BY <2>1, CallsKeep DEF FeedInv
  <2>5. FeedTypeOK' /\ FreshConnection' /\ OnlyActive' /\ AckFirst' /\ NothingDropped'
    BY <1>1, <2>1, <2>2, <2>3, MessageTaken DEF m
  <2>6. HlSilent'
    BY <1>1, <1>2, <2>1 DEF FeedInv, HlSilent, OnLighter, wsVars, Connected
  <2>7. QED
    BY <2>4, <2>5, <2>6 DEF FeedInv
<1>7. QED
  BY <1>1, <1>5, <1>6

\* The invariant holds at every moment of every feed's life.
THEOREM FeedInvariant == Spec => []FeedInv
<1>1. Init => FeedInv
  BY FeedInit
<1>2. FeedInv /\ [Next]_vars => FeedInv'
  <2> SUFFICES ASSUME FeedInv, [Next]_vars PROVE FeedInv'
    OBVIOUS
  <2>1. CASE UNCHANGED vars
    <3>1. UNCHANGED wsVars /\ UNCHANGED <<feed, flags, active, inbox, expired, failed, dropped>>
      BY <2>1 DEF vars, serverVars
    <3>2. UNCHANGED <<phase, posted, writing>>
      BY <3>1 DEF wsVars
    <3>3. WsInv'
      BY <3>1, CallsKeep DEF FeedInv
    <3>4. FeedTypeOK' /\ FreshConnection' /\ OnlyActive' /\ AckFirst' /\ NothingDropped'
      BY <3>1, <3>2, FeedUntouched DEF FeedInv, FeedTypeOK
    <3>5. HlSilent'
      BY <3>1, <3>2 DEF FeedInv, HlSilent, OnLighter, Connected
    <3>6. QED
      BY <3>3, <3>4, <3>5 DEF FeedInv
  <2>2. CASE SendPosted
    BY <2>2, SendPostedKeeps
  <2>3. CASE Connecting \/ Stops
    BY <2>3, ConnectionStepKeeps
  <2>4. CASE Opens
    BY <2>4, OpensKeeps
  <2>5. CASE \E i \in DOMAIN writing : RequestArrives(i) \/ RequestFails(i)
    BY <2>5, WriteStepKeeps
  <2>6. CASE OnMessage
    BY <2>6, OnMessageKeeps
  <2>7. CASE Breaks \/ OnDisconnect
    BY <2>7, LossKeeps
  <2>8. CASE (\E channel \in active : Publish(channel)) \/ Ping \/ TokenExpires
    BY <2>8, ServerKeeps
  <2>9. QED
    BY <2>1, <2>2, <2>3, <2>4, <2>5, <2>6, <2>7, <2>8 DEF Next
<1>3. QED
  BY <1>1, <1>2, PTL DEF Spec

\* Every variable of the feeds, of their client and of the server keeps its type.
THEOREM FeedTypeCorrect == Spec => []TypeOK
<1>1. FeedInv => TypeOK
  BY DEF FeedInv, FeedTypeOK, WsInv, TypeOK
<1>2. QED
  BY <1>1, FeedInvariant, PTL

\* No flag of a feed survives the connection it was set on: is_subscribed never answers for
\* an earlier one, however many messages were on their way when that broke.
THEOREM FlagsAreReal == Spec => []FlagIsReal
<1>1. FeedInv => FlagIsReal
  BY DEF FeedInv, OnlyActive
<1>2. QED
  BY <1>1, FeedInvariant, PTL

\* HlFillFeed and MarketFeed throw away no fill and no trade for want of a flag, however
\* many messages are on their way.
THEOREM NothingIsDropped == Spec => []NothingDropped
<1>1. FeedInv => NothingDropped
  BY DEF FeedInv
<1>2. QED
  BY <1>1, FeedInvariant, PTL

\* The two Hyperliquid feeds never have two writes in progress on one stream.
THEOREM HlWritesNeverOverlap == Spec => []HlWritesAlone
<1>1. FeedInv => HlWritesAlone
  BY DEF FeedInv, HlSilent, HlWritesAlone
<1>2. QED
  BY <1>1, FeedInvariant, PTL

----------------------------------------------------------------------------
(* What is queued between two connections. *)

\* A connection leaves nothing in pending_sends_, and its loss waits for what was posted.
NothingKept ==
    /\ phase \in {"open", "lost"} => pendingSends = <<>>
    /\ phase = "lost" => posted = <<>>

QueueInv == QueuedOnce /\ NothingKept

\* Moving the first message of one queue behind the other changes nothing of their order.
LEMMA MoveFirst ==
    ASSUME NEW S, NEW p \in Seq(S), NEW q \in Seq(S), q # <<>>
    PROVE  Append(p, Head(q)) \o Tail(q) = p \o q
<1> DEFINE left == Append(p, Head(q)) \o Tail(q)
           right == p \o q
<1>1. Head(q) \in S /\ Tail(q) \in Seq(S) /\ Len(q) >= 1 /\ Len(Tail(q)) = Len(q) - 1
      /\ Len(p) \in Nat /\ Len(q) \in Nat
  OBVIOUS
<1>2. Append(p, Head(q)) \in Seq(S) /\ Len(Append(p, Head(q))) = Len(p) + 1
  BY <1>1
<1>3. left \in Seq(S) /\ right \in Seq(S) /\ Len(left) = Len(right)
      /\ Len(right) = Len(p) + Len(q)
  BY <1>1, <1>2
<1>4. ASSUME NEW k \in 1..Len(right) PROVE left[k] = right[k]
  <2>1. CASE k <= Len(p)
    BY <1>1, <1>2, <2>1
  <2>2. CASE k = Len(p) + 1
    BY <1>1, <1>2, <2>2
  <2>3. CASE k > Len(p) + 1
    <3>1. left[k] = Tail(q)[k - (Len(p) + 1)] /\ right[k] = q[k - Len(p)]
      BY <1>1, <1>2, <1>3, <2>3
    <3>2. k - (Len(p) + 1) \in 1..Len(Tail(q))
      BY <1>1, <1>3, <2>3
    <3>3. Tail(q)[k - (Len(p) + 1)] = q[(k - (Len(p) + 1)) + 1]
      BY <1>1, <3>2
    <3>4. (k - (Len(p) + 1)) + 1 = k - Len(p)
      BY <1>1
    <3>5. QED
      BY <3>1, <3>3, <3>4
  <2>4. QED
    BY <1>1, <2>1, <2>2, <2>3
<1> HIDE DEF left, right
<1>5. left = right
  BY <1>3, <1>4
<1>6. QED
  BY <1>5 DEF left, right

\* Nothing stands before the empty queue and nothing behind it.
LEMMA EmptyQueue ==
    ASSUME NEW S, NEW s \in Seq(S)
    PROVE  <<>> \o s = s /\ s \o <<>> = s
  OBVIOUS

\* A step that leaves the queues alone keeps what is said of them, unless it begins to be
\* said.
LEMMA QueuesUntouched ==
    ASSUME QueueInv, feed' = feed, UNCHANGED <<posted, pendingSends>>,
           phase' = phase \/ phase' = "closed" \/ {phase, phase'} \subseteq {"connecting", "timer"}
    PROVE  QueueInv'
<1>1. SubscribeAhead' = SubscribeAhead
  BY DEF SubscribeAhead, Subscriptions
<1>2. QED
  BY <1>1 DEF QueueInv, QueuedOnce, NothingKept

\* SendPosted: before the handshake a message only changes queues; after it none is kept.
LEMMA SendPostedQueues == ASSUME FeedInv, QueueInv, SendPosted PROVE QueueInv'
<1>0. posted \in Seq(Msgs) /\ pendingSends \in Seq(Msgs) /\ posted # <<>>
      /\ posted' = Tail(posted) /\ phase' = phase /\ feed' = feed
  BY DEF FeedInv, WsInv, WsTypeOK, SendPosted, RunSend
<1>1. SubscribeAhead' = SubscribeAhead
  BY <1>0 DEF SubscribeAhead, Subscriptions
<1>2. CASE phase \in {"connecting", "timer"}
  <2>1. pendingSends' = Append(pendingSends, Head(posted))
    BY <1>2 DEF SendPosted, RunSend, Connected
  <2>2. pendingSends' \o posted' = pendingSends \o posted
    BY <1>0, <2>1, MoveFirst
  <2>3. QED
    BY <1>0, <1>1, <1>2, <2>2 DEF QueueInv, QueuedOnce, NothingKept
<1>3. CASE phase = "open"
  <2>1. pendingSends' = pendingSends
    BY <1>3 DEF SendPosted, RunSend, Connected
  <2>2. QED
    BY <1>0, <1>3, <2>1 DEF QueueInv, QueuedOnce, NothingKept
<1>4. CASE phase \in {"lost", "closed"}
  BY <1>0, <1>4 DEF QueueInv, QueuedOnce, NothingKept, SendPosted, RunSend
<1>5. QED
  BY <1>2, <1>3, <1>4 DEF FeedInv, WsInv, WsTypeOK, Phases

\* Every step of a feed keeps what is queued between two connections.
LEMMA QueueStep == ASSUME FeedInv, QueueInv, Next PROVE QueueInv'
<1>1. CASE SendPosted
  BY <1>1, SendPostedQueues
<1>2. CASE Connecting
  <2>1. feed' = feed /\ UNCHANGED <<posted, pendingSends>>
        /\ (phase' = "closed" \/ {phase, phase'} \subseteq {"connecting", "timer"})
    BY <1>2 DEF Connecting, ConnectFails, RetryDue, AfterReconnect
  <2>2. QED
    BY <2>1, QueuesUntouched
<1>3. CASE Opens
  <2>1. phase' = "open" /\ pendingSends' = <<>>
    BY <1>3 DEF Opens, Handshake
  <2>2. QED
    BY <2>1 DEF QueueInv, QueuedOnce, NothingKept
<1>4. ASSUME NEW i \in DOMAIN writing, RequestArrives(i) \/ RequestFails(i) PROVE QueueInv'
  <2>1. feed' = feed /\ UNCHANGED <<posted, pendingSends, phase>>
    BY <1>4 DEF RequestArrives, RequestFails, WriteDone, WriteFails
  <2>2. QED
    BY <2>1, QueuesUntouched
<1>5. CASE OnMessage
  <2>1. phase = "open" /\ UNCHANGED <<phase, pendingSends>>
    BY <1>5 DEF OnMessage, Connected, Greeted, Pinged, Acknowledged, Received, Send, wsVars
  <2>2. QED
    BY <2>1 DEF QueueInv, QueuedOnce, NothingKept
<1>6. CASE Breaks
  <2>1. phase = "open" /\ phase' \in {"closed", "lost"} /\ posted' = <<>> /\ pendingSends' = pendingSends
    BY <1>6 DEF Breaks, ReadFails, Connected
  <2>2. QED
    BY <2>1 DEF QueueInv, QueuedOnce, NothingKept
<1>7. CASE OnDisconnect
  <2>1. phase = "lost" /\ phase' \in {"closed", "timer"} /\ pendingSends' = pendingSends
        /\ posted' = posted \o SubscribeAhead /\ feed' = feed
    BY <1>7 DEF OnDisconnect, Disconnected, AfterReconnect
  <2>2. pendingSends' = <<>> /\ posted' = <<>> \o SubscribeAhead
    BY <2>1 DEF QueueInv, NothingKept
  <2>3. SubscribeAhead \in Seq(Msgs)
    BY SubscriptionsAre DEF FeedInv, FeedTypeOK
  <2>4. pendingSends' \o posted' = SubscribeAhead
    BY <2>2, <2>3, EmptyQueue
  <2>5. SubscribeAhead' = SubscribeAhead
    BY <2>1 DEF SubscribeAhead, Subscriptions
  <2>6. QED
    BY <2>1, <2>4, <2>5 DEF QueueInv, QueuedOnce, NothingKept
<1>8. CASE Stops
  <2>1. feed' = feed /\ UNCHANGED <<posted, pendingSends>> /\ (phase' = phase \/ phase' = "closed")
    BY <1>8 DEF Stops, Close, DoClose
  <2>2. QED
    BY <2>1, QueuesUntouched
<1>9. CASE (\E channel \in active : Publish(channel)) \/ Ping \/ TokenExpires
  <2>1. feed' = feed /\ UNCHANGED <<posted, pendingSends, phase>>
    BY <1>9 DEF Publish, Ping, TokenExpires, wsVars
  <2>2. QED
    BY <2>1, QueuesUntouched
<1>10. QED
  BY <1>1, <1>2, <1>3, <1>4, <1>5, <1>6, <1>7, <1>8, <1>9 DEF Next

\* A feed never reconnects with a subscription missing, doubled or out of order, whatever
\* was posted or being flushed when its connection broke.
THEOREM ChannelsQueuedOnce == Spec => []QueuedOnce
<1>1. Init => QueueInv
  <2> SUFFICES ASSUME Init PROVE QueueInv
    OBVIOUS
  <2>1. phase = "connecting" /\ pendingSends = <<>> /\ posted = SubscribeAhead
    BY DEF Init, WsInit
  <2>2. SubscribeAhead \in Seq(Msgs)
    BY SubscriptionsAre DEF Init
  <2>3. pendingSends \o posted = SubscribeAhead
    BY <2>1, <2>2, EmptyQueue
  <2>4. QED
    BY <2>1, <2>3 DEF QueueInv, QueuedOnce, NothingKept
<1>2. FeedInv /\ QueueInv /\ [Next]_vars => QueueInv'
  <2>1. ASSUME QueueInv, UNCHANGED vars PROVE QueueInv'
    <3>1. feed' = feed /\ UNCHANGED <<posted, pendingSends, phase>>
      BY <2>1 DEF vars, wsVars
    <3>2. QED
      BY <2>1, <3>1, QueuesUntouched
  <2>2. QED
    BY <2>1, QueueStep
<1>3. QueueInv => QueuedOnce
  BY DEF QueueInv
<1>4. QED
  BY <1>1, <1>2, <1>3, FeedInvariant, PTL DEF Spec
=============================================================================
