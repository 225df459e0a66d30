------------------------- MODULE LighterOrders_proofs -------------------------
(***************************************************************************)
(* What a call of NativeLighterTrading may believe, for any number of      *)
(* calls, restarts and failures: whose answer send_tx returns, that a      *)
(* confirmed order or cancel is real, and that a confirmed hedge executed. *)
(***************************************************************************)
EXTENDS LighterTrading_proofs, FiniteSetTheorems

\* The call under way.
Busy == pc # "idle"

\* Calls that have not been signed yet.
Unsigned == {id \in Txs : id >= nextTx \/ (id = Current /\ pc = "based")}

InInbox == {inbox[i].tx : i \in DOMAIN inbox} \cap Txs

\* A call that ended without its own answer.
GivenUp(id) == taken[id] \in {Ping, TimedOut} \cup 1..(id - 1)

\* Requests go out and are answered in the order of their calls.
Ordered ==
    /\ ~linked => inbox = <<>>
    /\ \A i \in DOMAIN inbox : inbox[i].tx # Disconnected
    /\ \A i, j \in DOMAIN wire : i < j => wire[i] < wire[j]
    /\ \A i, j \in DOMAIN outbox : i < j => outbox[i] < outbox[j]
    /\ \A i \in DOMAIN inbox, j \in DOMAIN wire : inbox[i].tx < wire[j]
    /\ \A i, j \in DOMAIN inbox : i < j /\ inbox[j].tx \in Txs => inbox[i].tx < inbox[j].tx

\* What may still be answered.
Pending == InInbox \cup Range(wire) \cup Range(outbox)

Held == IF pc = "sent" /\ response # None THEN {response.tx} \cap Txs ELSE {}

\* A request that may still be answered was signed, and its call waits or ended without it.
OwnOrGivenUp ==
    \A id \in Pending \cup Held :
        id \notin Unsigned /\ (GivenUp(id) \/ (id = Current /\ pc = "sent"))

\* What send_tx holds is older than what is to come; after a disconnection nothing comes
\* for the call that waits.
HeldFirst ==
    /\ \A id \in Held, other \in Pending : id < other
    /\ pc = "sent" /\ response # None /\ response.tx = Disconnected => Current \notin Pending

NotYet ==
    /\ \A id \in Unsigned : taken[id] = None
    /\ pc = "sent" => taken[Current] = None

TakenOnce ==
    \A id \in Txs : taken[id] \in Txs =>
        /\ taken[id] \notin Pending \cup Held \cup Unsigned
        /\ taken[id] # id => taken[id] < id /\ GivenUp(taken[id])
        /\ \A other \in Txs \ {id} : taken[other] # taken[id]

AnswerInv == Ordered /\ OwnOrGivenUp /\ HeldFirst /\ NotYet /\ TakenOnce

\* What the venue accepted has a nonce it will not take again.
VenueInv ==
    /\ \A id \in Unsigned : id \notin accepted /\ orders[id] = None /\ executed[id] = None
                            /\ ack[id] = None
    /\ \A id \in accepted : nonce[id] \in Nat /\ nonce[id] < venueNext
                            /\ orders[id] = None /\ executed[id] = None
    /\ \A id \in Txs : orders[id] # None \/ executed[id] # None =>
           nonce[id] \in Nat /\ nonce[id] < venueNext
    /\ \A id \in Txs : id < nextTx =>
           calls[id] \in Calls /\ (calls[id].kind = "cancel" => calls[id].target \in Txs)

\* An order that is shown or was seen is known to the venue, and one shown or seen as
\* cancelled is cancelled.
Shown ==
    \A i \in DOMAIN news : /\ orders[news[i].id] # None
                           /\ news[i].state = "canceled" => orders[news[i].id] = "canceled"

Seen ==
    \A id \in Txs : /\ seen[id] # None => orders[id] # None
                    /\ seen[id] = "canceled" => orders[id] = "canceled"

\* What a call reported is so, and a cancel is of an order that entered the book.
Reported ==
    /\ \A id \in Txs : ack[id] # None /\ ack[id].ok =>
           /\ calls[id].kind = "limit" => orders[id] # None
           /\ calls[id].kind = "cancel" => orders[calls[id].target] \notin {"open", None}
    /\ \A id \in Txs : id < nextTx /\ calls[id].kind = "cancel" =>
           orders[calls[id].target] # None

SeenInv == Shown /\ Seen /\ Reported

\* While nothing blurs a hedge, the position is the one before it or the one after it, and
\* the feed shows or will show no other.
Watching == Busy /\ Call.kind = "ioc" /\ clean

HedgeView ==
    Watching =>
        /\ Outstanding \subseteq {Current}
        /\ OpenIds = {}
        /\ \/ executed[Current] = None /\ position = base
           \/ executed[Current] \in Nat /\ position = base + Call.sign * executed[Current]
        /\ Range(updates) \cup {latest} \subseteq {None, base, position}

HedgeInv == HedgeView /\ ConfirmedIsExecuted

----------------------------------------------------------------------------
(* Types. *)

\* TypeOK in parts, by who writes the variables; NonceTypeOK is another.
CallTypes ==
    /\ policy \in {"hedge", "maker"}
    /\ calls \in [Txs -> Calls \cup {None}]
    /\ pc \in {"idle", "based", "sent", "confirming"}
    /\ base \in Int
    /\ ack \in [Txs -> Acks \cup {None}]
    /\ taken \in [Txs -> Txs \cup {Ping, TimedOut, Disconnected, None}]
    /\ clean \in BOOLEAN

LineTypes ==
    /\ response \in Answers \cup {None}
    /\ inbox \in Seq(Answers)
    /\ accepted \in SUBSET Txs
    /\ gaps \in SUBSET Txs

AccountTypes ==
    /\ executed \in [Txs -> Nat \cup {None}]
    /\ position \in Int
    /\ orders \in [Txs -> OrderStates \cup {None}]
    /\ feedUp \in BOOLEAN
    /\ updates \in Seq(Int)
    /\ latest \in Int \cup {None}
    /\ news \in Seq([id : Txs, state : OrderStates])
    /\ seen \in [Txs -> OrderStates \cup {None}]

HistoryTypes == restarts \in 0..MaxRestarts /\ noise \in 0..MaxNoise

Types == NonceInv /\ CallTypes /\ LineTypes /\ AccountTypes /\ HistoryTypes

LEMMA TypesSuffice == Types => TypeOK
  BY Zenon DEF Types, TypeOK, NonceInv, NonceTypeOK, CallTypes, LineTypes, AccountTypes,
           HistoryTypes

\* A finite set as a sequence.
LEMMA SetToSeqIs == ASSUME NEW S, IsFiniteSet(S) PROVE SetToSeq(S) \in Seq(S)
<1> DEFINE n == Cardinality(S)
<1>1. n \in Nat /\ ExistsBijection(1..n, S)
  BY FS_CardinalityType
<1>2. \E f \in [1..n -> S] : IsInjective(f)
  BY <1>1 DEF ExistsBijection, Bijection, Injection
<1>3. SetToSeq(S) \in [1..n -> S]
  BY <1>2 DEF SetToSeq
<1>4. QED
  BY <1>1, <1>3

\* A sequence over a set is one over any greater set.
LEMMA SeqGrows ==
    ASSUME NEW S, NEW T, NEW s \in Seq(S), \A x \in S : x \in T PROVE s \in Seq(T)
<1>1. Len(s) \in Nat /\ s \in [1..Len(s) -> S]
  OBVIOUS
<1>2. s \in [1..Len(s) -> T]
  BY <1>1
<1>3. QED
  BY <1>1, <1>2

\* Sequences that grow at the end and shrink at the front.
LEMMA AppendIs ==
    ASSUME NEW S, NEW s \in Seq(S), NEW x \in S
    PROVE  /\ Append(s, x) \in Seq(S) /\ <<x>> \in Seq(S) /\ <<>> \in Seq(S)
           /\ \A i \in DOMAIN Append(s, x) :
                  (i \in DOMAIN s /\ Append(s, x)[i] = s[i]) \/ Append(s, x)[i] = x
  OBVIOUS

LEMMA AppendRange ==
    ASSUME NEW S, NEW s \in Seq(S), NEW x \in S
    PROVE  Append(s, x) \in Seq(S) /\ Range(Append(s, x)) = Range(s) \cup {x}
<1>1. /\ \A i \in DOMAIN s : i \in DOMAIN Append(s, x) /\ Append(s, x)[i] = s[i]
      /\ Len(s) + 1 \in DOMAIN Append(s, x) /\ Append(s, x)[Len(s) + 1] = x
  OBVIOUS
<1>2. QED
  BY <1>1, AppendIs DEF Range

LEMMA AppendRises ==
    ASSUME NEW s \in Seq(Txs), NEW x \in Txs, \A i \in DOMAIN s : s[i] < x,
           \A i, j \in DOMAIN s : i < j => s[i] < s[j]
    PROVE  LET new == Append(s, x) IN \A i, j \in DOMAIN new : i < j => new[i] < new[j]
<1> DEFINE new == Append(s, x)
           last == Len(s) + 1
<1>1. \A i \in DOMAIN new : /\ i \in Nat
                            /\ \/ i \in DOMAIN s /\ i < last /\ new[i] = s[i]
                               \/ i = last /\ new[i] = x
  OBVIOUS
<1> HIDE DEF new, last
<1>2. \A i, j \in DOMAIN new : i < j => new[i] < new[j]
  BY <1>1
<1>3. QED
  BY <1>2 DEF new

LEMMA AppendLast ==
    ASSUME NEW S, NEW s \in Seq(S), NEW x \in S
    PROVE  LET new == Append(s, x) IN
           /\ \A i \in DOMAIN new : /\ i \in Nat
                                    /\ \/ i \in DOMAIN s /\ new[i] = s[i]
                                       \/ new[i] = x /\ \A j \in DOMAIN new : j <= i
           /\ \A i \in DOMAIN s : i \in DOMAIN new /\ new[i] = s[i]
  OBVIOUS

LEMMA TailIs ==
    ASSUME NEW S, NEW s \in Seq(S), s # <<>>
    PROVE  /\ Head(s) \in S /\ Tail(s) \in Seq(S)
           /\ 1 \in DOMAIN s /\ Head(s) = s[1]
           /\ \A i \in DOMAIN Tail(s) : /\ i \in Nat /\ 1 < i + 1 /\ i + 1 \in DOMAIN s
                                        /\ Tail(s)[i] = s[i + 1]
  OBVIOUS

\* The answer to a subscription shows the open orders.
LEMMA OpenOrdersAre ==
    /\ OpenOrders \in Seq([id : Txs, state : OrderStates])
    /\ \A i \in DOMAIN OpenOrders : OpenOrders[i].id \in OpenIds /\ OpenOrders[i].state = "open"
<1> DEFINE S == {[id |-> id, state |-> "open"] : id \in OpenIds}
<1>1. IsFiniteSet(Txs)
  BY FS_Interval, TradingAssumption DEF Txs
<1>2. OpenIds \subseteq Txs
  BY DEF OpenIds
<1>3. IsFiniteSet(OpenIds)
  BY <1>1, <1>2, FS_Subset
<1>4. IsFiniteSet(S)
  <2> DEFINE f == [id \in OpenIds |-> [id |-> id, state |-> "open"]]
  <2>1. f \in [OpenIds -> S] /\ \A t \in S : \E id \in OpenIds : f[id] = t
    OBVIOUS
  <2>2. f \in Surjection(OpenIds, S)
    BY <2>1, Zenon DEF Surjection
  <2>3. QED
    BY <1>3, <2>2, FS_Surjection
<1>5. OpenOrders \in Seq(S)
  BY <1>4, SetToSeqIs DEF OpenOrders
<1>6. \A x \in S : x.id \in OpenIds /\ x.state = "open" /\ x \in [id : Txs, state : OrderStates]
  BY <1>2 DEF OrderStates
<1> HIDE DEF S
<1>7. OpenOrders \in Seq([id : Txs, state : OrderStates])
  BY <1>5, <1>6, SeqGrows
<1>8. \A i \in DOMAIN OpenOrders : OpenOrders[i] \in S
  BY <1>5
<1>9. QED
  BY <1>6, <1>7, <1>8

\* The venue knows only of calls that were made.
LEMMA CallKnown ==
    ASSUME Types, VenueInv, NEW id \in Txs,
           id \in accepted \/ orders[id] # None \/ executed[id] # None
    PROVE  /\ id \notin Unsigned /\ id < nextTx /\ calls[id] \in Calls
           /\ calls[id].kind = "cancel" => calls[id].target \in Txs
<1>1. id \notin Unsigned
  BY DEF VenueInv
<1>2. id \in Nat /\ nextTx \in Nat
  BY TradingAssumption DEF Txs, Types, NonceInv, NonceTypeOK
<1>3. id < nextTx
  BY <1>1, <1>2 DEF Unsigned
<1>4. QED
  BY <1>1, <1>3 DEF VenueInv

\* The call under way has a number and is known.
LEMMA CurrentIs ==
    ASSUME Types, VenueInv, Busy
    PROVE  /\ Current \in Txs /\ Current < nextTx /\ Call \in Calls
           /\ Call.kind = "cancel" => Call.target \in Txs
<1>1. nextTx \in 1..(MaxTx + 1) /\ nextTx > 1
  BY DEF Types, NonceInv, NonceTypeOK, CallsAreReady, Busy
<1>2. Current \in Txs /\ Current < nextTx
  BY <1>1, TradingAssumption DEF Current, Txs
<1>3. QED
  BY <1>2 DEF VenueInv, Call

\* The oldest request was signed.
LEMMA HeadKnown ==
    ASSUME Types, wire # <<>>
    PROVE  Head(wire) \in Txs /\ Range(Tail(wire)) \subseteq Txs /\ Range(wire) \subseteq Txs
           /\ Range(Tail(wire)) \subseteq Range(wire) /\ Head(wire) \in Range(wire)
<1>1. wire \in Seq(Txs)
  BY DEF Types, NonceInv, NonceTypeOK
<1>2. Head(wire) \in Txs /\ Tail(wire) \in Seq(Txs) /\ Head(wire) = wire[1] /\ 1 \in DOMAIN wire
      /\ \A i \in DOMAIN Tail(wire) : i + 1 \in DOMAIN wire /\ Tail(wire)[i] = wire[i + 1]
  BY <1>1
<1>3. QED
  BY <1>1, <1>2 DEF Range

\* What the calls write.
LEMMA CallTypesStep == ASSUME Types, VenueInv, Next PROVE CallTypes'
<1>0. Failed \in Acks /\ Unconfirmed \in Acks
  BY DEF Failed, Unconfirmed, Acks, Types, CallTypes
<1>1. CASE BeginHedge
  <2>1. PICK size \in Sizes, sign \in {1, -1}, before \in {position, 0} :
            /\ Begin([kind |-> "ioc", size |-> size, sign |-> sign, target |-> None])
            /\ base' = before
            /\ clean' = (before = position /\ ~FeedLags /\ Outstanding = {} /\ OpenIds = {})
    BY <1>1 DEF BeginHedge
  <2>2. UNCHANGED <<policy, ack, taken>>
    BY <1>1 DEF BeginHedge
  <2>3. calls' \in [Txs -> Calls \cup {None}] /\ pc' = "based"
    BY <2>1 DEF Begin, Calls, Types, CallTypes
  <2>4. clean' \in BOOLEAN
    BY <2>1, Zenon
  <2>5. base' \in Int
    BY <2>1 DEF Types, AccountTypes
  <2>6. QED
    BY <2>2, <2>3, <2>4, <2>5 DEF Types, CallTypes
<1>2. CASE BeginLimit \/ BeginCancel
  <2>1. PICK kind \in {"limit", "cancel"}, sign \in {1, -1}, target \in Txs \cup {None} :
            BeginOther(kind, sign, target)
    BY <1>2 DEF BeginLimit, BeginCancel
  <2>2. PICK size \in Sizes :
            Begin([kind |-> kind, size |-> size, sign |-> sign, target |-> target])
    BY <2>1 DEF BeginOther
  <2>3. UNCHANGED <<policy, ack, taken, base>> /\ clean' = TRUE
    BY <2>1 DEF BeginOther
  <2>4. calls' \in [Txs -> Calls \cup {None}] /\ pc' = "based"
    BY <2>2 DEF Begin, Calls, Types, CallTypes
  <2>5. clean' \in BOOLEAN
    BY <2>3, Zenon
  <2>6. QED
    BY <2>3, <2>4, <2>5 DEF Types, CallTypes
<1>3. CASE SignFails
  <2>1. /\ UNCHANGED <<policy, calls, base, taken, clean>> /\ pc' = "idle"
        /\ ack' = [ack EXCEPT ![Current] = Failed]
    BY <1>3 DEF SignFails, Return
  <2>2. QED
    BY <1>0, <2>1 DEF Types, CallTypes
<1>4. CASE Submit
  BY <1>4 DEF Submit, callVars, Types, CallTypes
<1>5. CASE SendTimesOut
  <2>1. /\ UNCHANGED <<policy, calls, base, clean>> /\ pc' = "idle"
        /\ ack' = [ack EXCEPT ![Current] = Failed]
        /\ taken' = [taken EXCEPT ![Current] = TimedOut]
    BY <1>5 DEF SendTimesOut, Return, Took, histVars
  <2>2. QED
    BY <1>0, <2>1 DEF Types, CallTypes
<1>6. CASE SendReturns
  <2>1. /\ UNCHANGED <<policy, calls, base>> /\ response # None
        /\ clean' = (clean /\ response.tx = Current)
        /\ taken' = [taken EXCEPT ![Current] = response.tx]
        /\ \/ pc' = "idle" /\ ack' = [ack EXCEPT ![Current] = [Failed EXCEPT !.clean = clean']]
           \/ pc' = "confirming" /\ ack' = ack
    BY <1>6 DEF SendReturns, Return, Took
  <2>2. clean' \in BOOLEAN
    BY <2>1, Zenon
  <2>3. [Failed EXCEPT !.clean = clean'] \in Acks
    BY <1>0, <2>2 DEF Acks
  <2>4. ack' \in [Txs -> Acks \cup {None}]
    BY <2>1, <2>3 DEF Types, CallTypes
  <2>5. response.tx \in Txs \cup {Ping, Disconnected}
    BY <2>1 DEF Types, LineTypes, Answers
  <2>6. taken' \in [Txs -> Txs \cup {Ping, TimedOut, Disconnected, None}]
    BY <2>1, <2>5 DEF Types, CallTypes
  <2>7. QED
    BY <2>1, <2>2, <2>4, <2>6 DEF Types, CallTypes
<1>7. CASE HedgeConfirmedByFeed
  <2>1. /\ UNCHANGED <<policy, calls, base, taken, clean>> /\ pc' = "idle" /\ latest # None
        /\ ack' = [ack EXCEPT ![Current] = Confirmed(Distance(latest, base), clean)]
    BY <1>7 DEF HedgeConfirmedByFeed, Return, histVars
  <2>2. Distance(latest, base) \in Nat
    BY <2>1 DEF Distance, Types, CallTypes, AccountTypes
  <2>3. Confirmed(Distance(latest, base), clean) \in Acks
    BY <2>2 DEF Confirmed, Acks, Types, CallTypes
  <2>4. QED
    BY <2>1, <2>3 DEF Types, CallTypes
<1>8. CASE HedgeQueried
  <2>1. UNCHANGED <<policy, calls, base, taken, clean>> /\ pc' = "idle"
    BY <1>8 DEF HedgeQueried, Return, histVars
  <2>2. PICK after \in {position, 0} :
            ack' = [ack EXCEPT ![Current] =
                       IF after = base THEN Unconfirmed
                       ELSE Confirmed(Distance(after, base), clean /\ after = position)]
    BY <1>8 DEF HedgeQueried, Return
  <2>3. Distance(after, base) \in Nat
    BY <2>2 DEF Distance, Types, CallTypes, AccountTypes
  <2>4. (clean /\ after = position) \in BOOLEAN
    BY Zenon
  <2>5. Confirmed(Distance(after, base), clean /\ after = position) \in Acks
    BY <2>3, <2>4 DEF Confirmed, Acks
  <2>6. QED
    BY <1>0, <2>1, <2>2, <2>5 DEF Types, CallTypes
<1>9. CASE OrderConfirmed \/ OrderNotSeen
  <2>1. /\ UNCHANGED <<policy, calls, base, taken, clean>> /\ pc' = "idle"
        /\ \/ ack' = [ack EXCEPT ![Current] = Unconfirmed]
           \/ ack' = [ack EXCEPT ![Current] = Failed]
    BY <1>9 DEF OrderConfirmed, OrderNotSeen, Return, histVars
  <2>2. QED
    BY <1>0, <2>1 DEF Types, CallTypes
<1>10. CASE Restart
  BY <1>10 DEF Restart, callVars, Types, CallTypes
<1>11. CASE PositionArrives
  <2>1. UNCHANGED <<policy, calls, pc, base, ack, taken>>
    BY <1>11 DEF PositionArrives, callVars, localVars
  <2>2. clean' \in BOOLEAN
    BY <1>11, Zenon DEF PositionArrives, Types, CallTypes
  <2>3. QED
    BY <2>1, <2>2 DEF Types, CallTypes
<1>12. CASE CreateAuthToken \/ OnMessage \/ LinkBreaks \/ LinkRestored \/ NewsArrives
            \/ FeedBreaks \/ FeedRestored
  BY <1>12 DEF CreateAuthToken, OnMessage, LinkBreaks, LinkRestored, NewsArrives, FeedBreaks,
               FeedRestored, callVars, localVars, histVars, Types, CallTypes
<1>13. CASE Venue
  BY <1>13 DEF Venue, VenuePings, VenueJudges, HedgeExecutes, OrderEnters, CancelExecutes,
               OrderFills, callVars, localVars, histVars, Types, CallTypes
<1>14. QED
  BY <1>1, <1>2, <1>3, <1>4, <1>5, <1>6, <1>7, <1>8, <1>9, <1>10, <1>11, <1>12, <1>13
  DEF Next, Caller

\* What the order connection writes.
LEMMA LineTypesStep == ASSUME Types, VenueInv, Next PROVE LineTypes'
<1>1. CASE SignFails
  <2>1. gaps' = gaps \cup {Current} /\ UNCHANGED <<response, inbox, accepted>>
    BY <1>1 DEF SignFails, lineVars, venueVars
  <2>2. Current \in Txs
    BY <1>1, CurrentIs DEF SignFails, Busy
  <2>3. QED
    BY <2>1, <2>2 DEF Types, LineTypes
<1>2. CASE OnMessage
  <2>1. inbox # <<>> /\ inbox' = Tail(inbox) /\ UNCHANGED <<accepted, gaps>>
        /\ response' \in {Head(inbox), response}
    BY <1>2 DEF OnMessage, venueVars, histVars
  <2>2. Head(inbox) \in Answers /\ Tail(inbox) \in Seq(Answers)
    BY <2>1 DEF Types, LineTypes
  <2>3. QED
    BY <2>1, <2>2 DEF Types, LineTypes
<1>3. CASE VenuePings
  <2>1. inbox' = Append(inbox, [tx |-> Ping, ok |-> FALSE]) /\ UNCHANGED <<response, accepted, gaps>>
    BY <1>3 DEF VenuePings, localVars, venueVars, histVars
  <2>2. [tx |-> Ping, ok |-> FALSE] \in Answers
    BY DEF Answers
  <2>3. inbox' \in Seq(Answers)
    BY <2>1, <2>2 DEF Types, LineTypes
  <2>4. QED
    BY <2>1, <2>3 DEF Types, LineTypes
<1>4. CASE VenueJudges
  <2>1. PICK ok \in BOOLEAN :
            /\ Judge(Head(wire), ok)
            /\ gaps' = IF ok THEN gaps ELSE gaps \cup {Head(wire)}
            /\ inbox' = Append(inbox, [tx |-> Head(wire), ok |-> ok])
    BY <1>4 DEF VenueJudges
  <2>2. Head(wire) \in Txs /\ response' = response
    BY <1>4, HeadKnown DEF VenueJudges, localVars
  <2>3. [tx |-> Head(wire), ok |-> ok] \in Answers
    BY <2>2 DEF Answers
  <2>4. inbox' \in Seq(Answers)
    BY <2>1, <2>3 DEF Types, LineTypes
  <2>5. accepted' \subseteq accepted \cup {Head(wire)} /\ gaps' \subseteq gaps \cup {Head(wire)}
    BY <2>1 DEF Judge
  <2>6. QED
    BY <2>2, <2>4, <2>5 DEF Types, LineTypes
<1>5. CASE LinkBreaks \/ Restart
  <2>1. /\ inbox' = <<>>
        /\ response' \in {[tx |-> Disconnected, ok |-> FALSE], response, None}
        /\ gaps' \subseteq gaps \cup Range(wire)
    <3>1. wire # <<>> => Range(Tail(wire)) \subseteq Range(wire)
      BY HeadKnown
    <3>2. QED
      BY <1>5, <3>1 DEF LinkBreaks, Restart
  <2>2. accepted' \subseteq accepted \cup Range(wire)
    BY <1>5, HeadKnown DEF LinkBreaks, Restart, Judge
  <2>3. Range(wire) \subseteq Txs /\ [tx |-> Disconnected, ok |-> FALSE] \in Answers
    BY DEF Range, Types, NonceInv, NonceTypeOK, Answers
  <2>4. inbox' \in Seq(Answers)
    BY <2>1
  <2>5. QED
    BY <2>1, <2>2, <2>3, <2>4 DEF Types, LineTypes
<1>6. CASE \E tx \in accepted : HedgeExecutes(tx) \/ OrderEnters(tx) \/ CancelExecutes(tx)
  BY <1>6 DEF HedgeExecutes, OrderEnters, CancelExecutes, Executes, localVars, lineVars, histVars,
              Types, LineTypes
<1>7. CASE Submit
  BY <1>7 DEF Submit, venueVars, Types, LineTypes
<1>8. CASE CreateAuthToken \/ BeginHedge \/ BeginLimit \/ BeginCancel
  BY <1>8 DEF CreateAuthToken, BeginHedge, BeginLimit, BeginCancel, BeginOther, lineVars,
              venueVars, histVars, Types, LineTypes
<1>9. CASE SendTimesOut \/ SendReturns \/ HedgeConfirmedByFeed \/ HedgeQueried
           \/ OrderConfirmed \/ OrderNotSeen
  BY <1>9 DEF SendTimesOut, SendReturns, HedgeConfirmedByFeed, HedgeQueried, OrderConfirmed,
              OrderNotSeen, lineVars, venueVars, histVars, Types, LineTypes
<1>10. CASE \/ LinkRestored \/ PositionArrives \/ NewsArrives \/ FeedBreaks \/ FeedRestored
            \/ \E id \in Txs : OrderFills(id)
  BY <1>10 DEF LinkRestored, PositionArrives, NewsArrives, FeedBreaks, FeedRestored, OrderFills,
               localVars, lineVars, venueVars, histVars, Types, LineTypes
<1>11. QED
  BY <1>1, <1>2, <1>3, <1>4, <1>5, <1>6, <1>7, <1>8, <1>9, <1>10 DEF Next, Caller, Venue

\* An order that changes tells the feed.
LEMMA OrderTypes ==
    ASSUME Types, NEW id \in Txs, NEW state \in OrderStates, OrderBecomes(id, state)
    PROVE  /\ orders' = [orders EXCEPT ![id] = state]
           /\ orders' \in [Txs -> OrderStates \cup {None}]
           /\ news' = news \/ news' = Append(news, [id |-> id, state |-> state])
           /\ news' \in Seq([id : Txs, state : OrderStates])
<1>1. /\ orders' = [orders EXCEPT ![id] = state]
      /\ news' = news \/ news' = Append(news, [id |-> id, state |-> state])
  BY DEF OrderBecomes, Tell
<1>2. [id |-> id, state |-> state] \in [id : Txs, state : OrderStates]
  OBVIOUS
<1>3. orders' \in [Txs -> OrderStates \cup {None}]
  BY <1>1 DEF Types, AccountTypes
<1>4. news' \in Seq([id : Txs, state : OrderStates])
  <2>1. news \in Seq([id : Txs, state : OrderStates])
    BY DEF Types, AccountTypes
  <2>2. Append(news, [id |-> id, state |-> state]) \in Seq([id : Txs, state : OrderStates])
    BY <1>2, <2>1, AppendIs, Zenon
  <2>3. QED
    BY <1>1, <2>1, <2>2, Zenon
<1>5. QED
  BY <1>1, <1>3, <1>4

\* A signed size is an integer.
LEMMA SignedSize ==
    ASSUME NEW call \in Calls, NEW size \in Nat PROVE call.sign * size \in {size, -size}
<1>1. call.sign \in {1, -1}
  BY DEF Calls
<1>2. CASE call.sign = 1
  BY <1>2
<1>3. CASE call.sign = -1
  BY <1>3
<1>4. QED
  BY <1>1, <1>2, <1>3

LEMMA ScaledIs == ASSUME NEW call \in Calls PROVE Scaled(call.size) \in Nat
<1>1. call.size \in Nat
  BY TradingAssumption DEF Calls
<1>2. QED
  BY <1>1, TradingAssumption DEF Scaled

\* What the venue and the account feed write.
LEMMA AccountTypesStep == ASSUME Types, VenueInv, Next PROVE AccountTypes'
<1>1. CASE \E tx \in accepted : HedgeExecutes(tx)
  <2>1. PICK tx \in accepted : HedgeExecutes(tx)
    BY <1>1
  <2>2. tx \in Txs /\ calls[tx] \in Calls
    BY CallKnown DEF Types, LineTypes
  <2>3. PICK size \in 0..Scaled(calls[tx].size) :
            /\ executed' = [executed EXCEPT ![tx] = size]
            /\ position' = position + calls[tx].sign * size
            /\ updates' = IF size > 0 /\ policy = "hedge" THEN Tell(updates, position') ELSE updates
    BY <2>1 DEF HedgeExecutes
  <2>4. UNCHANGED <<orders, feedUp, latest, news, seen>>
    BY <2>1 DEF HedgeExecutes
  <2>5. size \in Nat
    BY <2>2, <2>3, ScaledIs
  <2>6. position' \in Int
    <3>1. calls[tx].sign * size \in {size, -size}
      BY <2>2, <2>5, SignedSize
    <3>2. QED
      BY <2>3, <2>5, <3>1 DEF Types, AccountTypes
  <2>7. updates' \in Seq(Int)
    <3>1. updates' = Append(updates, position') \/ updates' = updates
      BY <2>3 DEF Tell
    <3>2. updates \in Seq(Int)
      BY DEF Types, AccountTypes
    <3>3. Append(updates, position') \in Seq(Int)
      BY <2>6, <3>2, AppendIs, Zenon
    <3>4. QED
      BY <3>1, <3>2, <3>3, Zenon
  <2>8. executed' \in [Txs -> Nat \cup {None}]
    BY <2>3, <2>5 DEF Types, AccountTypes
  <2>9. QED
    BY <2>4, <2>6, <2>7, <2>8 DEF Types, AccountTypes
<1>2. CASE \E tx \in accepted : OrderEnters(tx) \/ CancelExecutes(tx)
  <2>1. PICK tx \in accepted : OrderEnters(tx) \/ CancelExecutes(tx)
    BY <1>2
  <2>2. UNCHANGED <<executed, position, feedUp, updates, latest, seen>>
    BY <2>1 DEF OrderEnters, CancelExecutes
  <2>3. tx \in Txs
    BY DEF Types, LineTypes
  <2>4. UNCHANGED <<orders, news>> \/ \E id \in Txs, state \in OrderStates : OrderBecomes(id, state)
    <3>1. CASE OrderEnters(tx)
      BY <2>3, <3>1 DEF OrderEnters, OrderStates
    <3>2. CASE CancelExecutes(tx)
      <4>1. calls[tx].target \in Txs
        BY <2>3, <3>2, CallKnown DEF CancelExecutes
      <4>2. QED
        BY <3>2, <4>1 DEF CancelExecutes, OrderStates
    <3>3. QED
      BY <2>1, <3>1, <3>2
  <2>5. orders' \in [Txs -> OrderStates \cup {None}] /\ news' \in Seq([id : Txs, state : OrderStates])
    BY <2>4, OrderTypes DEF Types, AccountTypes
  <2>6. QED
    BY <2>2, <2>5 DEF Types, AccountTypes
<1>3. CASE \E id \in Txs : OrderFills(id)
  <2>1. PICK id \in Txs : OrderFills(id)
    BY <1>3
  <2>2. UNCHANGED <<executed, feedUp, updates, latest, seen>>
    BY <2>1 DEF OrderFills
  <2>3. orders' \in [Txs -> OrderStates \cup {None}] /\ news' \in Seq([id : Txs, state : OrderStates])
    BY <2>1, OrderTypes DEF OrderFills, OrderStates
  <2>4. orders[id] # None
    BY <2>1, TradingAssumption DEF OrderFills, OrderStates
  <2>5. position' \in Int
    <3>1. calls[id] \in Calls
      BY <2>4, CallKnown
    <3>2. Scaled(calls[id].size) \in Nat
      BY <3>1, ScaledIs
    <3>3. calls[id].sign * Scaled(calls[id].size) \in Int
      BY <3>1, <3>2, SignedSize
    <3>4. QED
      BY <2>1, <3>3 DEF OrderFills, Types, AccountTypes
  <2>6. QED
    BY <2>2, <2>3, <2>5 DEF Types, AccountTypes
<1>4. CASE PositionArrives
  <2>1. /\ updates # <<>> /\ updates' = Tail(updates) /\ latest' \in {Head(updates), 0, latest}
        /\ UNCHANGED <<executed, position, orders, feedUp, news, seen>>
    BY <1>4 DEF PositionArrives, venueVars
  <2>2. Head(updates) \in Int /\ Tail(updates) \in Seq(Int)
    BY <2>1 DEF Types, AccountTypes
  <2>3. QED
    BY <2>1, <2>2 DEF Types, AccountTypes
<1>5. CASE NewsArrives
  <2>1. /\ news # <<>> /\ news' = Tail(news)
        /\ seen' = [seen EXCEPT ![Head(news).id] = Head(news).state]
        /\ UNCHANGED <<executed, position, orders, feedUp, updates, latest>>
    BY <1>5 DEF NewsArrives, venueVars
  <2>2. Head(news) \in [id : Txs, state : OrderStates]
        /\ Tail(news) \in Seq([id : Txs, state : OrderStates])
    <3>1. news \in Seq([id : Txs, state : OrderStates])
      BY DEF Types, AccountTypes
    <3>2. QED
      BY <2>1, <3>1, TailIs, Zenon
  <2>3. seen' \in [Txs -> OrderStates \cup {None}]
    BY <2>1, <2>2 DEF Types, AccountTypes
  <2>4. QED
    BY <2>1, <2>2, <2>3 DEF Types, AccountTypes
<1>6. CASE FeedBreaks \/ FeedRestored \/ Restart
  <2>1. /\ UNCHANGED <<executed, position, orders>>
        /\ latest' \in {latest, None}
        /\ seen' = seen \/ seen' = [id \in Txs |-> None]
        /\ updates' = <<>> \/ updates' = <<position>>
        /\ news' = <<>> \/ news' = OpenOrders
    BY <1>6 DEF FeedBreaks, FeedRestored, Restart, venueVars
  <2>2. updates' \in Seq(Int)
    <3>1. position \in Int
      BY DEF Types, AccountTypes
    <3>2. <<position>> \in Seq(Int) /\ <<>> \in Seq(Int)
      BY <3>1
    <3>3. QED
      BY <2>1, <3>2, Zenon
  <2>3. news' \in Seq([id : Txs, state : OrderStates])
    <3>1. <<>> \in Seq([id : Txs, state : OrderStates])
      OBVIOUS
    <3>2. QED
      BY <2>1, <3>1, OpenOrdersAre, Zenon
  <2>4. feedUp' \in BOOLEAN
    BY <1>6, Zenon DEF FeedBreaks, FeedRestored, Restart
  <2>5. seen' \in [Txs -> OrderStates \cup {None}]
    BY <2>1 DEF Types, AccountTypes
  <2>6. QED
    BY <2>1, <2>2, <2>3, <2>4, <2>5 DEF Types, AccountTypes
<1>7. CASE \/ CreateAuthToken \/ BeginHedge \/ BeginLimit \/ BeginCancel \/ Caller
           \/ VenuePings \/ VenueJudges \/ OnMessage \/ LinkBreaks \/ LinkRestored
  <2>1. UNCHANGED <<executed, position, orders, feedUp, updates, latest, news, seen>>
    BY <1>7 DEF CreateAuthToken, BeginHedge, BeginLimit, BeginCancel, BeginOther, Caller, SignFails,
                Submit, SendTimesOut, SendReturns, HedgeConfirmedByFeed, HedgeQueried,
                OrderConfirmed, OrderNotSeen, VenuePings, VenueJudges, OnMessage, LinkBreaks,
                LinkRestored, venueVars, feedVars
  <2>2. QED
    BY <2>1 DEF Types, AccountTypes
<1>8. QED
  BY <1>1, <1>2, <1>3, <1>4, <1>5, <1>6, <1>7 DEF Next, Venue

LEMMA HistoryTypesStep == ASSUME Types, Next PROVE HistoryTypes'
<1>1. noise' = noise \/ (noise < MaxNoise /\ noise' = noise + 1)
  BY DEF Next, Caller, Venue, CreateAuthToken, BeginHedge, BeginLimit, BeginCancel, BeginOther,
         SignFails, Submit, SendTimesOut, SendReturns, HedgeConfirmedByFeed, HedgeQueried,
         OrderConfirmed, OrderNotSeen, VenuePings, VenueJudges, HedgeExecutes, OrderEnters,
         CancelExecutes, OrderFills, OnMessage, LinkBreaks, LinkRestored, PositionArrives,
         NewsArrives, FeedBreaks, FeedRestored, Restart, Reads, MakeNoise
<1>2. restarts' = restarts \/ (restarts < MaxRestarts /\ restarts' = restarts + 1)
  BY DEF Next, Caller, Venue, CreateAuthToken, BeginHedge, BeginLimit, BeginCancel, BeginOther,
         SignFails, Submit, SendTimesOut, SendReturns, HedgeConfirmedByFeed, HedgeQueried,
         OrderConfirmed, OrderNotSeen, VenuePings, VenueJudges, HedgeExecutes, OrderEnters,
         CancelExecutes, OrderFills, OnMessage, LinkBreaks, LinkRestored, PositionArrives,
         NewsArrives, FeedBreaks, FeedRestored, Restart
<1>3. QED
  BY <1>1, <1>2, TradingAssumption DEF Types, HistoryTypes

----------------------------------------------------------------------------
(* Whose answer a call takes. *)

\* Steps of the connection: what may still be answered becomes less.
LEMMA AnswersShrink ==
    ASSUME AnswerInv, UNCHANGED <<nextTx, pc, taken>>, Ordered', HeldFirst',
           Pending' \cup Held' \subseteq Pending \cup Held
    PROVE  AnswerInv'
<1>1. Unsigned' = Unsigned /\ Current' = Current /\ \A id \in Txs : GivenUp(id)' <=> GivenUp(id)
  BY DEF Unsigned, Current, GivenUp
<1>2. OwnOrGivenUp'
  BY <1>1 DEF AnswerInv, OwnOrGivenUp, GivenUp
<1>3. NotYet'
  BY <1>1 DEF AnswerInv, NotYet
<1>4. TakenOnce'
  BY <1>1 DEF AnswerInv, TakenOnce, GivenUp
<1>5. QED
  BY <1>2, <1>3, <1>4 DEF AnswerInv

\* Steps that leave the connection and the caller alone.
LEMMA AnswersUntouched ==
    ASSUME AnswerInv, UNCHANGED <<nextTx, pc, response, taken, linked, outbox, wire, inbox>>
    PROVE  AnswerInv'
<1>1. Pending' = Pending /\ Held' = Held /\ Current' = Current
  BY DEF Pending, Held, InInbox, Current
<1>2. Ordered' /\ HeldFirst'
  BY <1>1 DEF AnswerInv, Ordered, HeldFirst
<1>3. QED
  BY <1>1, <1>2, AnswersShrink

\* The caller goes on, without a queue or an answer touched: BeginHedge, BeginLimit,
\* BeginCancel, SignFails and the ends of a confirmation.
LEMMA CallerMoves ==
    ASSUME AnswerInv, UNCHANGED <<taken, linked, outbox, wire, inbox>>,
           pc # "sent", pc' # "sent", Unsigned' \subseteq Unsigned
    PROVE  AnswerInv'
<1>1. Pending' = Pending /\ Held' = {} /\ Held = {}
  BY DEF Pending, Held, InInbox
<1>2. Ordered' /\ HeldFirst'
  BY <1>1 DEF AnswerInv, Ordered, HeldFirst
<1>3. OwnOrGivenUp'
  BY <1>1 DEF AnswerInv, OwnOrGivenUp, GivenUp
<1>4. NotYet'
  BY DEF AnswerInv, NotYet
<1>5. TakenOnce'
  BY <1>1 DEF AnswerInv, TakenOnce, GivenUp
<1>6. QED
  BY <1>2, <1>3, <1>4, <1>5 DEF AnswerInv

\* The types of what is on its way.
LEMMA LineIs ==
    ASSUME Types
    PROVE  /\ wire \in Seq(Txs) /\ outbox \in Seq(Txs) /\ inbox \in Seq(Answers)
           /\ nextTx \in Nat /\ \A id \in Txs : id \in Nat /\ id >= 1
           /\ \A i \in DOMAIN inbox : inbox[i].tx \in Txs \/ inbox[i].tx \in {0, -2}
<1>1. wire \in Seq(Txs) /\ outbox \in Seq(Txs) /\ inbox \in Seq(Answers) /\ nextTx \in Nat
  BY DEF Types, NonceInv, NonceTypeOK, LineTypes
<1>2. \A id \in Txs : id \in Nat /\ id >= 1
  BY TradingAssumption DEF Txs
<1>3. \A i \in DOMAIN inbox : inbox[i] \in Answers
  BY <1>1
<1>4. \A i \in DOMAIN inbox : inbox[i].tx \in Txs \/ inbox[i].tx \in {0, -2}
  BY <1>3 DEF Answers, Ping, Disconnected
<1>5. QED
  BY <1>1, <1>2, <1>4

\* Submit: the new request comes after all the others.
LEMMA SubmitAnswers == ASSUME Types, VenueInv, AnswerInv, Submit PROVE AnswerInv'
<1>1. /\ pc = "based" /\ pc' = "sent" /\ response' = None
      /\ UNCHANGED <<nextTx, taken, linked, inbox>>
      /\ \/ linked /\ wire' = Append(wire, Current) /\ UNCHANGED outbox
         \/ ~linked /\ outbox' = Append(outbox, Current) /\ UNCHANGED wire
  BY DEF Submit, callVars
<1>2. Current \in Txs /\ Current < nextTx /\ Current \in Unsigned /\ Current' = Current
  BY <1>1, CurrentIs DEF Unsigned, Busy, Current
<1>3. wire \in Seq(Txs) /\ outbox \in Seq(Txs) /\ nextTx \in Nat
      /\ \A id \in Txs : id \in Nat /\ id >= 1
  BY LineIs
<1>4. \A id \in Pending : id \in Txs /\ id < Current
  <2>1. \A id \in Pending : id \in Txs /\ id \notin Unsigned
    BY <1>3 DEF Pending, InInbox, Range, AnswerInv, OwnOrGivenUp
  <2>2. \A id \in Txs : id \notin Unsigned => id < nextTx /\ id # nextTx - 1
    BY <1>1, <1>3 DEF Unsigned, Current
  <2>3. QED
    BY <1>3, <2>1, <2>2 DEF Current
<1>5. /\ Append(wire, Current) \in Seq(Txs) /\ Append(outbox, Current) \in Seq(Txs)
      /\ Range(Append(wire, Current)) = Range(wire) \cup {Current}
      /\ Range(Append(outbox, Current)) = Range(outbox) \cup {Current}
  BY <1>2, <1>3, AppendRange
<1>6. Held' = {} /\ Pending' = Pending \cup {Current}
  <2>1. Held' = {}
    BY <1>1 DEF Held
  <2>2. Range(wire') \cup Range(outbox') = Range(wire) \cup Range(outbox) \cup {Current}
    BY <1>1, <1>5
  <2>3. QED
    BY <1>1, <2>1, <2>2 DEF Pending, InInbox
<1>7. Unsigned' = Unsigned \ {Current}
  BY <1>1, <1>2, <1>3 DEF Unsigned, Current
<1>8. Ordered'
  <2>1. /\ \A i \in DOMAIN wire : wire[i] \in Pending
        /\ \A i \in DOMAIN outbox : outbox[i] \in Pending
        /\ \A i \in DOMAIN inbox : inbox[i].tx \in Txs => inbox[i].tx \in Pending
    BY DEF Pending, InInbox, Range
  <2>2. \A i \in DOMAIN inbox : inbox[i].tx < Current
    BY <1>2, <1>3, <1>4, <2>1, LineIs
  <2>3. CASE linked
    <3> DEFINE new == Append(wire, Current)
    <3>1. wire' = new /\ outbox' = outbox
      BY <1>1, <2>3
    <3>2. \A i, j \in DOMAIN new : i < j => new[i] < new[j]
      BY <1>3, <1>4, <2>1, AppendRises DEF AnswerInv, Ordered
    <3>3. \A i \in DOMAIN inbox, j \in DOMAIN new : inbox[i].tx < new[j]
      BY <1>2, <1>3, <2>2, AppendIs DEF AnswerInv, Ordered
    <3> HIDE DEF new
    <3>4. QED
      BY <1>1, <2>3, <3>1, <3>2, <3>3 DEF AnswerInv, Ordered
  <2>4. CASE ~linked
    <3> DEFINE new == Append(outbox, Current)
    <3>1. outbox' = new /\ wire' = wire
      BY <1>1, <2>4
    <3>2. \A i, j \in DOMAIN new : i < j => new[i] < new[j]
      BY <1>3, <1>4, <2>1, AppendRises DEF AnswerInv, Ordered
    <3> HIDE DEF new
    <3>3. QED
      BY <1>1, <2>4, <3>1, <3>2 DEF AnswerInv, Ordered
  <2>5. QED
    BY <2>3, <2>4
<1>9. OwnOrGivenUp'
  BY <1>1, <1>2, <1>6, <1>7 DEF AnswerInv, OwnOrGivenUp, GivenUp
<1>10. HeldFirst' /\ NotYet'
  BY <1>1, <1>2, <1>6, <1>7 DEF AnswerInv, HeldFirst, NotYet
<1>11. TakenOnce'
  BY <1>1, <1>2, <1>6, <1>7 DEF AnswerInv, TakenOnce, GivenUp
<1>12. QED
  BY <1>8, <1>9, <1>10, <1>11 DEF AnswerInv

\* SendTimesOut: the call ends without its answer.
LEMMA TimeOutAnswers == ASSUME Types, VenueInv, AnswerInv, SendTimesOut PROVE AnswerInv'
<1>1. /\ pc = "sent" /\ response = None /\ pc' = "idle"
      /\ taken' = [taken EXCEPT ![Current] = TimedOut]
      /\ UNCHANGED <<nextTx, response, linked, outbox, wire, inbox>>
  BY DEF SendTimesOut, Took, Return, lineVars
<1>2. Current \in Txs /\ taken \in [Txs -> Txs \cup {Ping, TimedOut, Disconnected, None}]
      /\ \A id \in Txs : id \in Nat /\ id >= 1
  BY <1>1, CurrentIs, LineIs DEF Busy, Types, CallTypes
<1>3. Pending' = Pending /\ Held' = {} /\ Held = {} /\ Unsigned' = Unsigned /\ Current' = Current
  BY <1>1 DEF Pending, InInbox, Held, Unsigned, Current
<1>4. Pending \subseteq Txs
  BY LineIs DEF Pending, InInbox, Range
<1>5. /\ taken'[Current] = TimedOut /\ TimedOut \notin Txs
      /\ \A id \in Txs \ {Current} : taken'[id] = taken[id]
  BY <1>1, <1>2 DEF TimedOut
<1>6. \A id \in Txs : GivenUp(id) => GivenUp(id)'
  BY <1>5 DEF GivenUp
<1>7. GivenUp(Current)'
  BY <1>1, <1>3, <1>5 DEF GivenUp
<1>8. Ordered' /\ HeldFirst'
  BY <1>1, <1>3 DEF AnswerInv, Ordered, HeldFirst
<1>9. OwnOrGivenUp'
  <2> SUFFICES ASSUME NEW id \in Pending PROVE id \notin Unsigned /\ GivenUp(id)'
    BY <1>3 DEF OwnOrGivenUp, GivenUp
  <2>1. id \notin Unsigned /\ (GivenUp(id) \/ id = Current)
    BY DEF AnswerInv, OwnOrGivenUp
  <2>2. CASE GivenUp(id)
    BY <1>4, <1>6, <2>1, <2>2
  <2>3. CASE id = Current
    BY <1>5, <2>1, <2>3 DEF GivenUp
  <2>4. QED
    BY <2>1, <2>2, <2>3
<1>10. NotYet'
  <2>1. Current \notin Unsigned
    BY <1>1, CurrentIs, LineIs DEF Unsigned, Busy
  <2>2. QED
    BY <1>1, <1>2, <1>3, <1>5, <2>1 DEF AnswerInv, NotYet, Unsigned
<1>11. TakenOnce'
  <2> SUFFICES ASSUME NEW id \in Txs, taken'[id] \in Txs
               PROVE  /\ taken'[id] \notin Pending \cup Unsigned
                      /\ taken'[id] # id => taken'[id] < id /\ GivenUp(taken[id])'
                      /\ \A other \in Txs \ {id} : taken'[other] # taken'[id]
    BY <1>3 DEF TakenOnce, GivenUp
  <2>1. id # Current /\ taken'[id] = taken[id]
    BY <1>5
  <2>2. /\ taken[id] \notin Pending \cup Unsigned
        /\ taken[id] # id => taken[id] < id /\ GivenUp(taken[id])
        /\ \A other \in Txs \ {id} : taken[other] # taken[id]
    BY <2>1 DEF AnswerInv, TakenOnce
  <2>3. GivenUp(taken[id]) => GivenUp(taken[id])'
    BY <1>5, <2>1 DEF GivenUp
  <2>4. \A other \in Txs \ {id} : taken'[other] # taken'[id]
    BY <1>5, <2>1, <2>2
  <2>5. QED
    BY <2>1, <2>2, <2>3, <2>4
<1>12. QED
  BY <1>8, <1>9, <1>10, <1>11 DEF AnswerInv

\* SendReturns: what is taken is older than all that is still to come, its own answer
\* included.
LEMMA ReturnAnswers == ASSUME Types, VenueInv, AnswerInv, SendReturns PROVE AnswerInv'
<1> DEFINE t == response.tx
<1>1. /\ pc = "sent" /\ response # None /\ pc' \in {"idle", "confirming"}
      /\ taken' = [taken EXCEPT ![Current] = t]
      /\ UNCHANGED <<nextTx, response, linked, outbox, wire, inbox>>
  BY DEF SendReturns, Took, Return, lineVars
<1>2. Current \in Txs /\ Current < nextTx
      /\ taken \in [Txs -> Txs \cup {Ping, TimedOut, Disconnected, None}]
      /\ \A id \in Txs : id \in Nat /\ id >= 1
  BY <1>1, CurrentIs, LineIs DEF Busy, Types, CallTypes
<1>3. /\ Pending' = Pending /\ Held' = {} /\ Unsigned' = Unsigned /\ Current' = Current
      /\ Held = {t} \cap Txs /\ Current \notin Unsigned
  BY <1>1, <1>2, LineIs DEF Pending, InInbox, Held, Unsigned, Current
<1>4. Pending \subseteq Txs
  BY LineIs DEF Pending, InInbox, Range
<1>5. t \in Txs \cup {Ping, Disconnected} /\ Ping \notin Txs /\ Disconnected \notin Txs
  BY <1>1, <1>2 DEF Types, LineTypes, Answers, Ping, Disconnected
<1> HIDE DEF t
<1>6. /\ taken'[Current] = t /\ taken[Current] = None /\ None \notin Int
      /\ \A id \in Txs \ {Current} : taken'[id] = taken[id]
  BY <1>1, <1>2, TradingAssumption DEF AnswerInv, NotYet
<1>7. \A id \in Txs : GivenUp(id) => id # Current
  BY <1>2, <1>6 DEF GivenUp, Ping, TimedOut
<1>8. t \in Txs => /\ t \notin Pending \cup Unsigned
                   /\ \A id \in Pending : t < id
                   /\ GivenUp(t) \/ t = Current
  <2>1. \A id \in Txs : ~(id < id)
    BY <1>2
  <2>2. QED
    BY <1>2, <1>3, <1>4, <2>1 DEF AnswerInv, HeldFirst, OwnOrGivenUp
<1>9. t = Disconnected => Current \notin Pending
  BY <1>1 DEF AnswerInv, HeldFirst, t
<1>10. Ordered' /\ HeldFirst'
  BY <1>1, <1>3 DEF AnswerInv, Ordered, HeldFirst
<1>11. OwnOrGivenUp'
  <2> SUFFICES ASSUME NEW id \in Pending PROVE id \notin Unsigned /\ GivenUp(id)'
    BY <1>3 DEF OwnOrGivenUp, GivenUp
  <2>1. id \in Txs /\ id \notin Unsigned /\ (GivenUp(id) \/ id = Current)
    BY <1>4 DEF AnswerInv, OwnOrGivenUp
  <2>2. CASE GivenUp(id)
    BY <1>6, <1>7, <2>1, <2>2 DEF GivenUp
  <2>3. CASE id = Current
    <3>1. CASE t \in Txs
      <4>1. t < Current /\ t \in 1..(Current - 1)
        BY <1>2, <1>8, <2>3, <3>1
      <4>2. QED
        BY <1>6, <2>1, <2>3, <4>1 DEF GivenUp
    <3>2. CASE t = Ping
      BY <1>6, <2>1, <2>3, <3>2 DEF GivenUp
    <3>3. QED
      BY <1>5, <1>9, <2>3, <3>1, <3>2
  <2>4. QED
    BY <2>1, <2>2, <2>3
<1>12. NotYet'
  BY <1>1, <1>2, <1>3, <1>6 DEF AnswerInv, NotYet, Unsigned
<1>13. TakenOnce'
  <2> SUFFICES ASSUME NEW id \in Txs, taken'[id] \in Txs
               PROVE  /\ taken'[id] \notin Pending \cup Unsigned
                      /\ taken'[id] # id =>
                             /\ taken'[id] < id
                             /\ taken'[taken'[id]] \in {Ping, TimedOut} \cup 1..(taken'[id] - 1)
                      /\ \A other \in Txs \ {id} : taken'[other] # taken'[id]
    BY <1>3 DEF TakenOnce, GivenUp
  <2>1. CASE id = Current
    <3>1. taken'[id] = t /\ t \in Txs
      BY <1>6, <2>1
    <3>2. t # Current => t < Current /\ GivenUp(t)
      <4>1. t \notin Unsigned /\ t \in Nat
        BY <1>2, <1>8, <3>1
      <4>2. t < nextTx
        BY <3>1, <4>1, LineIs DEF Unsigned
      <4>3. t # Current => t < Current
        BY <4>1, <4>2, LineIs DEF Current
      <4>4. QED
        BY <1>8, <3>1, <4>3
    <3>3. t # Current => taken'[t] \in {Ping, TimedOut} \cup 1..(t - 1)
      BY <1>6, <3>1, <3>2 DEF GivenUp
    <3>4. \A other \in Txs \ {id} : taken'[other] # t
      BY <1>3, <1>6, <2>1, <3>1 DEF AnswerInv, TakenOnce
    <3>5. QED
      BY <1>8, <2>1, <3>1, <3>2, <3>3, <3>4
  <2>2. CASE id # Current
    <3>1. taken'[id] = taken[id]
      BY <1>6, <2>2
    <3>2. /\ taken[id] \notin Pending \cup Held \cup Unsigned
          /\ taken[id] # id => taken[id] < id /\ GivenUp(taken[id])
          /\ \A other \in Txs \ {id} : taken[other] # taken[id]
      BY <3>1 DEF AnswerInv, TakenOnce
    <3>3. GivenUp(taken[id]) => taken'[taken[id]] = taken[taken[id]]
      BY <1>6, <1>7, <3>1
    <3>4. \A other \in Txs \ {id} : taken'[other] # taken'[id]
      BY <1>3, <1>6, <3>1, <3>2
    <3>5. QED
      BY <3>1, <3>2, <3>3, <3>4 DEF GivenUp
  <2>3. QED
    BY <2>1, <2>2
<1>14. QED
  BY <1>10, <1>11, <1>12, <1>13 DEF AnswerInv

\* OnMessage: the oldest message becomes the answer of the call that waits.
LEMMA MessageAnswers == ASSUME Types, AnswerInv, OnMessage PROVE AnswerInv'
<1>1. /\ inbox # <<>> /\ inbox' = Tail(inbox)
      /\ response' = IF pc = "sent" THEN Head(inbox) ELSE response
      /\ UNCHANGED <<nextTx, pc, taken, linked, outbox, wire>>
  BY DEF OnMessage, callVars
<1>2. /\ inbox \in Seq(Answers) /\ wire \in Seq(Txs) /\ outbox \in Seq(Txs)
      /\ \A id \in Txs : id \in Nat /\ id >= 1
  BY LineIs
<1>3. /\ 1 \in DOMAIN inbox /\ Head(inbox) = inbox[1]
      /\ \A i \in DOMAIN Tail(inbox) : /\ i \in Nat /\ 1 < i + 1 /\ i + 1 \in DOMAIN inbox
                                       /\ Tail(inbox)[i] = inbox[i + 1]
  BY <1>1, <1>2, TailIs
<1>4. linked /\ outbox = <<>> /\ Range(outbox) = {}
  BY <1>1 DEF AnswerInv, Ordered, Types, NonceInv, OneQueue, Range
<1>5. Pending' \subseteq Pending
  BY <1>1, <1>3 DEF Pending, InInbox
<1>6. Held' \subseteq Pending \cup Held
  BY <1>1, <1>3 DEF Held, Pending, InInbox
<1>7. Ordered'
  BY <1>1, <1>3, <1>4 DEF AnswerInv, Ordered
<1>8. HeldFirst'
  <2>1. CASE pc = "sent"
    <3>1. response' = inbox[1] /\ Held' \subseteq {inbox[1].tx}
      BY <1>1, <1>3, <2>1 DEF Held
    <3>2. \A i \in DOMAIN Tail(inbox) : Tail(inbox)[i].tx \in Txs => inbox[1].tx < Tail(inbox)[i].tx
      BY <1>3 DEF AnswerInv, Ordered
    <3>3. \A j \in DOMAIN wire : inbox[1].tx < wire[j]
      BY <1>3 DEF AnswerInv, Ordered
    <3>4. \A other \in Pending' : inbox[1].tx < other
      BY <1>1, <1>4, <3>2, <3>3 DEF Pending, InInbox, Range
    <3>5. inbox[1].tx # Disconnected
      BY <1>3 DEF AnswerInv, Ordered
    <3>6. QED
      BY <3>1, <3>4, <3>5 DEF HeldFirst
  <2>2. CASE pc # "sent"
    BY <1>1, <2>2 DEF HeldFirst, Held
  <2>3. QED
    BY <2>1, <2>2
<1>9. QED
  BY <1>1, <1>5, <1>6, <1>7, <1>8, AnswersShrink

\* VenuePings: a message that is no answer comes after those on their way.
LEMMA PingAnswers == ASSUME Types, AnswerInv, VenuePings PROVE AnswerInv'
<1> DEFINE m == [tx |-> Ping, ok |-> FALSE]
           new == Append(inbox, m)
<1>1. /\ linked /\ inbox' = new
      /\ UNCHANGED <<nextTx, pc, response, taken, linked, outbox, wire>>
  BY DEF VenuePings, callVars, localVars
<1>2. /\ inbox \in Seq(Answers) /\ wire \in Seq(Txs) /\ \A id \in Txs : id \in Nat /\ id >= 1
      /\ m \in Answers /\ m.tx = 0
  BY LineIs DEF Answers, Ping
<1>3. \A i \in DOMAIN new : /\ i \in Nat
                            /\ \/ i \in DOMAIN inbox /\ new[i] = inbox[i]
                               \/ new[i] = m /\ \A j \in DOMAIN new : j <= i
  BY <1>2, AppendLast
<1> HIDE DEF m, new
<1>4. Pending' = Pending /\ Held' = Held /\ Current' = Current
  <2>1. InInbox' = {new[i].tx : i \in DOMAIN new} \cap Txs
    BY <1>1 DEF InInbox
  <2>2. InInbox' \subseteq InInbox
    BY <1>2, <1>3, <2>1 DEF InInbox
  <2>3. \A i \in DOMAIN inbox : i \in DOMAIN new /\ new[i] = inbox[i]
    BY <1>2, AppendLast DEF new
  <2>4. InInbox \subseteq InInbox'
    BY <2>1, <2>3 DEF InInbox
  <2>5. QED
    BY <1>1, <2>2, <2>4 DEF Pending, Held, Current
<1>5. Ordered'
  <2>1. \A i \in DOMAIN new : new[i].tx # Disconnected
    BY <1>2, <1>3 DEF AnswerInv, Ordered, Disconnected
  <2>2. \A i \in DOMAIN new, j \in DOMAIN wire : new[i].tx < wire[j]
    BY <1>2, <1>3 DEF AnswerInv, Ordered
  <2>3. \A i, j \in DOMAIN new : i < j /\ new[j].tx \in Txs => new[i].tx < new[j].tx
    BY <1>2, <1>3 DEF AnswerInv, Ordered
  <2>4. QED
    BY <1>1, <2>1, <2>2, <2>3 DEF AnswerInv, Ordered
<1>6. HeldFirst'
  BY <1>1, <1>4 DEF AnswerInv, HeldFirst
<1>7. QED
  BY <1>1, <1>4, <1>5, <1>6, AnswersShrink

\* VenueJudges: the oldest request becomes the newest answer.
LEMMA JudgeAnswers == ASSUME Types, AnswerInv, VenueJudges PROVE AnswerInv'
<1>1. PICK ok \in BOOLEAN : inbox' = Append(inbox, [tx |-> Head(wire), ok |-> ok])
  BY DEF VenueJudges
<1> DEFINE m == [tx |-> Head(wire), ok |-> ok]
           new == Append(inbox, m)
           rest == Tail(wire)
<1>2. /\ linked /\ wire # <<>> /\ wire' = rest
      /\ UNCHANGED <<nextTx, pc, response, taken, linked, outbox>>
  BY DEF VenueJudges, callVars, localVars
<1>3. /\ inbox \in Seq(Answers) /\ wire \in Seq(Txs) /\ \A id \in Txs : id \in Nat /\ id >= 1
  BY LineIs
<1>4. /\ 1 \in DOMAIN wire /\ Head(wire) = wire[1] /\ wire[1] \in Txs
      /\ \A i \in DOMAIN rest : /\ i \in Nat /\ 1 < i + 1 /\ i + 1 \in DOMAIN wire
                                /\ rest[i] = wire[i + 1]
  BY <1>2, <1>3, TailIs
<1>5. m.tx = wire[1] /\ m \in Answers
  BY <1>4 DEF Answers
<1>6. /\ \A i \in DOMAIN new : /\ i \in Nat
                               /\ \/ i \in DOMAIN inbox /\ new[i] = inbox[i]
                                  \/ new[i] = m /\ \A j \in DOMAIN new : j <= i
      /\ inbox' = new
  BY <1>1, <1>3, <1>5, AppendLast
<1> HIDE DEF m, new, rest
<1>7. Pending' \subseteq Pending /\ Held' = Held /\ Current' = Current
  <2>1. InInbox' \subseteq InInbox \cup {wire[1]}
    BY <1>5, <1>6 DEF InInbox
  <2>2. wire[1] \in Range(wire) /\ Range(rest) \subseteq Range(wire)
    BY <1>4 DEF Range
  <2>3. QED
    BY <1>2, <2>1, <2>2 DEF Pending, Held, Current
<1>8. Ordered'
  <2>1. \A i \in DOMAIN new : new[i].tx # Disconnected
    BY <1>3, <1>4, <1>5, <1>6 DEF AnswerInv, Ordered, Disconnected
  <2>2. \A i \in DOMAIN new, j \in DOMAIN rest : new[i].tx < rest[j]
    <3> SUFFICES ASSUME NEW i \in DOMAIN new, NEW j \in DOMAIN rest PROVE new[i].tx < rest[j]
      OBVIOUS
    <3>1. CASE i \in DOMAIN inbox /\ new[i] = inbox[i]
      BY <1>4, <3>1 DEF AnswerInv, Ordered
    <3>2. CASE new[i] = m
      BY <1>4, <1>5, <3>2 DEF AnswerInv, Ordered
    <3>3. QED
      BY <1>6, <3>1, <3>2
  <2>3. \A i, j \in DOMAIN new : i < j /\ new[j].tx \in Txs => new[i].tx < new[j].tx
    <3> SUFFICES ASSUME NEW i \in DOMAIN new, NEW j \in DOMAIN new, i < j, new[j].tx \in Txs
                 PROVE  new[i].tx < new[j].tx
      OBVIOUS
    <3>1. i \in DOMAIN inbox /\ new[i] = inbox[i]
      BY <1>6
    <3>2. CASE j \in DOMAIN inbox /\ new[j] = inbox[j]
      BY <3>1, <3>2 DEF AnswerInv, Ordered
    <3>3. CASE new[j] = m
      BY <1>4, <1>5, <3>1, <3>3 DEF AnswerInv, Ordered
    <3>4. QED
      BY <1>6, <3>2, <3>3
  <2>4. \A i, j \in DOMAIN rest : i < j => rest[i] < rest[j]
    BY <1>4 DEF AnswerInv, Ordered
  <2>5. QED
    BY <1>2, <1>6, <2>1, <2>2, <2>3, <2>4 DEF AnswerInv, Ordered
<1>9. HeldFirst'
  BY <1>2, <1>7 DEF AnswerInv, HeldFirst
<1>10. QED
  BY <1>2, <1>7, <1>8, <1>9, AnswersShrink

\* LinkBreaks and Restart: nothing is on its way; the call that waits is told, or gone.
\* LinkRestored: what waited goes out.
LEMMA LinkAnswers ==
    ASSUME Types, AnswerInv, LinkBreaks \/ LinkRestored \/ Restart PROVE AnswerInv'
<1>0. Range(<<>>) = {} /\ DOMAIN <<>> = {}
  BY DEF Range
<1>1. CASE LinkBreaks
  <2>1. /\ linked /\ wire' = <<>> /\ inbox' = <<>> /\ outbox' = outbox
        /\ response' = IF pc = "sent" THEN [tx |-> Disconnected, ok |-> FALSE] ELSE response
        /\ UNCHANGED <<nextTx, pc, taken>>
    BY <1>1 DEF LinkBreaks, callVars
  <2>2. outbox = <<>>
    BY <2>1 DEF Types, NonceInv, OneQueue
  <2>3. Pending' = {}
    BY <1>0, <2>1, <2>2 DEF Pending, InInbox
  <2>4. Held' = {}
    <3>1. Disconnected \notin Txs
      BY TradingAssumption DEF Disconnected, Txs
    <3>2. pc = "sent" => response'.tx = Disconnected
      BY <2>1
    <3>3. QED
      BY <2>1, <3>1, <3>2 DEF Held
  <2>5. Ordered' /\ HeldFirst'
    BY <1>0, <2>1, <2>2, <2>3, <2>4 DEF Ordered, HeldFirst
  <2>6. QED
    BY <2>1, <2>3, <2>4, <2>5, AnswersShrink
<1>2. CASE LinkRestored
  <2>1. /\ ~linked /\ wire' = outbox /\ outbox' = <<>>
        /\ UNCHANGED <<nextTx, pc, taken, response, inbox>>
    BY <1>2 DEF LinkRestored, callVars, localVars
  <2>2. wire = <<>> /\ inbox = <<>>
    BY <2>1 DEF Types, NonceInv, OneQueue, AnswerInv, Ordered
  <2>3. Pending' = Pending /\ Held' = Held /\ Current' = Current
    BY <1>0, <2>1, <2>2 DEF Pending, InInbox, Held, Current
  <2>4. Ordered'
    BY <1>0, <2>1, <2>2 DEF AnswerInv, Ordered
  <2>5. HeldFirst'
    BY <2>1, <2>3 DEF AnswerInv, HeldFirst
  <2>6. QED
    BY <2>1, <2>3, <2>4, <2>5, AnswersShrink
<1>3. CASE Restart
  <2>1. /\ pc' = "idle" /\ wire' = <<>> /\ inbox' = <<>> /\ outbox' = <<>>
        /\ UNCHANGED <<nextTx, taken>>
    BY <1>3 DEF Restart, callVars
  <2>2. Pending' = {} /\ Held' = {} /\ Unsigned' \subseteq Unsigned
    BY <1>0, <2>1 DEF Pending, InInbox, Held, Unsigned
  <2>3. Ordered' /\ HeldFirst' /\ OwnOrGivenUp'
    BY <1>0, <2>1, <2>2 DEF Ordered, HeldFirst, OwnOrGivenUp
  <2>4. NotYet'
    BY <2>1, <2>2 DEF AnswerInv, NotYet
  <2>5. TakenOnce'
    BY <2>1, <2>2 DEF AnswerInv, TakenOnce, GivenUp
  <2>6. QED
    BY <2>3, <2>4, <2>5 DEF AnswerInv
<1>4. QED
  BY <1>1, <1>2, <1>3

LEMMA AnswersInit == ASSUME Init PROVE AnswerInv
<1>1. /\ nextTx = 1 /\ pc = "idle" /\ taken = [id \in Txs |-> None]
      /\ inbox = <<>> /\ wire = <<>> /\ outbox = <<>>
  BY DEF Init
<1>2. Range(<<>>) = {} /\ DOMAIN <<>> = {}
  BY DEF Range
<1>3. Pending = {} /\ Held = {}
  BY <1>1, <1>2 DEF Pending, InInbox, Held
<1>4. \A id \in Txs : taken[id] = None /\ None \notin Txs
  BY <1>1, TradingAssumption DEF Txs
<1>5. Ordered /\ OwnOrGivenUp /\ HeldFirst
  BY <1>1, <1>2, <1>3 DEF Ordered, OwnOrGivenUp, HeldFirst
<1>6. NotYet /\ TakenOnce
  BY <1>1, <1>4 DEF NotYet, TakenOnce, Unsigned
<1>7. QED
  BY <1>5, <1>6 DEF AnswerInv

LEMMA AnswersStep == ASSUME Types, VenueInv, AnswerInv, Next PROVE AnswerInv'
<1>1. CASE BeginHedge \/ BeginLimit \/ BeginCancel
  <2>1. PICK call : Begin(call)
    BY <1>1 DEF BeginHedge, BeginLimit, BeginCancel, BeginOther
  <2>2. UNCHANGED <<taken, linked, outbox, wire, inbox>>
    BY <1>1 DEF BeginHedge, BeginLimit, BeginCancel, BeginOther, lineVars
  <2>3. pc = "idle" /\ pc' = "based" /\ nextTx' = nextTx + 1 /\ nextTx \in Nat
    BY <2>1, LineIs DEF Begin
  <2>4. Unsigned' \subseteq Unsigned
    BY <2>3, LineIs DEF Unsigned, Current
  <2>5. QED
    BY <2>2, <2>3, <2>4, CallerMoves
<1>2. CASE \/ SignFails \/ HedgeConfirmedByFeed \/ HedgeQueried \/ OrderConfirmed \/ OrderNotSeen
  <2>1. UNCHANGED <<nextTx, taken, linked, outbox, wire, inbox>>
    BY <1>2 DEF SignFails, HedgeConfirmedByFeed, HedgeQueried, OrderConfirmed, OrderNotSeen, lineVars
  <2>2. pc \in {"based", "confirming"} /\ pc' = "idle"
    BY <1>2 DEF SignFails, HedgeConfirmedByFeed, HedgeQueried, OrderConfirmed, OrderNotSeen, Return
  <2>3. Unsigned' \subseteq Unsigned
    BY <2>1, <2>2 DEF Unsigned
  <2>4. QED
    BY <2>1, <2>2, <2>3, CallerMoves
<1>3. CASE \/ CreateAuthToken \/ PositionArrives \/ NewsArrives \/ FeedBreaks \/ FeedRestored
  <2>1. UNCHANGED <<nextTx, pc, response, taken, linked, outbox, wire, inbox>>
    BY <1>3 DEF CreateAuthToken, PositionArrives, NewsArrives, FeedBreaks, FeedRestored,
                callVars, localVars, lineVars
  <2>2. QED
    BY <2>1, AnswersUntouched
<1>4. CASE \/ \E tx \in accepted : HedgeExecutes(tx) \/ OrderEnters(tx) \/ CancelExecutes(tx)
           \/ \E id \in Txs : OrderFills(id)
  <2>1. UNCHANGED <<nextTx, pc, response, taken, linked, outbox, wire, inbox>>
    BY <1>4 DEF HedgeExecutes, OrderEnters, CancelExecutes, OrderFills, callVars, localVars, lineVars
  <2>2. QED
    BY <2>1, AnswersUntouched
<1>5. CASE Submit
  BY <1>5, SubmitAnswers
<1>6. CASE SendTimesOut
  BY <1>6, TimeOutAnswers
<1>7. CASE SendReturns
  BY <1>7, ReturnAnswers
<1>8. CASE OnMessage
  BY <1>8, MessageAnswers
<1>9. CASE VenuePings
  BY <1>9, PingAnswers
<1>10. CASE VenueJudges
  BY <1>10, JudgeAnswers
<1>11. QED
  BY <1>1, <1>2, <1>3, <1>4, <1>5, <1>6, <1>7, <1>8, <1>9, <1>10, LinkAnswers
  DEF Next, Caller, Venue

----------------------------------------------------------------------------
(* What the venue does with a call, once. *)

\* Steps that leave the venue alone and sign nothing: the caller may begin, go on or end.
LEMMA VenueRests ==
    ASSUME VenueInv, UNCHANGED <<accepted, orders, executed, nonce, venueNext>>,
           Unsigned' \subseteq Unsigned,
           \A id \in Unsigned' : ack'[id] = ack[id],
           \A id \in Txs : id < nextTx' =>
               calls'[id] \in Calls /\ (calls'[id].kind = "cancel" => calls'[id].target \in Txs)
    PROVE  VenueInv'
  BY DEF VenueInv

\* Begin: a new call is known by its number.
LEMMA BeginVenue ==
    ASSUME Types, VenueInv, BeginHedge \/ BeginLimit \/ BeginCancel PROVE VenueInv'
<1>1. PICK call \in Calls : Begin(call) /\ (call.kind = "cancel" => call.target \in Txs)
  <2>1. CASE BeginHedge
    <3>1. PICK size \in Sizes, sign \in {1, -1} :
              Begin([kind |-> "ioc", size |-> size, sign |-> sign, target |-> None])
      BY <2>1 DEF BeginHedge
    <3>2. QED
      BY <3>1 DEF Calls
  <2>2. CASE BeginLimit
    <3>1. PICK size \in Sizes, sign \in {1, -1} :
              Begin([kind |-> "limit", size |-> size, sign |-> sign, target |-> None])
      BY <2>2 DEF BeginLimit, BeginOther
    <3>2. QED
      BY <3>1 DEF Calls
  <2>3. CASE BeginCancel
    <3>1. PICK size \in Sizes, id \in Txs :
              Begin([kind |-> "cancel", size |-> size, sign |-> 1, target |-> id])
      BY <2>3 DEF BeginCancel, BeginOther
    <3>2. QED
      BY <3>1 DEF Calls
  <2>4. QED
    BY <2>1, <2>2, <2>3
<1>2. UNCHANGED <<accepted, orders, executed, ack, nonce, venueNext>>
  BY DEF BeginHedge, BeginLimit, BeginCancel, BeginOther, venueVars
<1>3. /\ pc = "idle" /\ pc' = "based" /\ nextTx \in Txs /\ nextTx' = nextTx + 1
      /\ calls' = [calls EXCEPT ![nextTx] = call] /\ nextTx \in Nat
  BY <1>1, LineIs DEF Begin
<1>4. Unsigned' \subseteq Unsigned
  <2>1. pc = "idle" /\ pc' = "based" /\ nextTx' = nextTx + 1 /\ nextTx \in Nat
    BY <1>3
  <2>2. QED
    BY <2>1, LineIs DEF Unsigned, Current
<1>5. \A id \in Txs : id < nextTx' =>
          calls'[id] \in Calls /\ (calls'[id].kind = "cancel" => calls'[id].target \in Txs)
  <2> TAKE id \in Txs
  <2>1. id \in Nat /\ calls \in [Txs -> Calls \cup {None}]
    BY LineIs DEF Types, CallTypes
  <2>2. CASE id = nextTx
    BY <1>1, <1>3, <2>1, <2>2
  <2>3. CASE id # nextTx
    <3>1. calls'[id] = calls[id] /\ (id < nextTx' => id < nextTx)
      BY <1>3, <2>1, <2>3
    <3>2. QED
      BY <3>1 DEF VenueInv
  <2>4. QED
    BY <2>2, <2>3
<1>6. QED
  BY <1>2, <1>4, <1>5, VenueRests

\* SignFails and Submit: the call that signs is new to the venue.
LEMMA SignVenue == ASSUME Types, VenueInv, SignFails \/ Submit PROVE VenueInv'
<1>1. /\ pc = "based" /\ pc' # "based" /\ TakeNonce
      /\ UNCHANGED <<nextTx, calls, accepted, orders, executed, venueNext>>
      /\ \A id \in Txs \ {Current} : ack'[id] = ack[id]
  BY DEF SignFails, Submit, Return, callVars, venueVars, Types, CallTypes
<1>2. Current \in Txs /\ Current < nextTx /\ Current \in Unsigned /\ nextTx \in Nat
  BY <1>1, CurrentIs, LineIs DEF Busy, Unsigned
<1>3. \A id \in Txs \ {Current} : nonce'[id] = nonce[id]
  BY <1>1 DEF TakeNonce, Types, NonceInv, NonceTypeOK
<1>4. Unsigned' \subseteq Unsigned \ {Current}
  BY <1>1, <1>2 DEF Unsigned, Current
<1>5. Current \notin accepted /\ orders[Current] = None /\ executed[Current] = None
  BY <1>2 DEF VenueInv
<1>6. accepted \subseteq Txs /\ Unsigned \subseteq Txs
  BY DEF Types, LineTypes, Unsigned
<1>7. (\A id \in Unsigned : id \notin accepted /\ orders[id] = None /\ executed[id] = None
                            /\ ack[id] = None)'
  BY <1>1, <1>4, <1>6 DEF VenueInv
<1>8. (\A id \in accepted : nonce[id] \in Nat /\ nonce[id] < venueNext
                            /\ orders[id] = None /\ executed[id] = None)'
  BY <1>1, <1>3, <1>5, <1>6 DEF VenueInv
<1>9. (\A id \in Txs : orders[id] # None \/ executed[id] # None =>
           nonce[id] \in Nat /\ nonce[id] < venueNext)'
  BY <1>1, <1>3, <1>5 DEF VenueInv
<1>10. (\A id \in Txs : id < nextTx =>
           calls[id] \in Calls /\ (calls[id].kind = "cancel" => calls[id].target \in Txs))'
  BY <1>1 DEF VenueInv
<1>11. QED
  BY <1>7, <1>8, <1>9, <1>10 DEF VenueInv

\* A request the venue accepts was not accepted before.
LEMMA AcceptVenue ==
    ASSUME Types, VenueInv, wire # <<>>, Judge(Head(wire), TRUE),
           UNCHANGED <<nextTx, calls, ack, nonce, orders, executed>>, Unsigned' \subseteq Unsigned
    PROVE  VenueInv'
<1> DEFINE tx == Head(wire)
<1>1. /\ tx \in Txs /\ nonce[tx] \in Nat /\ venueNext <= nonce[tx]
      /\ venueNext \in Nat
  BY OldestFirst DEF Types, NonceInv, NonceTypeOK
<1>2. tx \notin Unsigned
  <2>1. wire \in Seq(Txs) /\ tx = wire[1] /\ 1 \in DOMAIN wire
    BY LineIs, TailIs
  <2>2. wire[1] < nextTx /\ (pc = "based" => wire[1] # Current)
    BY <2>1 DEF Types, NonceInv, InOrder
  <2>3. QED
    BY <1>1, <2>1, <2>2, LineIs DEF Unsigned
<1>3. venueNext' = nonce[tx] + 1 /\ accepted' = accepted \cup {tx}
  BY DEF Judge
<1> HIDE DEF tx
<1>4. orders[tx] = None /\ executed[tx] = None
  BY <1>1 DEF VenueInv
<1>5. \A id \in Txs : nonce[id] \in Nat /\ nonce[id] < venueNext => nonce[id] < venueNext'
  BY <1>1, <1>3
<1>6. accepted \subseteq Txs /\ nonce[tx] < venueNext'
  BY <1>1, <1>3 DEF Types, LineTypes
<1>7. (\A id \in Unsigned : id \notin accepted /\ orders[id] = None /\ executed[id] = None
                            /\ ack[id] = None)'
  BY <1>2, <1>3 DEF VenueInv
<1>8. (\A id \in accepted : nonce[id] \in Nat /\ nonce[id] < venueNext
                            /\ orders[id] = None /\ executed[id] = None)'
  BY <1>1, <1>3, <1>4, <1>5, <1>6 DEF VenueInv
<1>9. (\A id \in Txs : orders[id] # None \/ executed[id] # None =>
           nonce[id] \in Nat /\ nonce[id] < venueNext)'
  BY <1>5 DEF VenueInv
<1>10. (\A id \in Txs : id < nextTx =>
           calls[id] \in Calls /\ (calls[id].kind = "cancel" => calls[id].target \in Txs))'
  BY DEF VenueInv
<1>11. QED
  BY <1>7, <1>8, <1>9, <1>10 DEF VenueInv

\* An execution is of an accepted call, which is gone from the accepted ones then; a fill or
\* a cancel is of an order that was executed.
LEMMA ExecuteVenue ==
    ASSUME Types, VenueInv, UNCHANGED <<nextTx, pc, calls, ack, nonce, venueNext>>,
           accepted' \subseteq accepted,
           \A id \in Txs : orders'[id] # orders[id] \/ executed'[id] # executed[id] =>
               \/ id \in accepted /\ id \notin accepted'
               \/ orders[id] # None
    PROVE  VenueInv'
<1>1. Unsigned' = Unsigned /\ Unsigned \subseteq Txs /\ accepted \subseteq Txs
  BY DEF Unsigned, Current, Types, LineTypes
<1>2. \A id \in Txs : orders'[id] # orders[id] \/ executed'[id] # executed[id] =>
          id \notin Unsigned /\ id \notin accepted' /\ nonce[id] \in Nat /\ nonce[id] < venueNext
  BY <1>1 DEF VenueInv
<1>3. QED
  BY <1>1, <1>2 DEF VenueInv

LEMMA VenueStep == ASSUME Types, VenueInv, Next PROVE VenueInv'
<1>1. CASE BeginHedge \/ BeginLimit \/ BeginCancel
  BY <1>1, BeginVenue
<1>2. CASE SignFails \/ Submit
  BY <1>2, SignVenue
<1>3. CASE SendTimesOut \/ SendReturns \/ HedgeConfirmedByFeed \/ HedgeQueried
           \/ OrderConfirmed \/ OrderNotSeen
  <2>1. UNCHANGED <<nextTx, calls, accepted, orders, executed, nonce, venueNext>>
    BY <1>3 DEF SendTimesOut, SendReturns, HedgeConfirmedByFeed, HedgeQueried, OrderConfirmed,
                OrderNotSeen, venueVars
  <2>2. pc \in {"sent", "confirming"} /\ pc' \in {"idle", "confirming"}
    BY <1>3 DEF SendTimesOut, SendReturns, HedgeConfirmedByFeed, HedgeQueried, OrderConfirmed,
                OrderNotSeen, Return
  <2>3. \A id \in Txs \ {Current} : ack'[id] = ack[id]
    BY <1>3 DEF SendTimesOut, SendReturns, HedgeConfirmedByFeed, HedgeQueried, OrderConfirmed,
                OrderNotSeen, Return, Types, CallTypes
  <2>4. Unsigned' \subseteq Unsigned /\ Current \notin Unsigned' /\ Unsigned' \subseteq Txs
    BY <2>1, <2>2, CurrentIs, LineIs DEF Unsigned, Busy
  <2>5. QED
    BY <2>1, <2>3, <2>4, VenueRests DEF VenueInv
<1>4. CASE VenueJudges \/ LinkBreaks \/ Restart
  <2>1. UNCHANGED <<nextTx, calls, ack, nonce, orders, executed>>
    BY <1>4 DEF VenueJudges, LinkBreaks, Restart, callVars, localVars
  <2>2. Unsigned' \subseteq Unsigned
    <3>1. pc' = pc \/ pc' = "idle"
      BY <1>4 DEF VenueJudges, LinkBreaks, Restart, localVars
    <3>2. QED
      BY <2>1, <3>1 DEF Unsigned, Current
  <2>3. \/ wire # <<>> /\ Judge(Head(wire), TRUE)
        \/ UNCHANGED <<venueNext, accepted>>
    BY <1>4 DEF VenueJudges, LinkBreaks, Restart, Judge
  <2>4. CASE wire # <<>> /\ Judge(Head(wire), TRUE)
    BY <2>1, <2>2, <2>4, AcceptVenue
  <2>5. CASE UNCHANGED <<venueNext, accepted>>
    BY <2>1, <2>2, <2>5, VenueRests DEF VenueInv
  <2>6. QED
    BY <2>3, <2>4, <2>5
<1>5. CASE \E tx \in accepted : HedgeExecutes(tx) \/ OrderEnters(tx) \/ CancelExecutes(tx)
  <2>1. PICK tx \in accepted : HedgeExecutes(tx) \/ OrderEnters(tx) \/ CancelExecutes(tx)
    BY <1>5
  <2>2. /\ UNCHANGED <<nextTx, pc, calls, ack, nonce, venueNext>>
        /\ accepted' = accepted \ {tx}
    BY <2>1 DEF HedgeExecutes, OrderEnters, CancelExecutes, Executes, callVars, localVars
  <2>3. orders \in [Txs -> OrderStates \cup {None}] /\ executed \in [Txs -> Nat \cup {None}]
    BY DEF Types, AccountTypes
  <2>4. \A id \in Txs : orders'[id] # orders[id] \/ executed'[id] # executed[id] =>
            id = tx \/ orders[id] = "open"
    BY <2>1, <2>3 DEF HedgeExecutes, OrderEnters, CancelExecutes, OrderBecomes
  <2>5. QED
    BY <2>2, <2>4, ExecuteVenue, TradingAssumption DEF OrderStates
<1>6. CASE \E id \in Txs : OrderFills(id)
  <2>1. PICK id \in Txs : OrderFills(id)
    BY <1>6
  <2>2. UNCHANGED <<nextTx, pc, calls, ack, nonce, venueNext, accepted, executed>>
    BY <2>1 DEF OrderFills, callVars, localVars
  <2>3. \A k \in Txs : orders'[k] # orders[k] => orders[k] = "open"
    BY <2>1 DEF OrderFills, OrderBecomes, Types, AccountTypes
  <2>4. QED
    BY <2>2, <2>3, ExecuteVenue, TradingAssumption DEF OrderStates
<1>7. CASE \/ CreateAuthToken \/ VenuePings \/ OnMessage \/ LinkRestored \/ PositionArrives
           \/ NewsArrives \/ FeedBreaks \/ FeedRestored
  <2>1. UNCHANGED <<nextTx, pc, calls, ack, nonce, venueNext, accepted, executed, orders>>
    BY <1>7 DEF CreateAuthToken, VenuePings, OnMessage, LinkRestored, PositionArrives, NewsArrives,
                FeedBreaks, FeedRestored, callVars, localVars, venueVars
  <2>2. Unsigned' = Unsigned
    BY <2>1 DEF Unsigned, Current
  <2>3. QED
    BY <2>1, <2>2, VenueRests DEF VenueInv
<1>8. QED
  BY <1>1, <1>2, <1>3, <1>4, <1>5, <1>6, <1>7 DEF Next, Caller, Venue

----------------------------------------------------------------------------
(* Orders and cancels that were confirmed. *)

\* An order goes forward only: unknown, open, filled or cancelled.
Forward ==
    \A id \in Txs :
        \/ orders'[id] = orders[id]
        \/ orders[id] = None /\ orders'[id] \in OrderStates
        \/ orders[id] = "open" /\ orders'[id] \in {"canceled", "filled"}

LEMMA ForwardKeeps ==
    ASSUME Forward
    PROVE  \A id \in Txs : /\ orders[id] # None => orders'[id] # None
                           /\ orders[id] = "canceled" => orders'[id] = "canceled"
                           /\ orders[id] \notin {"open", None} => orders'[id] \notin {"open", None}
<1>1. None \notin OrderStates
  BY TradingAssumption
<1>2. QED
  BY <1>1 DEF Forward, OrderStates

\* The venue's steps keep what was seen and reported.
LEMMA ForwardReported ==
    ASSUME Types, VenueInv, Seen, Reported, Forward, UNCHANGED <<nextTx, calls, ack, seen>>
    PROVE  Seen' /\ Reported'
<1>1. Seen'
  BY ForwardKeeps DEF Seen
<1>2. \A id \in Txs : id < nextTx /\ calls[id].kind = "cancel" => calls[id].target \in Txs
  BY DEF VenueInv
<1>3. \A id \in Txs : ack[id] # None => id < nextTx
  <2> TAKE id \in Txs
  <2>1. id \in Unsigned => ack[id] = None
    BY DEF VenueInv
  <2>2. id \notin Unsigned => id < nextTx
    BY LineIs DEF Unsigned
  <2>3. QED
    BY <2>1, <2>2
<1>4. Reported'
  BY <1>2, <1>3, ForwardKeeps DEF Reported
<1>5. QED
  BY <1>1, <1>4

\* The order news is about orders.
LEMMA NewsAre ==
    ASSUME Types
    PROVE  /\ \A i \in DOMAIN news : news[i].id \in Txs /\ news[i].state \in OrderStates
           /\ news # <<>> =>
                  /\ 1 \in DOMAIN news /\ Head(news) = news[1]
                  /\ \A i \in DOMAIN Tail(news) : i + 1 \in DOMAIN news /\ Tail(news)[i] = news[i + 1]
<1> DEFINE R == [id : Txs, state : OrderStates]
<1>1. news \in Seq(R) /\ \A r \in R : r.id \in Txs /\ r.state \in OrderStates
  BY DEF Types, AccountTypes
<1> HIDE DEF R
<1>2. \A i \in DOMAIN news : news[i] \in R
  BY <1>1
<1>3. QED
  BY <1>1, <1>2, TailIs

\* An order that changes at the venue is shown as it is then.
LEMMA BecomesShown ==
    ASSUME Types, Shown, Forward, NEW id \in Txs, NEW state \in OrderStates, OrderBecomes(id, state)
    PROVE  Shown'
<1> DEFINE m == [id |-> id, state |-> state]
<1>1. /\ orders' = [orders EXCEPT ![id] = state] /\ orders \in [Txs -> OrderStates \cup {None}]
      /\ news' = news \/ news' = Append(news, m)
      /\ news \in Seq([id : Txs, state : OrderStates])
      /\ m \in [id : Txs, state : OrderStates] /\ m.id = id /\ m.state = state
  BY OrderTypes DEF Types, AccountTypes
<1> HIDE DEF m
<1>2. orders'[id] = state /\ state # None
  BY <1>1, TradingAssumption
<1>3. \A i \in DOMAIN news :
          /\ news[i].id \in Txs
          /\ orders'[news[i].id] # None
          /\ news[i].state = "canceled" => orders'[news[i].id] = "canceled"
  BY NewsAre, ForwardKeeps DEF Shown
<1>4. CASE news' = news
  BY <1>3, <1>4 DEF Shown
<1>5. CASE news' = Append(news, m)
  <2>1. \A i \in DOMAIN news' : (i \in DOMAIN news /\ news'[i] = news[i]) \/ news'[i] = m
    BY <1>1, <1>5, AppendIs
  <2>2. QED
    BY <1>1, <1>2, <1>3, <2>1 DEF Shown
<1>6. QED
  BY <1>1, <1>4, <1>5

\* The executions of orders and cancels, and the fills.
LEMMA VenueSeen ==
    ASSUME Types, VenueInv, SeenInv,
           \/ \E tx \in accepted : HedgeExecutes(tx) \/ OrderEnters(tx) \/ CancelExecutes(tx)
           \/ \E id \in Txs : OrderFills(id)
    PROVE  SeenInv'
<1>0. /\ orders \in [Txs -> OrderStates \cup {None}] /\ accepted \subseteq Txs
      /\ UNCHANGED <<nextTx, calls, ack, seen>>
  BY DEF Types, AccountTypes, LineTypes, HedgeExecutes, OrderEnters, CancelExecutes, OrderFills,
         callVars
<1>1. ASSUME NEW id \in Txs, NEW state \in OrderStates, OrderBecomes(id, state),
             \/ orders[id] = None
             \/ orders[id] = "open" /\ state \in {"canceled", "filled"}
      PROVE  SeenInv'
  <2>1. Forward
    <3>1. orders' = [orders EXCEPT ![id] = state]
      BY <1>1 DEF OrderBecomes
    <3>2. QED
      BY <1>0, <1>1, <3>1 DEF Forward
  <2>2. Shown'
    BY <1>1, <2>1, BecomesShown DEF SeenInv
  <2>3. QED
    BY <1>0, <2>1, <2>2, ForwardReported DEF SeenInv
<1>2. ASSUME UNCHANGED <<orders, news>> PROVE SeenInv'
  <2>1. Forward
    BY <1>2 DEF Forward
  <2>2. Shown'
    BY <1>2 DEF SeenInv, Shown
  <2>3. QED
    BY <1>0, <2>1, <2>2, ForwardReported DEF SeenInv
<1>3. ASSUME NEW tx \in accepted, HedgeExecutes(tx) PROVE SeenInv'
  BY <1>2, <1>3 DEF HedgeExecutes
<1>4. ASSUME NEW tx \in accepted, OrderEnters(tx) PROVE SeenInv'
  <2>1. tx \in Txs /\ orders[tx] = None
    BY <1>0 DEF VenueInv
  <2>2. PICK state \in {"open", "canceled"} : OrderBecomes(tx, state)
    BY <1>4 DEF OrderEnters
  <2>3. QED
    BY <1>1, <2>1, <2>2 DEF OrderStates
<1>5. ASSUME NEW tx \in accepted, CancelExecutes(tx) PROVE SeenInv'
  <2>1. calls[tx].target \in Txs
    BY <1>0, <1>5, CallKnown DEF CancelExecutes
  <2>2. CASE orders[calls[tx].target] = "open" /\ OrderBecomes(calls[tx].target, "canceled")
    BY <1>1, <2>1, <2>2 DEF OrderStates
  <2>3. QED
    BY <1>2, <1>5, <2>2 DEF CancelExecutes
<1>6. ASSUME NEW id \in Txs, OrderFills(id) PROVE SeenInv'
  BY <1>1, <1>6 DEF OrderFills, OrderStates
<1>7. QED
  BY <1>3, <1>4, <1>5, <1>6

\* NewsArrives, FeedBreaks, FeedRestored and Restart: what is seen was shown, and what is
\* shown first is open.
LEMMA FeedSeen ==
    ASSUME Types, VenueInv, SeenInv, NewsArrives \/ FeedBreaks \/ FeedRestored \/ Restart
    PROVE  SeenInv'
<1>0. UNCHANGED <<nextTx, calls, ack, orders>>
  BY DEF NewsArrives, FeedBreaks, FeedRestored, Restart, callVars, venueVars
<1>1. Reported'
  BY <1>0 DEF SeenInv, Reported
<1>2. CASE NewsArrives
  <2>1. /\ news # <<>> /\ news' = Tail(news)
        /\ seen' = [seen EXCEPT ![Head(news).id] = Head(news).state]
    BY <1>2 DEF NewsArrives
  <2>2. /\ 1 \in DOMAIN news /\ Head(news) = news[1] /\ news[1].id \in Txs
        /\ \A i \in DOMAIN Tail(news) : i + 1 \in DOMAIN news /\ Tail(news)[i] = news[i + 1]
    BY <2>1, NewsAre
  <2>3. Shown'
    BY <1>0, <2>1, <2>2 DEF SeenInv, Shown
  <2>4. Seen'
    <3>1. orders[news[1].id] # None /\ (news[1].state = "canceled" => orders[news[1].id] = "canceled")
      BY <2>2 DEF SeenInv, Shown
    <3>2. seen \in [Txs -> OrderStates \cup {None}]
      BY DEF Types, AccountTypes
    <3>3. \A id \in Txs : seen'[id] = seen[id] \/ (id = news[1].id /\ seen'[id] = news[1].state)
      BY <2>1, <2>2, <3>2
    <3>4. QED
      BY <1>0, <3>1, <3>3 DEF SeenInv, Seen
  <2>5. QED
    BY <1>1, <2>3, <2>4 DEF SeenInv
<1>3. CASE FeedBreaks \/ FeedRestored \/ Restart
  <2>1. /\ news' = <<>> \/ news' = OpenOrders
        /\ seen' = seen \/ seen' = [id \in Txs |-> None]
    BY <1>3 DEF FeedBreaks, FeedRestored, Restart
  <2>2. Shown'
    <3>1. CASE news' = <<>>
      BY <3>1 DEF Shown
    <3>2. CASE news' = OpenOrders
      <4>1. \A i \in DOMAIN OpenOrders :
                OpenOrders[i].state = "open" /\ orders[OpenOrders[i].id] = "open"
        BY OpenOrdersAre DEF OpenIds
      <4>2. "open" # None
        BY TradingAssumption DEF OrderStates
      <4>3. QED
        BY <1>0, <3>2, <4>1, <4>2 DEF Shown
    <3>3. QED
      BY <2>1, <3>1, <3>2
  <2>3. Seen'
    <3>1. None # "canceled"
      BY TradingAssumption DEF OrderStates
    <3>2. QED
      BY <1>0, <2>1, <3>1 DEF SeenInv, Seen
  <2>4. QED
    BY <1>1, <2>2, <2>3 DEF SeenInv
<1>4. QED
  BY <1>2, <1>3

\* Begin: the order a cancel is for was reported as resting.
LEMMA BeginSeen ==
    ASSUME Types, VenueInv, SeenInv, BeginHedge \/ BeginLimit \/ BeginCancel PROVE SeenInv'
<1>1. PICK call : Begin(call) /\ (call.kind = "cancel" => orders[call.target] # None)
  <2>1. CASE BeginHedge
    BY <2>1 DEF BeginHedge
  <2>2. CASE BeginLimit
    BY <2>2 DEF BeginLimit, BeginOther
  <2>3. CASE BeginCancel
    <3>1. PICK id \in Txs : /\ ack[id] # None /\ calls[id].kind = "limit" /\ ack[id].ok
                            /\ BeginOther("cancel", 1, id)
      BY <2>3 DEF BeginCancel
    <3>2. orders[id] # None
      BY <3>1 DEF SeenInv, Reported
    <3>3. QED
      BY <3>1, <3>2 DEF BeginOther
  <2>4. QED
    BY <2>1, <2>2, <2>3
<1>2. UNCHANGED <<orders, ack, seen, news>>
  BY DEF BeginHedge, BeginLimit, BeginCancel, BeginOther, venueVars, feedVars
<1>3. /\ nextTx \in Txs /\ nextTx' = nextTx + 1 /\ calls' = [calls EXCEPT ![nextTx] = call]
      /\ calls \in [Txs -> Calls \cup {None}] /\ nextTx \in Nat
      /\ \A id \in Txs : id \in Nat
  BY <1>1, LineIs DEF Begin, Types, CallTypes
<1>4. ack[nextTx] = None
  <2>1. nextTx \in Unsigned
    BY <1>3 DEF Unsigned
  <2>2. QED
    BY <2>1 DEF VenueInv
<1>5. /\ \A id \in Txs \ {nextTx} : calls'[id] = calls[id] /\ (id < nextTx' => id < nextTx)
      /\ calls'[nextTx] = call
  BY <1>3
<1>6. Reported'
  <2>1. (\A id \in Txs : ack[id] # None /\ ack[id].ok =>
           /\ calls[id].kind = "limit" => orders[id] # None
           /\ calls[id].kind = "cancel" => orders[calls[id].target] \notin {"open", None})'
    BY <1>2, <1>4, <1>5 DEF SeenInv, Reported
  <2>2. (\A id \in Txs : id < nextTx /\ calls[id].kind = "cancel" =>
           orders[calls[id].target] # None)'
    BY <1>1, <1>2, <1>5 DEF SeenInv, Reported
  <2>3. QED
    BY <2>1, <2>2 DEF Reported
<1>7. Shown' /\ Seen'
  BY <1>2 DEF SeenInv, Shown, Seen
<1>8. QED
  BY <1>6, <1>7 DEF SeenInv

\* The caller's steps: only OrderConfirmed reports an order or a cancel as done.
LEMMA CallerSeen == ASSUME Types, VenueInv, SeenInv, Caller PROVE SeenInv'
<1>1. UNCHANGED <<nextTx, calls, orders, seen, news>>
  BY DEF Caller, SignFails, Submit, SendTimesOut, SendReturns, HedgeConfirmedByFeed, HedgeQueried,
         OrderConfirmed, OrderNotSeen, callVars, venueVars, feedVars
<1>2. Shown' /\ Seen'
  BY <1>1 DEF SeenInv, Shown, Seen
<1>3. ack \in [Txs -> Acks \cup {None}] /\ Busy
  BY DEF Types, CallTypes, Busy, Caller, SignFails, Submit, SendTimesOut, SendReturns,
         HedgeConfirmedByFeed, HedgeQueried, OrderConfirmed, OrderNotSeen
<1>4. Current \in Txs
  BY <1>3, CurrentIs
<1>5. \/ ack' = ack
      \/ \E r : /\ ack' = [ack EXCEPT ![Current] = r]
                /\ \/ ~r.ok
                   \/ Call.kind = "ioc"
                   \/ Call.kind # "ioc" /\ SeenAsWanted
  <2>1. CASE SignFails \/ SendTimesOut \/ OrderNotSeen
    <3>1. ack' = [ack EXCEPT ![Current] = Failed] /\ ~Failed.ok
      BY <2>1 DEF SignFails, SendTimesOut, OrderNotSeen, Return, Failed
    <3>2. QED
      BY <3>1
  <2>2. CASE SendReturns
    <3>1. \/ ack' = ack
          \/ ack' = [ack EXCEPT ![Current] = [Failed EXCEPT !.clean = clean']]
      BY <2>2 DEF SendReturns, Return
    <3>2. ~[Failed EXCEPT !.clean = clean'].ok
      BY DEF Failed
    <3>3. QED
      BY <3>1, <3>2
  <2>3. CASE Submit
    BY <2>3 DEF Submit, callVars
  <2>4. CASE HedgeConfirmedByFeed \/ HedgeQueried
    BY <2>4 DEF HedgeConfirmedByFeed, HedgeQueried, Return
  <2>5. CASE OrderConfirmed
    BY <2>5 DEF OrderConfirmed, Return
  <2>6. QED
    BY <2>1, <2>2, <2>3, <2>4, <2>5 DEF Caller
<1>6. CASE ack' = ack
  BY <1>1, <1>2, <1>6 DEF SeenInv, Reported
<1>7. ASSUME NEW r, ack' = [ack EXCEPT ![Current] = r],
             \/ ~r.ok
             \/ Call.kind = "ioc"
             \/ Call.kind # "ioc" /\ SeenAsWanted
      PROVE  SeenInv'
  <2>1. ack'[Current] = r /\ \A id \in Txs \ {Current} : ack'[id] = ack[id]
    BY <1>3, <1>4, <1>7
  <2>2. ASSUME r.ok
        PROVE  /\ Call.kind = "limit" => orders[Current] # None
               /\ Call.kind = "cancel" => orders[Call.target] \notin {"open", None}
    <3>1. CASE Call.kind = "ioc"
      BY <3>1
    <3>2. CASE Call.kind = "limit" /\ seen[Current] = "open"
      BY <1>4, <3>2, TradingAssumption DEF SeenInv, Seen, OrderStates
    <3>3. CASE Call.kind = "cancel" /\ seen[Call.target] = "canceled"
      <4>1. Call.target \in Txs
        BY <1>3, <3>3, CurrentIs
      <4>2. orders[Call.target] = "canceled" /\ None # "canceled"
        BY <3>3, <4>1, TradingAssumption DEF SeenInv, Seen, OrderStates
      <4>3. QED
        BY <3>3, <4>2
    <3>4. QED
      BY <1>7, <2>2, <3>1, <3>2, <3>3 DEF SeenAsWanted
  <2>3. Reported'
    BY <1>1, <2>1, <2>2 DEF SeenInv, Reported, Call
  <2>4. QED
    BY <1>2, <2>3 DEF SeenInv
<1>8. QED
  BY <1>5, <1>6, <1>7

LEMMA SeenStep == ASSUME Types, VenueInv, SeenInv, Next PROVE SeenInv'
<1>1. CASE \/ CreateAuthToken \/ VenuePings \/ VenueJudges \/ OnMessage \/ LinkBreaks
           \/ LinkRestored \/ PositionArrives
  <2>1. UNCHANGED <<nextTx, calls, ack, orders, seen, news>>
    BY <1>1 DEF CreateAuthToken, VenuePings, VenueJudges, OnMessage, LinkBreaks, LinkRestored,
                PositionArrives, callVars, venueVars, feedVars
  <2>2. QED
    BY <2>1 DEF SeenInv, Shown, Seen, Reported
<1>2. QED
  BY <1>1, VenueSeen, FeedSeen, BeginSeen, CallerSeen DEF Next, Venue

----------------------------------------------------------------------------
(* Hedges that were confirmed. *)

\* Steps that move no position: the call may go on or end, its request may be sent, judged or
\* lost, and the feed may show the position.
LEMMA ViewKeeps ==
    ASSUME HedgeView, UNCHANGED <<nextTx, calls, base, executed, position, orders>>,
           Watching' => Watching,
           Outstanding' \subseteq Outstanding \cup {Current},
           Range(updates') \subseteq Range(updates) \cup {position},
           latest' \in Range(updates) \cup {latest, position, None}
    PROVE  HedgeView'
<1> SUFFICES ASSUME Watching' PROVE HedgeView'
  BY DEF HedgeView
<1>1. /\ Outstanding \subseteq {Current} /\ OpenIds = {}
      /\ \/ executed[Current] = None /\ position = base
         \/ executed[Current] \in Nat /\ position = base + Call.sign * executed[Current]
      /\ Range(updates) \cup {latest} \subseteq {None, base, position}
  BY DEF HedgeView
<1>2. Current' = Current /\ Call' = Call /\ OpenIds' = OpenIds
  BY DEF Current, Call, OpenIds
<1>3. Range(updates') \cup {latest'} \subseteq {None, base, position}
  BY <1>1
<1>4. Outstanding' \subseteq {Current}
  BY <1>1
<1>5. QED
  BY <1>1, <1>2, <1>3, <1>4 DEF HedgeView

\* BeginHedge: a clean hedge begins with the position known and nothing else under way.
LEMMA BeginView ==
    ASSUME Types, VenueInv, HedgeView, BeginHedge \/ BeginLimit \/ BeginCancel PROVE HedgeView'
<1>1. CASE BeginHedge
  <2>1. PICK size \in Sizes, sign \in {1, -1}, before \in {position, 0} :
            /\ Begin([kind |-> "ioc", size |-> size, sign |-> sign, target |-> None])
            /\ base' = before
            /\ clean' = (before = position /\ ~FeedLags /\ Outstanding = {} /\ OpenIds = {})
    BY <1>1 DEF BeginHedge
  <2>2. UNCHANGED <<wire, outbox, accepted, executed, position, orders, updates, latest>>
    BY <1>1 DEF BeginHedge, lineVars, venueVars, feedVars
  <2>3. nextTx \in Txs /\ nextTx' = nextTx + 1 /\ Current' = nextTx
    BY <2>1, LineIs DEF Begin, Current
  <2>4. executed'[Current'] = None
    <3>1. nextTx \in Unsigned
      BY <2>3, LineIs DEF Unsigned
    <3>2. QED
      BY <2>2, <2>3, <3>1 DEF VenueInv
  <2>5. Outstanding' = Outstanding /\ OpenIds' = OpenIds
    BY <2>2 DEF Outstanding, OpenIds
  <2>6. SUFFICES ASSUME clean' PROVE HedgeView'
    BY DEF HedgeView, Watching
  <2>7. before = position /\ ~FeedLags /\ Outstanding = {} /\ OpenIds = {}
    BY <2>1, <2>6, Zenon
  <2>8. Range(updates') \cup {latest'} \subseteq {None, position}
    BY <2>2, <2>7 DEF FeedLags
  <2>9. QED
    BY <2>1, <2>2, <2>4, <2>5, <2>7, <2>8 DEF HedgeView
<1>2. CASE BeginLimit \/ BeginCancel
  <2>1. PICK kind \in {"limit", "cancel"}, sign \in {1, -1}, target \in Txs \cup {None} :
            BeginOther(kind, sign, target)
    BY <1>2 DEF BeginLimit, BeginCancel
  <2>2. PICK size \in Sizes :
            Begin([kind |-> kind, size |-> size, sign |-> sign, target |-> target])
    BY <2>1 DEF BeginOther
  <2>3. /\ nextTx \in Txs /\ nextTx' = nextTx + 1
        /\ calls' = [calls EXCEPT ![nextTx] =
                        [kind |-> kind, size |-> size, sign |-> sign, target |-> target]]
    BY <2>2 DEF Begin
  <2>4. Call'.kind = kind
    <3>1. Current' = nextTx
      BY <2>3, LineIs DEF Current
    <3>2. calls'[nextTx].kind = kind
      <4>1. calls \in [Txs -> Calls \cup {None}]
        BY DEF Types, CallTypes
      <4>2. QED
        BY <2>3, <4>1
    <3>3. QED
      BY <3>1, <3>2 DEF Call
  <2>5. QED
    BY <2>1, <2>4 DEF HedgeView, Watching
<1>3. QED
  BY <1>1, <1>2

\* HedgeExecutes: while a clean hedge is watched, what executes is this hedge, and the
\* position was the one before it.
LEMMA ExecuteView ==
    ASSUME Types, VenueInv, HedgeView, NEW tx \in accepted, HedgeExecutes(tx) PROVE HedgeView'
<1>1. /\ UNCHANGED <<nextTx, calls, pc, base, clean, orders, wire, outbox, latest>>
      /\ accepted' \subseteq accepted
  BY DEF HedgeExecutes, Executes, callVars, localVars, lineVars, histVars
<1>2. tx \in Txs /\ calls[tx] \in Calls /\ executed[tx] = None
  BY CallKnown DEF Types, LineTypes, VenueInv
<1>3. PICK size \in 0..Scaled(calls[tx].size) :
          /\ executed' = [executed EXCEPT ![tx] = size]
          /\ position' = position + calls[tx].sign * size
          /\ updates' = IF size > 0 /\ policy = "hedge" THEN Tell(updates, position') ELSE updates
  BY DEF HedgeExecutes
<1>4. size \in Nat /\ executed \in [Txs -> Nat \cup {None}] /\ updates \in Seq(Int)
      /\ position' \in Int
  <2>1. size \in Nat
    BY <1>2, <1>3, ScaledIs
  <2>2. calls[tx].sign * size \in Int
    BY <1>2, <2>1, SignedSize
  <2>3. QED
    BY <1>3, <2>1, <2>2 DEF Types, AccountTypes
<1>5. SUFFICES ASSUME Watching' PROVE HedgeView'
  BY DEF HedgeView
<1>6. Watching /\ Current' = Current /\ Call' = Call
  BY <1>1, <1>5 DEF Watching, Busy, Call, Current
<1>7. tx = Current
  BY <1>6 DEF HedgeView, Outstanding
<1>8. position = base /\ OpenIds = {} /\ Outstanding \subseteq {Current}
      /\ Range(updates) \cup {latest} \subseteq {None, base}
  BY <1>2, <1>6, <1>7, TradingAssumption DEF HedgeView
<1>9. Outstanding' \subseteq Outstanding /\ OpenIds' = OpenIds
  BY <1>1 DEF Outstanding, OpenIds
<1>10. executed'[Current] = size /\ position' = base + Call.sign * size
  BY <1>2, <1>3, <1>4, <1>7, <1>8 DEF Call
<1>11. Range(updates') \subseteq Range(updates) \cup {position'}
  <2>1. updates' = updates \/ updates' = Append(updates, position')
    BY <1>3 DEF Tell
  <2>2. Range(Append(updates, position')) = Range(updates) \cup {position'}
    BY <1>4, AppendRange
  <2>3. QED
    BY <2>1, <2>2
<1>12. QED
  BY <1>1, <1>4, <1>6, <1>8, <1>9, <1>10, <1>11 DEF HedgeView

\* The executions of orders and cancels and the fills do not happen while a clean hedge is
\* watched.
LEMMA OthersView ==
    ASSUME Types, VenueInv, HedgeView,
           \/ \E tx \in accepted : OrderEnters(tx) \/ CancelExecutes(tx)
           \/ \E id \in Txs : OrderFills(id)
    PROVE  HedgeView'
<1>1. UNCHANGED <<nextTx, calls, pc, clean>>
  BY DEF OrderEnters, CancelExecutes, OrderFills, callVars, localVars, histVars
<1>2. ~Watching
  <2> SUFFICES ASSUME Watching PROVE FALSE
    OBVIOUS
  <2>1. Call.kind = "ioc" /\ Outstanding \subseteq {Current} /\ OpenIds = {}
    BY DEF Watching, HedgeView
  <2>2. ASSUME NEW tx \in accepted, OrderEnters(tx) \/ CancelExecutes(tx) PROVE FALSE
    <3>1. tx = Current
      BY <2>1 DEF Outstanding
    <3>2. calls[tx].kind # "ioc"
      BY <2>2 DEF OrderEnters, CancelExecutes
    <3>3. QED
      BY <2>1, <3>1, <3>2 DEF Call
  <2>3. ASSUME NEW id \in Txs, OrderFills(id) PROVE FALSE
    BY <2>1, <2>3 DEF OrderFills, OpenIds
  <2>4. QED
    BY <2>2, <2>3
<1>3. QED
  BY <1>1, <1>2 DEF HedgeView, Watching, Busy, Call, Current

\* The steps of the caller, the connection and the feed.
LEMMA LineView ==
    ASSUME Types, VenueInv, HedgeView,
           \/ CreateAuthToken \/ Caller \/ VenuePings \/ VenueJudges \/ OnMessage
           \/ LinkBreaks \/ LinkRestored \/ Restart
    PROVE  HedgeView'
<1>1. UNCHANGED <<nextTx, calls, base, executed, position, orders>>
  BY DEF CreateAuthToken, Caller, SignFails, Submit, SendTimesOut, SendReturns,
         HedgeConfirmedByFeed, HedgeQueried, OrderConfirmed, OrderNotSeen, VenuePings, VenueJudges,
         OnMessage, LinkBreaks, LinkRestored, Restart, callVars, localVars, venueVars
<1>2. Watching' => Watching
  <2>1. pc = "idle" => pc' = "idle"
    BY DEF CreateAuthToken, Caller, SignFails, Submit, SendTimesOut, SendReturns,
           HedgeConfirmedByFeed, HedgeQueried, OrderConfirmed, OrderNotSeen, VenuePings, VenueJudges,
           OnMessage, LinkBreaks, LinkRestored, Restart, localVars
  <2>2. clean' => clean
    BY Zenon DEF CreateAuthToken, Caller, SignFails, Submit, SendTimesOut, SendReturns,
           HedgeConfirmedByFeed, HedgeQueried, OrderConfirmed, OrderNotSeen, VenuePings, VenueJudges,
           OnMessage, LinkBreaks, LinkRestored, Restart, histVars
  <2>3. QED
    BY <1>1, <2>1, <2>2 DEF Watching, Busy, Call, Current
<1>3. /\ updates' = updates \/ updates' = <<>>
      /\ latest' \in {latest, None}
  BY DEF CreateAuthToken, Caller, SignFails, Submit, SendTimesOut, SendReturns,
         HedgeConfirmedByFeed, HedgeQueried, OrderConfirmed, OrderNotSeen, VenuePings, VenueJudges,
         OnMessage, LinkBreaks, LinkRestored, Restart, feedVars
<1>4. Range(<<>>) = {}
  BY DEF Range
<1>5. Outstanding' \subseteq Outstanding \cup {Current}
  <2>1. CASE Submit
    <3>1. wire \in Seq(Txs) /\ outbox \in Seq(Txs) /\ Current \in Txs
      BY <2>1, LineIs, CurrentIs DEF Submit, Busy
    <3>2. /\ Range(Append(wire, Current)) = Range(wire) \cup {Current}
          /\ Range(Append(outbox, Current)) = Range(outbox) \cup {Current}
      BY <3>1, AppendRange
    <3>3. /\ wire' = wire \/ wire' = Append(wire, Current)
          /\ outbox' = outbox \/ outbox' = Append(outbox, Current)
          /\ accepted' = accepted
      BY <2>1 DEF Submit, venueVars
    <3>4. QED
      BY <3>2, <3>3 DEF Outstanding
  <2>2. CASE VenueJudges \/ LinkBreaks \/ Restart
    <3>1. /\ wire' = <<>> \/ (wire # <<>> /\ wire' = Tail(wire))
          /\ outbox' = outbox \/ outbox' = <<>>
          /\ accepted' = accepted \/ (wire # <<>> /\ accepted' = accepted \cup {Head(wire)})
      BY <2>2 DEF VenueJudges, LinkBreaks, Restart, Judge
    <3>2. wire # <<>> => Range(Tail(wire)) \subseteq Range(wire) /\ Head(wire) \in Range(wire)
      BY HeadKnown
    <3>3. QED
      BY <1>4, <3>1, <3>2 DEF Outstanding
  <2>3. CASE LinkRestored
    <3>1. wire' = outbox /\ outbox' = <<>> /\ accepted' = accepted
      BY <2>3 DEF LinkRestored, venueVars
    <3>2. QED
      BY <1>4, <3>1 DEF Outstanding
  <2>4. CASE \/ CreateAuthToken \/ SignFails \/ SendTimesOut \/ SendReturns \/ HedgeConfirmedByFeed
             \/ HedgeQueried \/ OrderConfirmed \/ OrderNotSeen \/ VenuePings \/ OnMessage
    <3>1. UNCHANGED <<wire, outbox, accepted>>
      BY <2>4 DEF CreateAuthToken, SignFails, SendTimesOut, SendReturns, HedgeConfirmedByFeed,
                  HedgeQueried, OrderConfirmed, OrderNotSeen, VenuePings, OnMessage, lineVars,
                  venueVars
    <3>2. QED
      BY <3>1 DEF Outstanding
  <2>5. QED
    BY <2>1, <2>2, <2>3, <2>4 DEF Caller
<1>6. QED
  BY <1>1, <1>2, <1>3, <1>4, <1>5, ViewKeeps

LEMMA FeedView ==
    ASSUME Types, HedgeView, PositionArrives \/ NewsArrives \/ FeedBreaks \/ FeedRestored
    PROVE  HedgeView'
<1>1. UNCHANGED <<nextTx, calls, base, executed, position, orders, pc, wire, outbox, accepted>>
  BY DEF PositionArrives, NewsArrives, FeedBreaks, FeedRestored, callVars, localVars, lineVars,
         venueVars
<1>2. Outstanding' = Outstanding
  BY <1>1 DEF Outstanding
<1>3. CASE PositionArrives
  <2>1. updates # <<>> /\ updates' = Tail(updates) /\ updates \in Seq(Int)
    BY <1>3 DEF PositionArrives, Types, AccountTypes
  <2>2. Range(updates') \subseteq Range(updates) /\ Head(updates) \in Range(updates)
    BY <2>1, TailIs DEF Range
  <2>3. CASE latest' = Head(updates) /\ clean' = clean
    BY <1>1, <1>2, <2>2, <2>3, ViewKeeps DEF Watching, Busy, Call, Current
  <2>4. CASE clean' = FALSE
    BY <2>4 DEF HedgeView, Watching
  <2>5. CASE latest' = latest /\ clean' = clean
    BY <1>1, <1>2, <2>2, <2>5, ViewKeeps DEF Watching, Busy, Call, Current
  <2>6. QED
    BY <1>3, <2>3, <2>4, <2>5 DEF PositionArrives
<1>4. CASE NewsArrives \/ FeedBreaks \/ FeedRestored
  <2>1. /\ updates' = updates \/ updates' = <<>> \/ updates' = <<position>>
        /\ latest' = latest /\ clean' = clean
    BY <1>4 DEF NewsArrives, FeedBreaks, FeedRestored, histVars
  <2>2. Range(<<>>) = {} /\ Range(<<position>>) = {position}
    BY DEF Range
  <2>3. QED
    BY <1>1, <1>2, <2>1, <2>2, ViewKeeps DEF Watching, Busy, Call, Current
<1>5. QED
  BY <1>3, <1>4

\* While a clean hedge is watched, a change of the position is the hedge.
LEMMA DistanceIs ==
    ASSUME Types, VenueInv, HedgeInv, Busy, Call.kind = "ioc", clean, position # base
    PROVE  executed[Current] = Distance(position, base)
<1>1. /\ executed[Current] \in Nat /\ position = base + Call.sign * executed[Current]
      /\ base \in Int
  BY DEF HedgeInv, HedgeView, Watching, Types, CallTypes
<1>2. Call \in Calls
  BY CurrentIs
<1>3. Call.sign * executed[Current] \in {executed[Current], -executed[Current]}
  BY <1>1, <1>2, SignedSize
<1>4. QED
  BY <1>1, <1>3 DEF Distance

\* A confirmed size is what was executed, and nothing executes twice.
LEMMA ConfirmedStep == ASSUME Types, VenueInv, HedgeInv, Next PROVE ConfirmedIsExecuted'
<1>0. /\ ack \in [Txs -> Acks \cup {None}] /\ executed \in [Txs -> Nat \cup {None}]
      /\ None \notin Nat
  BY TradingAssumption DEF Types, CallTypes, AccountTypes
<1>1. ASSUME NEW r, Busy, executed' = executed, ack' = [ack EXCEPT ![Current] = r],
             r.confirmed /\ r.clean => executed[Current] = r.size
      PROVE  ConfirmedIsExecuted'
  <2>1. Current \in Txs
    BY <1>1, CurrentIs
  <2>2. ack'[Current] = r /\ \A id \in Txs \ {Current} : ack'[id] = ack[id]
    BY <1>0, <1>1, <2>1
  <2>3. QED
    BY <1>1, <2>2 DEF HedgeInv, ConfirmedIsExecuted
<1>2. CASE HedgeConfirmedByFeed
  <2>1. /\ Busy /\ Call.kind = "ioc" /\ latest # None /\ latest # base /\ executed' = executed
        /\ ack' = [ack EXCEPT ![Current] = Confirmed(Distance(latest, base), clean)]
    BY <1>2 DEF HedgeConfirmedByFeed, Busy, Return, venueVars
  <2>2. ASSUME clean PROVE executed[Current] = Distance(latest, base)
    <3>1. latest = position
      BY <2>1, <2>2 DEF HedgeInv, HedgeView, Watching
    <3>2. QED
      BY <2>1, <2>2, <3>1, DistanceIs
  <2>3. Confirmed(Distance(latest, base), clean).clean = clean
        /\ Confirmed(Distance(latest, base), clean).size = Distance(latest, base)
    BY DEF Confirmed
  <2>4. QED
    BY <1>1, <2>1, <2>2, <2>3
<1>3. CASE HedgeQueried
  <2>1. Busy /\ Call.kind = "ioc" /\ executed' = executed
    BY <1>3 DEF HedgeQueried, Busy, venueVars
  <2>2. PICK after \in {position, 0} :
            ack' = [ack EXCEPT ![Current] =
                       IF after = base THEN Unconfirmed
                       ELSE Confirmed(Distance(after, base), clean /\ after = position)]
    BY <1>3 DEF HedgeQueried, Return
  <2>3. CASE after = base
    <3>1. ack' = [ack EXCEPT ![Current] = Unconfirmed] /\ ~Unconfirmed.confirmed
      BY <2>2, <2>3 DEF Unconfirmed, Failed
    <3>2. QED
      BY <1>1, <2>1, <3>1
  <2>4. CASE after # base
    <3> DEFINE r == Confirmed(Distance(after, base), clean /\ after = position)
    <3>1. ack' = [ack EXCEPT ![Current] = r]
      BY <2>2, <2>4
    <3>2. r.clean = (clean /\ after = position) /\ r.size = Distance(after, base)
      BY DEF Confirmed
    <3>3. ASSUME clean, after = position PROVE executed[Current] = Distance(after, base)
      BY <2>1, <2>4, <3>3, DistanceIs
    <3> HIDE DEF r
    <3>4. r.clean => executed[Current] = r.size
      BY <3>2, <3>3
    <3>5. QED
      BY <1>1, <2>1, <3>1, <3>4
  <2>5. QED
    BY <2>3, <2>4
<1>4. CASE SignFails \/ SendTimesOut \/ OrderNotSeen \/ OrderConfirmed
  <2>1. Busy /\ executed' = executed
    BY <1>4 DEF SignFails, SendTimesOut, OrderNotSeen, OrderConfirmed, Busy, venueVars
  <2>2. \/ ack' = [ack EXCEPT ![Current] = Failed]
        \/ ack' = [ack EXCEPT ![Current] = Unconfirmed]
    BY <1>4 DEF SignFails, SendTimesOut, OrderNotSeen, OrderConfirmed, Return
  <2>3. ~Failed.confirmed /\ ~Unconfirmed.confirmed
    BY DEF Failed, Unconfirmed
  <2>4. QED
    BY <1>1, <2>1, <2>2, <2>3
<1>5. CASE SendReturns
  <2>1. Busy /\ executed' = executed
    BY <1>5 DEF SendReturns, Busy, venueVars
  <2>2. \/ ack' = [ack EXCEPT ![Current] = [Failed EXCEPT !.clean = clean']]
        \/ ack' = ack
    BY <1>5 DEF SendReturns, Return
  <2>3. ~[Failed EXCEPT !.clean = clean'].confirmed
    BY DEF Failed
  <2>4. CASE ack' = ack
    BY <2>1, <2>4 DEF HedgeInv, ConfirmedIsExecuted
  <2>5. QED
    BY <1>1, <2>1, <2>2, <2>3, <2>4
<1>6. CASE \E tx \in accepted : HedgeExecutes(tx)
  <2>1. PICK tx \in accepted : HedgeExecutes(tx)
    BY <1>6
  <2>2. ack' = ack /\ executed[tx] = None /\ \A id \in Txs \ {tx} : executed'[id] = executed[id]
    BY <1>0, <2>1 DEF HedgeExecutes, callVars, VenueInv
  <2>3. \A id \in Txs : ack[id] # None => ack[id].size \in Nat
    BY <1>0 DEF Acks
  <2>4. QED
    BY <1>0, <2>2, <2>3 DEF HedgeInv, ConfirmedIsExecuted
<1>7. CASE \/ CreateAuthToken \/ BeginHedge \/ BeginLimit \/ BeginCancel \/ Submit \/ VenuePings
           \/ VenueJudges \/ OnMessage \/ LinkBreaks \/ LinkRestored \/ PositionArrives
           \/ NewsArrives \/ FeedBreaks \/ FeedRestored \/ Restart
  <2>1. UNCHANGED <<ack, executed>>
    BY <1>7 DEF CreateAuthToken, BeginHedge, BeginLimit, BeginCancel, BeginOther, Submit, VenuePings,
                VenueJudges, OnMessage, LinkBreaks, LinkRestored, PositionArrives, NewsArrives,
                FeedBreaks, FeedRestored, Restart, callVars, venueVars
  <2>2. QED
    BY <2>1 DEF HedgeInv, ConfirmedIsExecuted
<1>8. CASE \/ \E tx \in accepted : OrderEnters(tx) \/ CancelExecutes(tx)
           \/ \E id \in Txs : OrderFills(id)
  <2>1. UNCHANGED <<ack, executed>>
    BY <1>8 DEF OrderEnters, CancelExecutes, OrderFills, callVars
  <2>2. QED
    BY <2>1 DEF HedgeInv, ConfirmedIsExecuted
<1>9. QED
  BY <1>2, <1>3, <1>4, <1>5, <1>6, <1>7, <1>8 DEF Next, Caller, Venue

LEMMA HedgeStep == ASSUME Types, VenueInv, HedgeInv, Next PROVE HedgeInv'
<1>1. HedgeView
  BY DEF HedgeInv
<1>2. HedgeView'
  <2>1. CASE BeginHedge \/ BeginLimit \/ BeginCancel
    BY <1>1, <2>1, BeginView
  <2>2. CASE \E tx \in accepted : HedgeExecutes(tx)
    BY <1>1, <2>2, ExecuteView
  <2>3. CASE \/ \E tx \in accepted : OrderEnters(tx) \/ CancelExecutes(tx)
             \/ \E id \in Txs : OrderFills(id)
    BY <1>1, <2>3, OthersView
  <2>4. CASE \/ CreateAuthToken \/ Caller \/ VenuePings \/ VenueJudges \/ OnMessage
             \/ LinkBreaks \/ LinkRestored \/ Restart
    BY <1>1, <2>4, LineView
  <2>5. CASE PositionArrives \/ NewsArrives \/ FeedBreaks \/ FeedRestored
    BY <1>1, <2>5, FeedView
  <2>6. QED
    BY <2>1, <2>2, <2>3, <2>4, <2>5 DEF Next, Venue
<1>3. QED
  BY <1>2, ConfirmedStep DEF HedgeInv

----------------------------------------------------------------------------
(* The whole. *)

\* The types, what the venue did, whose answer may come, what was seen and what a hedge may
\* conclude: each part leans on the ones before it.
CallInv == Types /\ VenueInv /\ AnswerInv /\ SeenInv /\ HedgeInv

LEMMA TypesInit == ASSUME Init PROVE Types
<1>1. NonceInv
  BY NoncesInit
<1>2. CallTypes
  BY DEF Init, CallTypes
<1>3. LineTypes
  BY DEF Init, LineTypes
<1>4. AccountTypes
  <2>1. \A S : <<>> \in Seq(S)
    OBVIOUS
  <2>2. updates \in Seq(Int) /\ news \in Seq([id : Txs, state : OrderStates])
    BY <2>1 DEF Init
  <2>3. executed \in [Txs -> Nat \cup {None}] /\ position \in Int /\ latest \in Int \cup {None}
    <3>1. executed = [id \in Txs |-> None] /\ position = 0 /\ latest = None
      BY DEF Init
    <3>2. QED
      BY <3>1
  <2>4. orders \in [Txs -> OrderStates \cup {None}] /\ seen \in [Txs -> OrderStates \cup {None}]
    <3>1. orders = [id \in Txs |-> None] /\ seen = [id \in Txs |-> None]
      BY DEF Init
    <3>2. QED
      BY <3>1
  <2>5. feedUp \in BOOLEAN
    BY Zenon DEF Init
  <2>6. QED
    BY <2>2, <2>3, <2>4, <2>5, Zenon DEF AccountTypes
<1>5. HistoryTypes
  BY TradingAssumption DEF Init, HistoryTypes
<1>6. QED
  BY <1>1, <1>2, <1>3, <1>4, <1>5 DEF Types

LEMMA CallInit == ASSUME Init PROVE CallInv
<1>1. Types /\ AnswerInv
  BY TypesInit, AnswersInit
<1>2. VenueInv
  <2>1. \A id \in Txs : id \in Nat /\ id >= 1
    BY TradingAssumption DEF Txs
  <2>2. QED
    BY <2>1 DEF Init, VenueInv, Unsigned
<1>3. SeenInv
  BY DEF Init, SeenInv, Shown, Seen, Reported, Txs
<1>4. HedgeInv
  BY DEF Init, HedgeInv, HedgeView, Watching, Busy, ConfirmedIsExecuted
<1>5. QED
  BY <1>1, <1>2, <1>3, <1>4 DEF CallInv

LEMMA TypesStep == ASSUME Types, VenueInv, Next PROVE Types'
<1>1. NonceInv'
  BY NonceStep DEF Types
<1>2. QED
  BY <1>1, CallTypesStep, LineTypesStep, AccountTypesStep, HistoryTypesStep DEF Types

\* A step of another component leaves all of it.
LEMMA CallStutters == ASSUME CallInv, UNCHANGED vars PROVE CallInv'
<1>1. /\ UNCHANGED <<policy, callVars, restarts, noise, histVars>>
      /\ UNCHANGED <<localVars, lineVars, venueVars, feedVars>>
  BY DEF vars
<1>2. /\ UNCHANGED <<policy, nextTx, calls, ack, taken, restarts, noise, clean, gaps>>
      /\ UNCHANGED <<pc, cache, ready, nonce, base, response, linked, outbox, wire, inbox>>
      /\ UNCHANGED <<venueNext, accepted, executed, position, orders>>
      /\ UNCHANGED <<feedUp, updates, latest, news, seen>>
  BY <1>1 DEF callVars, localVars, lineVars, venueVars, feedVars, histVars
<1>3. Types'
  <2>1. NonceInv'
    BY NonceStep DEF CallInv, Types
  <2>2. CallTypes'
    BY <1>2 DEF CallInv, Types, CallTypes
  <2>3. LineTypes'
    BY <1>2 DEF CallInv, Types, LineTypes
  <2>4. AccountTypes'
    BY <1>2 DEF CallInv, Types, AccountTypes
  <2>5. HistoryTypes'
    BY <1>2 DEF CallInv, Types, HistoryTypes
  <2>6. QED
    BY <2>1, <2>2, <2>3, <2>4, <2>5 DEF Types
<1>4. Current' = Current /\ Unsigned' = Unsigned /\ Call' = Call
  BY <1>2 DEF Current, Unsigned, Call
<1>5. VenueInv'
  BY <1>2, <1>4 DEF CallInv, VenueInv
<1>6. AnswerInv'
  BY <1>2, <1>4, AnswersUntouched DEF CallInv
<1>7. SeenInv'
  BY <1>2 DEF CallInv, SeenInv, Shown, Seen, Reported
<1>8. HedgeInv'
  <2>1. Outstanding' = Outstanding /\ OpenIds' = OpenIds /\ Watching' = Watching
    BY <1>2, <1>4 DEF Outstanding, OpenIds, Watching, Busy
  <2>2. QED
    BY <1>2, <1>4, <2>1 DEF CallInv, HedgeInv, HedgeView, ConfirmedIsExecuted
<1>9. QED
  BY <1>3, <1>5, <1>6, <1>7, <1>8 DEF CallInv

LEMMA CallStep == ASSUME CallInv, [Next]_vars PROVE CallInv'
<1>1. CASE UNCHANGED vars
  BY <1>1, CallStutters
<1>2. CASE Next
  <2>1. Types /\ VenueInv /\ AnswerInv /\ SeenInv /\ HedgeInv
    BY DEF CallInv
  <2>2. Types' /\ VenueInv'
    BY <1>2, <2>1, TypesStep, VenueStep
  <2>3. AnswerInv' /\ SeenInv'
    BY <1>2, <2>1, AnswersStep, SeenStep
  <2>4. HedgeInv'
    BY <1>2, <2>1, HedgeStep
  <2>5. QED
    BY <2>2, <2>3, <2>4 DEF CallInv
<1>3. QED
  BY <1>1, <1>2

\* The inductive invariant holds through every call, answer, loss, execution and restart.
THEOREM CallInvariant == Spec => []CallInv
<1>1. Init => CallInv
  BY CallInit
<1>2. CallInv /\ [Next]_vars => CallInv'
  BY CallStep
<1>3. QED
  BY <1>1, <1>2, PTL DEF Spec

\* The members of NativeLighterTrading, its transport and its feeds keep their types.
THEOREM TradingTypeCorrect == Spec => []TypeOK
<1>1. CallInv => TypeOK
  BY TypesSuffice DEF CallInv
<1>2. QED
  BY <1>1, CallInvariant, PTL

\* send_tx matches answers by arrival alone: still no answer is returned twice, and one
\* that is not the call's own is of an earlier call that ended without it (a time-out, a
\* message that is no answer, or again an earlier call's answer).
THEOREM AnswersStayInStep == Spec => []AnswersInStep
<1>1. CallInv => AnswersInStep
  <2> SUFFICES ASSUME CallInv, NEW id \in Txs, taken[id] \in Txs \ {id}
               PROVE  /\ taken[taken[id]] \in {Ping, TimedOut} \cup 1..(taken[id] - 1)
                      /\ taken[id] < id
                      /\ \A other \in Txs \ {id} : taken[other] # taken[id]
    BY DEF AnswersInStep
  <2>1. TakenOnce
    BY DEF CallInv, AnswerInv
  <2>2. QED
    BY <2>1 DEF TakenOnce, GivenUp
<1>2. QED
  BY <1>1, CallInvariant, PTL

\* A hedge wait_for_position_change or the last query confirms executed with the size it
\* reports, as long as nothing else could move or blur the position since it began.
THEOREM ConfirmedHedgeExecuted == Spec => []ConfirmedIsExecuted
<1>1. CallInv => ConfirmedIsExecuted
  BY DEF CallInv, HedgeInv
<1>2. QED
  BY <1>1, CallInvariant, PTL

\* An order wait_for_order_resting reports as resting did enter the book, whatever answer
\* its placement took and however often the feed broke.
THEOREM RestingOrdersPlaced == Spec => []RestingWasPlaced
<1>1. CallInv => RestingWasPlaced
  BY DEF CallInv, SeenInv, Reported, RestingWasPlaced
<1>2. QED
  BY <1>1, CallInvariant, PTL

\* An order whose cancel wait_for_cancel confirms is not in the book, then or later.
THEOREM CancelledOrdersGone == Spec => []CancelledIsGone
<1>1. CallInv => CancelledIsGone
  BY DEF CallInv, SeenInv, Reported, CancelledIsGone
<1>2. QED
  BY <1>1, CallInvariant, PTL
=============================================================================
