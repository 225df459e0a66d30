---------------------------- MODULE HlWsPost_proofs ----------------------------
(***************************************************************************)
(* The promises of the transport to Hyperliquid, for any number of posts:  *)
(* at most one execution, the own answer, and what a caller may conclude   *)
(* about the book.                                                         *)
(***************************************************************************)
EXTENDS HlWsPost, WsClient_proofs, FiniteSetTheorems

----------------------------------------------------------------------------
(* The inductive invariant. *)

\* What flush_pending has still to start.
ToFlush == IF flush = <<>> THEN {} ELSE Range(Tail(flush))

\* What the client may still put on the wire.
ClientHolds == Range(posted) \cup Range(pendingSends) \cup ToFlush \cup Written

\* The client holds every message in one place.
HeldOnce ==
    /\ IsInjective(posted) /\ IsInjective(pendingSends) /\ IsInjective(flush)
    /\ \A i, j \in DOMAIN writing : writing[i].msg = writing[j].msg => i = j
    /\ Range(posted) \cap (Range(pendingSends) \cup ToFlush \cup Written) = {}
    /\ Range(pendingSends) \cap (ToFlush \cup Written) = {}
    /\ ToFlush \cap Written = {}

Made == {id \in Ids : request[id] # None}

\* What the callback under way has still to make ready.
TodoIds == {todo[k].id : k \in DOMAIN todo}

\* Every post without a result belongs to one caller.
UnderWay ==
    /\ \A id \in Ids : id \in Made <=> id < nextId
    /\ \A c \in Callers : pc[c] # "idle" => call[c] \in Made /\ got[call[c]] = None
    /\ \A c, d \in Callers : pc[c] # "idle" /\ pc[d] # "idle" /\ call[c] = call[d] => c = d
    /\ \A id \in Made : got[id] = None => \E c \in Callers : pc[c] # "idle" /\ call[c] = id
    /\ \A id \in Ids \ Made : got[id] = None /\ entry[id] = None
    /\ pendingMap \cup TodoIds \subseteq Made

\* A post goes from its caller through the client to the exchange, which acts on it once;
\* it is never in two places, and never left behind where it was.
Passage ==
    /\ HeldOnce
    /\ ClientHolds \cap toServer = {}
    /\ \A id \in ClientHolds \cup toServer : id \in Made /\ executed[id] = 0
    /\ \A c \in Callers : pc[c] = "registered" =>
           call[c] \notin ClientHolds \cup toServer /\ executed[call[c]] = 0
    /\ \A id \in Ids : \/ executed[id] = 0 /\ served[id] = None
                       \/ executed[id] = 1 /\ served[id] # None /\ id \in Made

\* Every body on its way to a caller is the exchange's result for its post, or says that
\* the connection broke.
Answered ==
    /\ \A a \in answers : a.body \in Results /\ served[a.id] = a.body
    /\ \A k \in DOMAIN todo : todo[k].body \in {"disconnect", served[todo[k].id]}
    /\ \A id \in Ids : entry[id] \in {None, "disconnect", served[id]}
    /\ \A id \in Ids : got[id] \in {None, "disconnect", "timeout", served[id]}

\* Only an order that was placed rests; a cancel is of an order the exchange has handled,
\* and once it took or found nothing the order is not in the book.
Resting ==
    /\ \A id \in book : id \in Made /\ request[id].op = "place" /\ served[id] = "ok"
    /\ \A id \in Made : request[id].op = "cancel" =>
           /\ request[id].target \in Ids /\ served[request[id].target] # None
           /\ served[id] \in {"ok", "filled", "error"} => request[id].target \notin book

\* A caller that may still wait for its entry is in pending_, or in the loop of the
\* callback that will make it ready.
InReach == TodoIds \cup (IF io = "failing" THEN {} ELSE pendingMap)

Waiting ==
    /\ io = "failing" <=> phase = "lost"
    /\ io = "loop" => todo = <<>>
    /\ io = "answering" => Len(todo) = 1
    /\ \A c \in Callers :
           pc[c] \in {"registered", "waiting"} /\ entry[call[c]] = None => call[c] \in InReach
    /\ UnansweredIsQueued

\* TypeOK in parts, by who writes the variables.
CallTypes ==
    /\ nextId \in 1..(MaxPosts + 1)
    /\ request \in [Ids -> Requests \cup {None}]
    /\ pc \in [Callers -> {"idle", "registered", "waiting", "erasing"}]
    /\ call \in [Callers -> Ids]
    /\ got \in [Ids -> Bodies \cup {None}]

MapTypes ==
    /\ pendingMap \in SUBSET Ids
    /\ entry \in [Ids -> Bodies \cup {None}]
    /\ io \in {"loop", "answering", "failing"}
    /\ todo \in Seq(Replies)

ServerTypes ==
    /\ toServer \in SUBSET Ids
    /\ answers \in SUBSET Replies
    /\ executed \in [Ids -> Nat]
    /\ served \in [Ids -> Results \cup {None}]
    /\ book \in SUBSET Ids

Types == WsInv /\ CallTypes /\ MapTypes /\ ServerTypes

PostInv == Types /\ UnderWay /\ Passage /\ Answered /\ Resting /\ Waiting

----------------------------------------------------------------------------
(* The client holds each message once. *)

\* The handler takes the oldest of a queue.
LEMMA TakeFirst ==
    ASSUME NEW S, NEW s \in Seq(S), s # <<>>
    PROVE  /\ Head(s) \in S /\ Tail(s) \in Seq(S)
           /\ Range(s) = {Head(s)} \cup Range(Tail(s))
           /\ IsInjective(s) => IsInjective(Tail(s)) /\ Head(s) \notin Range(Tail(s))
<1>1. Len(s) \in Nat /\ Len(s) >= 1 /\ DOMAIN s = 1..Len(s) /\ Head(s) = s[1]
  OBVIOUS
<1>2. /\ Tail(s) \in Seq(S) /\ DOMAIN Tail(s) = 1..(Len(s) - 1)
      /\ \A k \in 1..(Len(s) - 1) : Tail(s)[k] = s[k + 1]
  OBVIOUS
<1>3. \A k \in DOMAIN s \ {1} : k - 1 \in DOMAIN Tail(s) /\ Tail(s)[k - 1] = s[k]
  BY <1>1, <1>2
<1>4. Range(s) = {Head(s)} \cup Range(Tail(s))
  <2>1. ASSUME NEW k \in DOMAIN s PROVE s[k] \in {Head(s)} \cup Range(Tail(s))
    BY <1>1, <1>3 DEF Range
  <2>2. ASSUME NEW k \in DOMAIN Tail(s) PROVE Tail(s)[k] \in Range(s)
    <3>1. k + 1 \in DOMAIN s /\ Tail(s)[k] = s[k + 1]
      BY <1>1, <1>2
    <3>2. QED
      BY <3>1 DEF Range
  <2>3. Head(s) \in Range(s)
    BY <1>1 DEF Range
  <2>4. QED
    BY <2>1, <2>2, <2>3 DEF Range
<1>5. IsInjective(s) => IsInjective(Tail(s)) /\ Head(s) \notin Range(Tail(s))
  BY <1>1, <1>2 DEF Range, IsInjective
<1>6. QED
  BY <1>2, <1>4, <1>5

LEMMA PutLast ==
    ASSUME NEW S, NEW s \in Seq(S), NEW e \in S
    PROVE  /\ Append(s, e) \in Seq(S)
           /\ Range(Append(s, e)) = Range(s) \cup {e}
           /\ IsInjective(s) /\ e \notin Range(s) => IsInjective(Append(s, e))
<1>1. /\ Append(s, e) \in Seq(S) /\ Len(s) \in Nat /\ DOMAIN s = 1..Len(s)
      /\ DOMAIN Append(s, e) = 1..(Len(s) + 1)
      /\ \A k \in 1..Len(s) : Append(s, e)[k] = s[k]
      /\ Append(s, e)[Len(s) + 1] = e
  OBVIOUS
<1>2. QED
  BY <1>1 DEF Range, IsInjective

\* What is written after a write began.
LEMMA WriteBegins ==
    ASSUME WsTypeOK, NEW w \in Seq(Writes), NEW m \in Msgs, NEW chained \in BOOLEAN,
           writing' = Append(w, [msg |-> m, chained |-> chained]),
           \A i, j \in DOMAIN w : w[i].msg = w[j].msg => i = j
    PROVE  /\ Written' = {w[i].msg : i \in DOMAIN w} \cup {m}
           /\ m \notin {w[i].msg : i \in DOMAIN w} =>
                  \A i, j \in DOMAIN writing' : writing'[i].msg = writing'[j].msg => i = j
<1> DEFINE e == [msg |-> m, chained |-> chained]
<1>1. e.msg = m /\ e \in Writes
  BY WriteIs
<1> HIDE DEF e
<1>2. /\ Len(w) \in Nat /\ DOMAIN w = 1..Len(w) /\ DOMAIN Append(w, e) = 1..(Len(w) + 1)
      /\ \A k \in 1..Len(w) : Append(w, e)[k] = w[k]
      /\ Append(w, e)[Len(w) + 1] = e
  BY <1>1
<1>3. writing' = Append(w, e)
  BY DEF e
<1>4. QED
  BY <1>1, <1>2, <1>3 DEF Written

\* A message sent by a caller that the client does not hold yet.
LEMMA SendHolds ==
    ASSUME WsInv, HeldOnce, NEW m \in Msgs, Send(<<m>>), m \notin ClientHolds
    PROVE  HeldOnce' /\ ClientHolds' = ClientHolds \cup {m}
<1>1. posted' = Append(posted, m) /\ UNCHANGED <<pendingSends, flush, writing>>
  <2>1. posted \o <<m>> = Append(posted, m)
    BY DEF WsInv, WsTypeOK
  <2>2. QED
    BY <2>1 DEF Send
<1>2. Range(posted') = Range(posted) \cup {m} /\ IsInjective(posted')
  BY <1>1, PutLast DEF WsInv, WsTypeOK, HeldOnce, ClientHolds
<1>3. ToFlush' = ToFlush /\ Written' = Written
  BY <1>1 DEF ToFlush, Written
<1>4. QED
  BY <1>1, <1>2, <1>3 DEF HeldOnce, ClientHolds

\* The handler of send() moves a message from one queue to the next, or to a write.
LEMMA RunSendHolds ==
    ASSUME WsInv, HeldOnce, RunSend PROVE HeldOnce' /\ ClientHolds' = ClientHolds
<1> DEFINE m == Head(posted)
<1>1. /\ posted # <<>> /\ posted' = Tail(posted) /\ UNCHANGED flush
      /\ \/ pendingSends' = Append(pendingSends, m) /\ UNCHANGED writing
         \/ writing' = Append(writing, [msg |-> m, chained |-> FALSE]) /\ UNCHANGED pendingSends
  BY DEF RunSend, StartWrite
<1>2. /\ m \in Msgs /\ Range(posted) = {m} \cup Range(posted')
      /\ IsInjective(posted') /\ m \notin Range(posted')
  BY <1>1, TakeFirst DEF WsInv, WsTypeOK, HeldOnce
<1> HIDE DEF m
<1>3. ToFlush' = ToFlush
  BY <1>1 DEF ToFlush
<1>4. CASE pendingSends' = Append(pendingSends, m) /\ UNCHANGED writing
  <2>1. Range(pendingSends') = Range(pendingSends) \cup {m} /\ IsInjective(pendingSends')
    BY <1>2, <1>4, PutLast DEF WsInv, WsTypeOK, HeldOnce
  <2>2. Written' = Written
    BY <1>4 DEF Written
  <2>3. QED
    BY <1>1, <1>2, <1>3, <1>4, <2>1, <2>2 DEF HeldOnce, ClientHolds
<1>5. CASE writing' = Append(writing, [msg |-> m, chained |-> FALSE]) /\ UNCHANGED pendingSends
  <2>1. Written' = Written \cup {m}
        /\ \A i, j \in DOMAIN writing' : writing'[i].msg = writing'[j].msg => i = j
    BY <1>2, <1>5, WriteBegins DEF WsInv, WsTypeOK, HeldOnce, Written
  <2>2. QED
    BY <1>1, <1>2, <1>3, <1>5, <2>1 DEF HeldOnce, ClientHolds
<1>6. QED
  BY <1>1, <1>4, <1>5

\* The connection comes and goes without a message being doubled.
LEMMA HandshakeHolds ==
    ASSUME WsInv, HeldOnce, Handshake PROVE HeldOnce' /\ ClientHolds' \subseteq ClientHolds
<1>0. /\ flush' = pendingSends /\ pendingSends' = <<>> /\ posted' = posted /\ writing = <<>>
      /\ pendingSends \in Seq(Msgs)
  BY DEF Handshake, WsInv, WsTypeOK, WritesNeedConnection, Connected
<1>1. Range(<<>>) = {} /\ IsInjective(<<>>)
  BY DEF Range, IsInjective
<1>2. CASE pendingSends = <<>>
  <2>1. writing' = <<>>
    BY <1>2 DEF Handshake
  <2>2. Written' = {} /\ ToFlush' = {}
    BY <1>0, <1>2, <2>1 DEF Written, ToFlush
  <2>3. QED
    BY <1>0, <1>1, <1>2, <2>1, <2>2 DEF HeldOnce, ClientHolds
<1>3. CASE pendingSends # <<>>
  <2>1. writing' = <<[msg |-> Head(pendingSends), chained |-> TRUE]>>
    BY <1>0, <1>3, FirstWrite DEF Handshake, StartWrite
  <2>2. Written' = {Head(pendingSends)}
        /\ \A i, j \in DOMAIN writing' : writing'[i].msg = writing'[j].msg => i = j
    BY <2>1 DEF Written
  <2>3. ToFlush' = Range(Tail(pendingSends))
    BY <1>0, <1>3 DEF ToFlush
  <2>4. /\ Range(pendingSends) = {Head(pendingSends)} \cup Range(Tail(pendingSends))
        /\ Head(pendingSends) \notin Range(Tail(pendingSends))
    BY <1>0, <1>3, TakeFirst DEF HeldOnce
  <2>5. QED
    BY <1>0, <1>1, <2>2, <2>3, <2>4 DEF HeldOnce, ClientHolds
<1>4. QED
  BY <1>2, <1>3

LEMMA ConnectionHolds ==
    ASSUME WsInv, HeldOnce,
           \/ ConnectFails \/ RetryDue \/ ScheduleReconnect \/ Close \/ UNCHANGED wsVars
           \/ DoClose \/ ReadFails
    PROVE  /\ HeldOnce' /\ ClientHolds' \subseteq ClientHolds
           /\ ReadFails => ClientHolds' \cap Written = {}
<1>1. posted' = posted /\ pendingSends' = pendingSends
  BY DEF ConnectFails, RetryDue, ScheduleReconnect, Close, wsVars, DoClose, ReadFails
<1>2. CASE ConnectFails \/ RetryDue \/ ScheduleReconnect \/ Close \/ UNCHANGED wsVars
  <2>1. UNCHANGED <<flush, writing>>
    BY <1>2 DEF ConnectFails, RetryDue, ScheduleReconnect, Close, wsVars
  <2>2. ToFlush' = ToFlush /\ Written' = Written
    BY <2>1 DEF ToFlush, Written
  <2>3. ~ReadFails
    BY <1>2 DEF ConnectFails, RetryDue, ScheduleReconnect, Close, wsVars, ReadFails, Connected
  <2>4. QED
    BY <1>1, <2>1, <2>2, <2>3 DEF HeldOnce, ClientHolds
<1>3. CASE DoClose \/ ReadFails
  <2>1. flush' = <<>> /\ writing' = <<>>
    BY <1>3 DEF DoClose, ReadFails
  <2>2. ToFlush' = {} /\ Written' = {} /\ IsInjective(<<>>)
    BY <2>1 DEF ToFlush, Written, IsInjective
  <2>3. QED
    BY <1>1, <2>1, <2>2 DEF HeldOnce, ClientHolds
<1>4. QED
  BY <1>2, <1>3

\* What is left after a write ended.
LEMMA WriteEnds ==
    ASSUME WsTypeOK, NEW i \in DOMAIN writing,
           \A j, k \in DOMAIN writing : writing[j].msg = writing[k].msg => j = k
    PROVE  LET others == RemoveAt(writing, i) IN
           /\ others \in Seq(Writes)
           /\ {others[k].msg : k \in DOMAIN others} \subseteq Written \ {writing[i].msg}
           /\ \A k, l \in DOMAIN others : others[k].msg = others[l].msg => k = l
<1> DEFINE others == RemoveAt(writing, i)
           from(k) == IF k < i THEN k ELSE k + 1
<1>1. writing \in Seq(Writes) /\ Len(writing) \in Nat /\ i \in 1..Len(writing)
  BY DEF WsTypeOK
<1>2. /\ others \in Seq(Writes)
      /\ Len(others) = Len(writing) - 1
      /\ \A k \in 1..(Len(writing) - 1) :
             others[k] = IF k < i THEN writing[k] ELSE writing[k + 1]
  BY <1>1, RemoveAtIs
<1> HIDE DEF others
<1>3. ASSUME NEW k \in DOMAIN others
      PROVE  /\ k \in 1..(Len(writing) - 1)
             /\ from(k) \in DOMAIN writing /\ from(k) # i /\ others[k] = writing[from(k)]
  <2>1. k \in 1..(Len(writing) - 1)
    BY <1>1, <1>2, <1>3
  <2>2. from(k) \in 1..Len(writing) /\ from(k) # i /\ others[k] = writing[from(k)]
    BY <1>1, <1>2, <2>1
  <2>3. QED
    BY <1>1, <2>1, <2>2
<1>4. \A k, l \in DOMAIN others : from(k) = from(l) => k = l
  BY <1>1, <1>3
<1> HIDE DEF from
<1>5. \A k \in DOMAIN others : others[k].msg \in Written \ {writing[i].msg}
  BY <1>3 DEF Written
<1>6. \A k, l \in DOMAIN others : others[k].msg = others[l].msg => k = l
  BY <1>3, <1>4
<1>7. QED
  BY <1>2, <1>5, <1>6 DEF others

\* A write that ends takes its message with it, wherever the chain goes on.
LEMMA WriteHolds ==
    ASSUME WsInv, HeldOnce, NEW i \in DOMAIN writing, WriteDone(i) \/ WriteFails(i)
    PROVE  /\ HeldOnce' /\ ClientHolds' \subseteq ClientHolds
           /\ writing[i].msg \in Written /\ writing[i].msg \notin ClientHolds'
<1> DEFINE others == RemoveAt(writing, i)
           left == {others[k].msg : k \in DOMAIN others}
           m == writing[i].msg
<1>1. /\ others \in Seq(Writes) /\ left \subseteq Written \ {m}
      /\ \A k, l \in DOMAIN others : others[k].msg = others[l].msg => k = l
  BY WriteEnds DEF WsInv, HeldOnce
<1>2. m \in Written
  BY DEF Written
<1>3. UNCHANGED <<posted, pendingSends>>
  BY DEF WriteDone, WriteFails
<1>4. CASE writing' = others /\ ToFlush' \subseteq ToFlush /\ IsInjective(flush')
  <2>1. Written' = left /\ \A k, l \in DOMAIN writing' : writing'[k].msg = writing'[l].msg => k = l
    BY <1>1, <1>4 DEF Written
  <2> HIDE DEF left, others, m
  <2>2. QED
    BY <1>1, <1>2, <1>3, <1>4, <2>1 DEF HeldOnce, ClientHolds, m
<1>5. CASE WriteFails(i) \/ ~writing[i].chained
  <2>1. writing' = others /\ (flush' = flush \/ flush' = <<>>)
    BY <1>5 DEF WriteFails, WriteDone
  <2>2. ToFlush' \subseteq ToFlush /\ IsInjective(flush')
    BY <2>1 DEF ToFlush, HeldOnce, IsInjective
  <2>3. QED
    BY <1>4, <2>1, <2>2
<1>6. CASE WriteDone(i) /\ writing[i].chained
  <2>1. /\ flush # <<>> /\ flush \in Seq(Msgs) /\ flush' = Tail(flush)
        /\ writing' = IF Len(flush) = 1 THEN others
                      ELSE Append(others, [msg |-> flush[2], chained |-> TRUE])
    BY <1>6 DEF WsInv, WsTypeOK, OneChain, WriteDone
  <2>2. Tail(flush) \in Seq(Msgs) /\ IsInjective(Tail(flush)) /\ ToFlush = Range(Tail(flush))
    BY <2>1, TakeFirst DEF HeldOnce, ToFlush
  <2>3. CASE Tail(flush) = <<>>
    <3>1. Len(flush) = 1
      <4>1. Len(Tail(flush)) = Len(flush) - 1 /\ Len(flush) \in Nat
        BY <2>1
      <4>2. Len(<<>>) = 0
        OBVIOUS
      <4>3. Len(Tail(flush)) = 0
        BY <2>3, <4>2, Zenon
      <4>4. QED
        BY <4>1, <4>3
    <3>2. QED
      BY <1>4, <2>1, <2>2, <2>3, <3>1 DEF ToFlush
  <2>4. CASE Tail(flush) # <<>>
    <3> DEFINE n == Head(Tail(flush))
    <3>1. Len(flush) # 1 /\ flush[2] = n
      BY <2>1, <2>4
    <3>2. /\ n \in Msgs /\ Range(Tail(flush)) = {n} \cup Range(Tail(Tail(flush)))
          /\ n \notin Range(Tail(Tail(flush)))
      BY <2>2, <2>4, TakeFirst
    <3>3. ToFlush' = Range(Tail(Tail(flush)))
      BY <2>1, <2>4 DEF ToFlush
    <3>4. writing' = Append(others, [msg |-> n, chained |-> TRUE])
      BY <2>1, <3>1
    <3> HIDE DEF n
    <3>5. n \notin left /\ n # m /\ n \in ToFlush
      BY <1>1, <1>2, <2>2, <3>2 DEF HeldOnce
    <3>6. /\ Written' = left \cup {n}
          /\ \A k, l \in DOMAIN writing' : writing'[k].msg = writing'[l].msg => k = l
      <4> HIDE DEF others
      <4>1. WsTypeOK
        BY DEF WsInv
      <4>2. QED
        BY <1>1, <3>2, <3>4, <3>5, <4>1, WriteBegins
    <3> HIDE DEF others, left, m
    <3>7. ToFlush' \subseteq ToFlush /\ n \notin ToFlush'
      BY <2>2, <3>2, <3>3
    <3>8. QED
      BY <1>1, <1>2, <1>3, <2>1, <2>2, <3>5, <3>6, <3>7 DEF HeldOnce, ClientHolds, m
  <2>5. QED
    BY <2>3, <2>4
<1>7. QED
  BY <1>5, <1>6

----------------------------------------------------------------------------
(* Types. *)

LEMMA TypesSuffice == Types => TypeOK
  BY Zenon DEF Types, TypeOK, WsInv, CallTypes, MapTypes, ServerTypes

\* The steps by what they are: a post begins (Posts), or goes on (Caller); the io thread,
\* the exchange or the network moves, and the callers stay where they are (Others).
Posts(c, op, target) ==
    /\ Register(c, op, target)
    /\ \/ op \in {"place", "ioc"} /\ target = None
       \/ op = "cancel" /\ target \in KnownOrders

Others ==
    \/ IoThread
    \/ \E i \in DOMAIN writing : RequestFails(i)
    \/ \E id \in toServer : Serve(id)
    \/ \E id \in book : LeavesBook(id)
    \/ Break
    \/ Stop

LEMMA StepIs ==
    ASSUME Next
    PROVE  \/ \E c \in Callers, op \in {"place", "ioc", "cancel"}, target \in Ids \cup {None} :
                  Posts(c, op, target)
           \/ \E c \in Callers : Caller(c)
           \/ Others
<1>1. CASE PlaceOrder
  <2>1. PICK op \in Ops \ {"cancel"} : Register(MainThread, op, None)
    BY <1>1 DEF PlaceOrder
  <2>2. MainThread \in Callers /\ op \in {"place", "ioc"}
    BY PostAssumption DEF Callers
  <2>3. QED
    BY <2>1, <2>2 DEF Posts
<1>2. CASE \E c \in Callers : CancelOrder(c)
  <2>1. PICK c \in Callers : CancelOrder(c)
    BY <1>2
  <2>2. PICK id \in KnownOrders : Register(c, "cancel", id)
    BY <2>1 DEF CancelOrder
  <2>3. id \in Ids
    BY DEF KnownOrders
  <2>4. QED
    BY <2>2, <2>3 DEF Posts
<1>3. QED
  BY <1>1, <1>2 DEF Next, Others

LEMMA OthersLeaveCalls == ASSUME Others PROVE UNCHANGED callVars
  BY DEF Others, IoThread, ClientStep, MakeReady, AllFailed, RequestArrives, TakeAnswer,
         RequestFails, Serve, LeavesBook, Break, Stop

\* A caller inside post_action, and its post.
LEMMA CallIs == ASSUME Types, NEW c \in Callers PROVE call[c] \in Ids
  BY DEF Types, CallTypes

LEMMA RequestIs ==
    ASSUME NEW op \in {"place", "ioc", "cancel"}, NEW target \in Ids \cup {None}
    PROVE  [op |-> op, target |-> target] \in Requests
  BY Zenon DEF Requests

LEMMA CallTypesStep == ASSUME Types, Next PROVE CallTypes'
<1>1. ASSUME NEW c \in Callers, NEW op \in {"place", "ioc", "cancel"},
             NEW target \in Ids \cup {None}, Posts(c, op, target)
      PROVE  CallTypes'
  <2>1. /\ nextId \in Ids /\ nextId' = nextId + 1
        /\ request' = [request EXCEPT ![nextId] = [op |-> op, target |-> target]]
        /\ call' = [call EXCEPT ![c] = nextId]
        /\ pc' = [pc EXCEPT ![c] = "registered"]
        /\ got' = got
    BY <1>1 DEF Posts, Register
  <2>2. [op |-> op, target |-> target] \in Requests
    BY RequestIs
  <2>3. nextId' \in 1..(MaxPosts + 1)
    BY <2>1, PostAssumption DEF Ids
  <2>4. request' \in [Ids -> Requests \cup {None}]
    BY <2>1, <2>2 DEF Types, CallTypes
  <2>5. QED
    BY <2>1, <2>3, <2>4 DEF Types, CallTypes
<1>2. ASSUME NEW c \in Callers, Caller(c) PROVE CallTypes'
  <2>1. UNCHANGED <<nextId, request, call>>
    BY <1>2 DEF Caller, SendRequest, ReturnAnswer, TimeOut, EraseAndReturn
  <2>2. \E to \in {"idle", "waiting", "erasing"} : pc' = [pc EXCEPT ![c] = to]
    BY <1>2 DEF Caller, SendRequest, ReturnAnswer, TimeOut, EraseAndReturn
  <2>3. \/ got' = got
        \/ \E body \in Bodies \cup {None} : got' = [got EXCEPT ![call[c]] = body]
    <3>1. entry[call[c]] \in Bodies \cup {None} /\ "timeout" \in Bodies
      BY CallIs DEF Types, MapTypes, Bodies, Failures
    <3>2. QED
      BY <1>2, <3>1 DEF Caller, SendRequest, ReturnAnswer, TimeOut, EraseAndReturn
  <2>4. QED
    BY <2>1, <2>2, <2>3 DEF Types, CallTypes
<1>3. CASE Others
  BY <1>3, OthersLeaveCalls DEF Types, CallTypes, callVars
<1>4. QED
  BY <1>1, <1>2, <1>3, StepIs

LEMMA WsStep == ASSUME Types, Next PROVE WsInv'
<1>0. WsInv
  BY DEF Types
<1>1. ASSUME NEW c \in Callers, SendRequest(c) PROVE WsInv'
  <2>1. call[c] \in Msgs
    BY CallIs, PostAssumption
  <2>2. <<call[c]>> \in Seq(Msgs) /\ Send(<<call[c]>>)
    BY <1>1, <2>1 DEF SendRequest
  <2>3. QED
    BY <1>0, <2>2, CallsKeep
<1>2. CASE ClientStep
  BY <1>0, <1>2, RunSendKeeps, ConnectionKeeps, HandshakeKeeps DEF ClientStep
<1>3. CASE \E i \in DOMAIN writing : RequestArrives(i) \/ RequestFails(i)
  BY <1>0, <1>3, WriteKeeps DEF RequestArrives, RequestFails
<1>4. CASE AllFailed \/ Break
  BY <1>0, <1>4, ConnectionKeeps DEF AllFailed, Break
<1>5. CASE Stop
  BY <1>0, <1>5, CallsKeep DEF Stop
<1>6. ASSUME UNCHANGED wsVars PROVE WsInv'
  BY <1>0, <1>6, CallsKeep
<1>7. ASSUME NEW c \in Callers, ReturnAnswer(c) \/ TimeOut(c) \/ EraseAndReturn(c) PROVE WsInv'
  BY <1>6, <1>7 DEF ReturnAnswer, TimeOut, EraseAndReturn
<1>8. ASSUME NEW c \in Callers, NEW op, NEW target, Posts(c, op, target) PROVE WsInv'
  BY <1>6, <1>8 DEF Posts, Register
<1>9. CASE \/ MakeReady \/ (\E a \in answers : TakeAnswer(a))
           \/ (\E id \in toServer : Serve(id)) \/ (\E id \in book : LeavesBook(id))
  BY <1>6, <1>9 DEF MakeReady, TakeAnswer, Serve, LeavesBook
<1>10. QED
  BY <1>1, <1>2, <1>3, <1>4, <1>5, <1>7, <1>8, <1>9, StepIs DEF Others, IoThread, Caller

\* The loop of on_disconnect meets every pending entry.
LEMMA AllPending ==
    ASSUME NEW S, IsFiniteSet(S), NEW s \in SetToSeqs(S)
    PROVE  /\ Cardinality(S) \in Nat /\ s \in [1..Cardinality(S) -> S]
           /\ \A x \in S : \E k \in DOMAIN s : s[k] = x
<1> DEFINE D == 1..Cardinality(S)
<1>1. Cardinality(S) \in Nat /\ IsFiniteSet(D) /\ Cardinality(D) = Cardinality(S)
  BY FS_CardinalityType, FS_Interval
<1>2. s \in [D -> S] /\ \A i, j \in D : i # j => s[i] # s[j]
  BY DEF SetToSeqs
<1>3. s \in Injection(D, S)
  BY <1>2 DEF Injection, IsInjective
<1>4. s \in Surjection(D, S)
  BY <1>1, <1>3, FS_Injection
<1>5. QED
  BY <1>1, <1>2, <1>4 DEF Surjection

LEMMA ReplyIs ==
    ASSUME NEW id \in Ids, NEW body \in Results \cup {"disconnect"}
    PROVE  [id |-> id, body |-> body] \in Replies
  BY Zenon DEF Replies

LEMMA ReplyHas == ASSUME NEW a \in Replies PROVE a.id \in Ids /\ a.body \in Results \cup {"disconnect"}
  BY DEF Replies

LEMMA FailIs ==
    ASSUME Types, FailPending
    PROVE  /\ io' = "failing" /\ todo' \in Seq(Replies) /\ TodoIds' = pendingMap
           /\ \A k \in DOMAIN todo' : todo'[k].body = "disconnect"
<1>1. io' = "failing" /\ pendingMap \in SUBSET Ids
  BY DEF FailPending, Types, MapTypes
<1>2. IsFiniteSet(pendingMap)
  <2>1. IsFiniteSet(Ids)
    BY PostAssumption, FS_Interval DEF Ids
  <2>2. QED
    BY <1>1, <2>1, FS_Subset
<1>3. PICK s \in SetToSeqs(pendingMap) :
          todo' = [k \in DOMAIN s |-> [id |-> s[k], body |-> "disconnect"]]
  BY DEF FailPending
<1> DEFINE n == Cardinality(pendingMap)
<1>4. n \in Nat /\ s \in [1..n -> pendingMap] /\ \A x \in pendingMap : \E k \in DOMAIN s : s[k] = x
  BY <1>2, AllPending
<1> HIDE DEF n
<1>5. DOMAIN todo' = 1..n /\ \A k \in 1..n : todo'[k] = [id |-> s[k], body |-> "disconnect"]
  BY <1>3, <1>4
<1>6. \A k \in 1..n : todo'[k].id = s[k] /\ todo'[k].body = "disconnect" /\ todo'[k] \in Replies
  <2> TAKE k \in 1..n
  <2>1. s[k] \in Ids
    BY <1>1, <1>4
  <2>2. QED
    BY <1>5, <2>1, ReplyIs
<1>7. todo' \in [1..n -> Replies]
  BY <1>3, <1>4, <1>5, <1>6
<1>8. todo' \in Seq(Replies)
  BY <1>4, <1>7
<1>9. TodoIds' = pendingMap
  BY <1>4, <1>5, <1>6 DEF TodoIds
<1>10. QED
  BY <1>1, <1>5, <1>6, <1>8, <1>9

\* The next entry a callback makes ready.
LEMMA HeadTodo ==
    ASSUME Types, todo # <<>>
    PROVE  /\ Head(todo).id \in Ids /\ Head(todo).body \in Results \cup {"disconnect"}
           /\ Tail(todo) \in Seq(Replies)
           /\ TodoIds = {Head(todo).id} \cup {Tail(todo)[k].id : k \in DOMAIN Tail(todo)}
           /\ \A k \in DOMAIN Tail(todo) : \E l \in DOMAIN todo : Tail(todo)[k] = todo[l]
           /\ 1 \in DOMAIN todo /\ Head(todo) = todo[1]
<1>1. todo \in Seq(Replies)
  BY DEF Types, MapTypes
<1>2. Head(todo) \in Replies /\ Tail(todo) \in Seq(Replies)
      /\ Range(todo) = {Head(todo)} \cup Range(Tail(todo))
  BY <1>1, TakeFirst
<1>3. 1 \in DOMAIN todo /\ Head(todo) = todo[1]
  BY <1>1
<1>4. \A e : e \in Range(todo) <=> e = Head(todo) \/ e \in Range(Tail(todo))
  BY <1>2
<1>5. TodoIds = {Head(todo).id} \cup {Tail(todo)[k].id : k \in DOMAIN Tail(todo)}
  <2>1. \A x : x \in TodoIds <=> \E e \in Range(todo) : e.id = x
    BY DEF TodoIds, Range
  <2>2. \A x : x \in {Tail(todo)[k].id : k \in DOMAIN Tail(todo)}
                <=> \E e \in Range(Tail(todo)) : e.id = x
    BY DEF Range
  <2>3. QED
    BY <1>4, <2>1, <2>2
<1>6. \A k \in DOMAIN Tail(todo) : \E l \in DOMAIN todo : Tail(todo)[k] = todo[l]
  BY <1>4 DEF Range
<1>7. QED
  BY <1>2, <1>3, <1>5, <1>6, ReplyHas

LEMMA MapTypesStep == ASSUME Types, Next PROVE MapTypes'
<1>0. MapTypes
  BY DEF Types
<1>1. ASSUME NEW c \in Callers, NEW op, NEW target, Posts(c, op, target) PROVE MapTypes'
  BY <1>0, <1>1 DEF Posts, Register, MapTypes
<1>2. ASSUME NEW c \in Callers, Caller(c) PROVE MapTypes'
  BY <1>0, <1>2 DEF Caller, SendRequest, ReturnAnswer, TimeOut, EraseAndReturn, MapTypes, mapVars
<1>3. ASSUME NEW a \in answers, TakeAnswer(a) PROVE MapTypes'
  <2>1. <<a>> \in Seq(Replies)
    BY DEF Types, ServerTypes
  <2>2. pendingMap' \in SUBSET Ids /\ io' \in {"loop", "answering", "failing"} /\ entry' = entry
        /\ (todo' = todo \/ todo' = <<a>>)
    BY <1>0, <1>3 DEF TakeAnswer, MapTypes
  <2>3. QED
    BY <1>0, <2>1, <2>2 DEF MapTypes
<1>4. CASE MakeReady
  <2>1. Head(todo).id \in Ids /\ Head(todo).body \in Bodies \cup {None} /\ Tail(todo) \in Seq(Replies)
    BY <1>4, HeadTodo DEF MakeReady, Bodies, Failures
  <2>2. entry' \in [Ids -> Bodies \cup {None}]
    BY <1>0, <1>4, <2>1 DEF MakeReady, MapTypes
  <2>3. QED
    BY <1>0, <1>4, <2>1, <2>2 DEF MakeReady, MapTypes
<1>5. CASE Break
  BY <1>0, <1>5, FailIs DEF Break, MapTypes
<1>6. CASE AllFailed
  BY <1>0, <1>6 DEF AllFailed, MapTypes
<1>7. CASE UNCHANGED mapVars
  BY <1>0, <1>7 DEF MapTypes, mapVars
<1>8. CASE \/ ClientStep \/ Stop \/ (\E i \in DOMAIN writing : RequestArrives(i) \/ RequestFails(i))
           \/ (\E id \in toServer : Serve(id)) \/ (\E id \in book : LeavesBook(id))
  BY <1>7, <1>8 DEF ClientStep, Stop, RequestArrives, RequestFails, Serve, LeavesBook
<1>9. QED
  BY <1>1, <1>2, <1>3, <1>4, <1>5, <1>6, <1>8, StepIs DEF Others, IoThread

\* What the exchange may do with a post.
LEMMA OutcomeIs ==
    ASSUME Types, NEW id \in Made, NEW result \in Outcomes(id)
    PROVE  /\ result \in Results
           /\ request[id] \in Requests
           /\ BookAfter(id, result) \subseteq book \cup {id}
           /\ id \in BookAfter(id, result) /\ id \notin book =>
                  request[id].op = "place" /\ result = "ok"
           /\ request[id].op = "cancel" /\ result # "reject" =>
                  request[id].target \notin BookAfter(id, result)
<1>1. request[id] \in Requests /\ id \in Ids
  BY DEF Types, CallTypes, Made
<1>2. request[id].op \in {"place", "cancel", "ioc"}
  BY <1>1 DEF Requests
<1>3. CASE request[id].op = "place"
  <2>1. Outcomes(id) = Results
    BY <1>3 DEF Outcomes
  <2>2. BookAfter(id, result) = IF result = "ok" THEN book \cup {id} ELSE book
    BY <1>3 DEF BookAfter
  <2>3. QED
    BY <1>1, <1>3, <2>1, <2>2
<1>4. CASE request[id].op = "ioc"
  <2>1. Outcomes(id) = {"filled", "error", "reject"}
    BY <1>4 DEF Outcomes
  <2>2. BookAfter(id, result) = book
    BY <1>4 DEF BookAfter
  <2>3. QED
    BY <1>1, <1>4, <2>1, <2>2 DEF Results
<1>5. CASE request[id].op = "cancel"
  <2>1. Outcomes(id) = IF request[id].target \in book THEN {"ok", "reject"} ELSE {"error", "reject"}
    BY <1>5 DEF Outcomes
  <2>2. BookAfter(id, result) = IF result = "ok" THEN book \ {request[id].target} ELSE book
    BY <1>5 DEF BookAfter
  <2>3. QED
    BY <1>1, <1>5, <2>1, <2>2 DEF Results
<1>6. QED
  BY <1>2, <1>3, <1>4, <1>5

LEMMA ActTypes ==
    ASSUME Types, NEW id \in Made, NEW result \in Outcomes(id), Acts(id, result)
    PROVE  executed' \in [Ids -> Nat] /\ served' \in [Ids -> Results \cup {None}]
           /\ book' \in SUBSET Ids
<1>1. id \in Ids /\ result \in Results /\ BookAfter(id, result) \subseteq book \cup {id}
  BY OutcomeIs DEF Made
<1>2. executed[id] \in Nat
  BY <1>1 DEF Types, ServerTypes
<1>3. QED
  BY <1>1, <1>2 DEF Types, ServerTypes, Acts

LEMMA ServerTypesStep == ASSUME Types, Passage, Next PROVE ServerTypes'
<1>0. ServerTypes
  BY DEF Types
<1>1. CASE UNCHANGED serverVars
  BY <1>0, <1>1 DEF ServerTypes, serverVars
<1>2. ASSUME NEW c \in Callers, NEW op, NEW target, Posts(c, op, target) PROVE ServerTypes'
  BY <1>1, <1>2 DEF Posts, Register
<1>3. ASSUME NEW c \in Callers, Caller(c) PROVE ServerTypes'
  BY <1>1, <1>3 DEF Caller, SendRequest, ReturnAnswer, TimeOut, EraseAndReturn
<1>4. ASSUME NEW i \in DOMAIN writing, RequestArrives(i) PROVE ServerTypes'
  <2>1. writing[i].msg \in Ids
    <3>1. writing \in Seq(Writes)
      BY DEF Types, WsInv, WsTypeOK
    <3>2. writing[i] \in Writes
      BY <3>1
    <3>3. QED
      BY <3>2, PostAssumption DEF Writes
  <2>2. QED
    BY <1>0, <1>4, <2>1 DEF RequestArrives, ServerTypes
<1>5. ASSUME NEW a \in answers, TakeAnswer(a) PROVE ServerTypes'
  BY <1>0, <1>5 DEF TakeAnswer, ServerTypes
<1>6. ASSUME NEW id \in toServer, Serve(id) PROVE ServerTypes'
  <2>1. PICK result \in Outcomes(id) :
            Acts(id, result) /\ answers' = answers \cup {[id |-> id, body |-> result]}
    BY <1>6 DEF Serve
  <2>2. id \in Made /\ id \in Ids
    BY DEF Passage, Made
  <2>3. result \in Results
    BY <2>2, OutcomeIs
  <2>4. [id |-> id, body |-> result] \in Replies
    BY <2>2, <2>3, ReplyIs
  <2>5. QED
    BY <1>0, <1>6, <2>1, <2>2, <2>4, ActTypes DEF Serve, ServerTypes
<1>7. CASE Break
  <2>1. toServer' = {} /\ answers' = {}
    BY <1>7 DEF Break
  <2>2. CASE UNCHANGED <<executed, served, book>>
    BY <1>0, <2>1, <2>2 DEF ServerTypes
  <2>3. ASSUME NEW id \in toServer \cup Written, NEW result \in Outcomes(id), Acts(id, result)
        PROVE  ServerTypes'
    <3>1. id \in Made
      BY DEF Passage, ClientHolds
    <3>2. QED
      BY <2>1, <2>3, <3>1, ActTypes DEF ServerTypes
  <2>4. QED
    BY <1>7, <2>2, <2>3 DEF Break
<1>8. ASSUME NEW id \in book, LeavesBook(id) PROVE ServerTypes'
  BY <1>0, <1>8 DEF LeavesBook, ServerTypes
<1>9. CASE ClientStep \/ Stop \/ MakeReady \/ AllFailed \/ (\E i \in DOMAIN writing : RequestFails(i))
  BY <1>1, <1>9 DEF ClientStep, Stop, MakeReady, AllFailed, RequestFails
<1>10. QED
  BY <1>2, <1>3, <1>4, <1>5, <1>6, <1>7, <1>8, <1>9, StepIs DEF Others, IoThread

LEMMA TypesStep == ASSUME Types, Passage, Next PROVE Types'
  BY WsStep, CallTypesStep, MapTypesStep, ServerTypesStep DEF Types

----------------------------------------------------------------------------
(* The callers and the way of a post. *)

\* What a new post changes.
LEMMA PostMade ==
    ASSUME Types, NEW c \in Callers, NEW op \in {"place", "ioc", "cancel"},
           NEW target \in Ids \cup {None}, Posts(c, op, target)
    PROVE  /\ nextId \in Ids /\ nextId' = nextId + 1 /\ Made' = Made \cup {nextId}
           /\ request'[nextId] = [op |-> op, target |-> target]
           /\ \A id \in Ids \ {nextId} : request'[id] = request[id]
           /\ pc[c] = "idle" /\ pc'[c] = "registered" /\ call'[c] = nextId
           /\ \A d \in Callers \ {c} : pc'[d] = pc[d] /\ call'[d] = call[d]
<1>1. /\ nextId \in Ids /\ nextId' = nextId + 1 /\ pc[c] = "idle"
      /\ request' = [request EXCEPT ![nextId] = [op |-> op, target |-> target]]
      /\ call' = [call EXCEPT ![c] = nextId]
      /\ pc' = [pc EXCEPT ![c] = "registered"]
  BY DEF Posts, Register
<1>2. /\ request'[nextId] = [op |-> op, target |-> target]
      /\ \A id \in Ids \ {nextId} : request'[id] = request[id]
  BY <1>1 DEF Types, CallTypes
<1>3. /\ pc'[c] = "registered" /\ call'[c] = nextId
      /\ \A d \in Callers \ {c} : pc'[d] = pc[d] /\ call'[d] = call[d]
  BY <1>1 DEF Types, CallTypes
<1>4. request'[nextId] # None
  BY <1>2, RequestIs, PostAssumption
<1>5. Made' = Made \cup {nextId}
  BY <1>1, <1>2, <1>4 DEF Made
<1>6. QED
  BY <1>1, <1>2, <1>3, <1>5

\* A caller that goes on.
LEMMA CallGoesOn ==
    ASSUME Types, NEW c \in Callers, Caller(c)
    PROVE  /\ UNCHANGED <<nextId, request, call>> /\ Made' = Made
           /\ pc[c] # "idle"
           /\ \A d \in Callers \ {c} : pc'[d] = pc[d]
           /\ pc'[c] \in {"idle", "waiting", "erasing"}
           /\ pc'[c] # "idle" => got' = got
           /\ pc'[c] = "idle" => \E body \in Bodies : got' = [got EXCEPT ![call[c]] = body]
<1>1. UNCHANGED <<nextId, request, call>> /\ pc[c] # "idle"
  BY DEF Caller, SendRequest, ReturnAnswer, TimeOut, EraseAndReturn
<1>2. pc \in [Callers -> {"idle", "registered", "waiting", "erasing"}]
  BY DEF Types, CallTypes
<1>3. CASE SendRequest(c) \/ TimeOut(c)
  <2>1. got' = got /\ \E to \in {"waiting", "erasing"} : pc' = [pc EXCEPT ![c] = to]
    BY <1>3 DEF SendRequest, TimeOut
  <2>2. QED
    BY <1>1, <1>2, <2>1 DEF Made
<1>4. CASE ReturnAnswer(c) \/ EraseAndReturn(c)
  <2>1. pc' = [pc EXCEPT ![c] = "idle"]
    BY <1>4 DEF ReturnAnswer, EraseAndReturn
  <2>2. \E body \in Bodies : got' = [got EXCEPT ![call[c]] = body]
    <3>1. call[c] \in Ids
      BY CallIs
    <3>2. entry[call[c]] \in Bodies \cup {None} /\ "timeout" \in Bodies
      BY <3>1 DEF Types, MapTypes, Bodies, Failures
    <3>3. QED
      BY <1>4, <3>2 DEF ReturnAnswer, EraseAndReturn
  <2>3. QED
    BY <1>1, <1>2, <2>1, <2>2 DEF Made
<1>5. QED
  BY <1>3, <1>4 DEF Caller

LEMMA UnderWayStep == ASSUME Types, UnderWay, Next PROVE UnderWay'
<1>0. /\ call \in [Callers -> Ids] /\ got \in [Ids -> Bodies \cup {None}] /\ nextId \in Nat
      /\ Ids \subseteq Nat /\ Made \subseteq Ids /\ None \notin Bodies
  BY PostAssumption DEF Types, CallTypes, Ids, Made
<1>1. ASSUME NEW c \in Callers, NEW op \in {"place", "ioc", "cancel"},
             NEW target \in Ids \cup {None}, Posts(c, op, target)
      PROVE  UnderWay'
  <2>1. /\ nextId \in Ids /\ nextId' = nextId + 1 /\ Made' = Made \cup {nextId}
        /\ pc[c] = "idle" /\ pc'[c] = "registered" /\ call'[c] = nextId
        /\ \A d \in Callers \ {c} : pc'[d] = pc[d] /\ call'[d] = call[d]
    BY <1>1, PostMade
  <2>2. got' = got /\ entry' = entry
    BY <1>1 DEF Posts, Register
  <2>3. nextId \notin Made
    BY <1>0, <2>1 DEF UnderWay
  <2>4. \A id \in Ids : id \in Made' <=> id < nextId'
    BY <1>0, <2>1 DEF UnderWay
  <2>5. \A d \in Callers : pc'[d] # "idle" => call'[d] \in Made' /\ got'[call'[d]] = None
    BY <2>1, <2>2, <2>3 DEF UnderWay
  <2>6. \A d, e \in Callers : pc'[d] # "idle" /\ pc'[e] # "idle" /\ call'[d] = call'[e] => d = e
    BY <2>1, <2>3 DEF UnderWay
  <2>7. \A id \in Made' : got'[id] = None => \E d \in Callers : pc'[d] # "idle" /\ call'[d] = id
    BY <2>1, <2>2 DEF UnderWay
  <2>8. \A id \in Ids \ Made' : got'[id] = None /\ entry'[id] = None
    BY <2>1, <2>2 DEF UnderWay
  <2>9. pendingMap' \cup TodoIds' \subseteq Made'
    <3>1. pendingMap' = pendingMap \cup {nextId} /\ todo' = todo
      BY <1>1 DEF Posts, Register
    <3>2. QED
      BY <2>1, <3>1 DEF UnderWay, TodoIds
  <2>10. QED
    BY <2>4, <2>5, <2>6, <2>7, <2>8, <2>9 DEF UnderWay
<1>2. ASSUME NEW c \in Callers, Caller(c) PROVE UnderWay'
  <2>1. /\ UNCHANGED <<nextId, request, call>> /\ Made' = Made
        /\ pc[c] # "idle"
        /\ \A d \in Callers \ {c} : pc'[d] = pc[d]
        /\ pc'[c] \in {"idle", "waiting", "erasing"}
        /\ pc'[c] # "idle" => got' = got
        /\ pc'[c] = "idle" => \E body \in Bodies : got' = [got EXCEPT ![call[c]] = body]
    BY <1>2, CallGoesOn
  <2>2. entry' = entry /\ pendingMap' \subseteq pendingMap /\ TodoIds' = TodoIds
    BY <1>2 DEF Caller, SendRequest, ReturnAnswer, TimeOut, EraseAndReturn, mapVars, TodoIds
  <2>3. CASE pc'[c] # "idle"
    BY <2>1, <2>2, <2>3 DEF UnderWay
  <2>4. CASE pc'[c] = "idle"
    <3>1. PICK body \in Bodies : got' = [got EXCEPT ![call[c]] = body]
      BY <2>1, <2>4
    <3>2. call[c] \in Made /\ got'[call[c]] = body /\ body # None
          /\ \A id \in Ids \ {call[c]} : got'[id] = got[id]
      BY <1>0, <2>1, <3>1 DEF UnderWay
    <3>3. \A d \in Callers : pc'[d] # "idle" => call'[d] \in Made' /\ got'[call'[d]] = None
      BY <1>0, <2>1, <2>4, <3>2 DEF UnderWay
    <3>4. \A id \in Made' : got'[id] = None => \E d \in Callers : pc'[d] # "idle" /\ call'[d] = id
      BY <1>0, <2>1, <3>2 DEF UnderWay
    <3>5. \A id \in Ids \ Made' : got'[id] = None /\ entry'[id] = None
      BY <2>1, <2>2, <3>2 DEF UnderWay
    <3>6. QED
      BY <2>1, <2>2, <2>4, <3>3, <3>4, <3>5 DEF UnderWay
  <2>5. QED
    BY <2>3, <2>4
<1>3. CASE Others
  <2>1. UNCHANGED <<nextId, request, pc, call, got>> /\ Made' = Made
    BY <1>3, OthersLeaveCalls DEF callVars, Made
  <2>2. \A id \in Ids \ Made : entry'[id] = None
    <3>1. CASE MakeReady
      <4>1. todo # <<>> /\ entry' = [entry EXCEPT ![Head(todo).id] = Head(todo).body]
        BY <3>1 DEF MakeReady
      <4>2. Head(todo).id \in Made
        BY <4>1, HeadTodo DEF UnderWay
      <4>3. QED
        BY <4>1, <4>2 DEF UnderWay, Types, MapTypes
    <3>2. CASE entry' = entry
      BY <3>2 DEF UnderWay
    <3>3. QED
      BY <1>3, <3>1, <3>2 DEF Others, IoThread, ClientStep, AllFailed, RequestArrives, TakeAnswer,
         RequestFails, Serve, LeavesBook, Break, Stop, mapVars
  <2>3. pendingMap' \cup TodoIds' \subseteq Made
    <3>1. CASE MakeReady
      <4>1. todo # <<>> /\ todo' = Tail(todo) /\ pendingMap' = pendingMap
        BY <3>1 DEF MakeReady
      <4>2. TodoIds' \subseteq TodoIds
        BY <4>1, HeadTodo DEF TodoIds
      <4>3. QED
        BY <4>1, <4>2 DEF UnderWay
    <3>2. ASSUME NEW a \in answers, TakeAnswer(a) PROVE pendingMap' \cup TodoIds' \subseteq Made
      <4>1. CASE UNCHANGED <<pendingMap, todo>>
        BY <4>1 DEF UnderWay, TodoIds
      <4>2. CASE a.id \in pendingMap /\ pendingMap' = pendingMap \ {a.id} /\ todo' = <<a>>
        <5>1. TodoIds' = {a.id}
          BY <4>2 DEF TodoIds
        <5>2. QED
          BY <4>2, <5>1 DEF UnderWay
      <4>3. QED
        BY <3>2, <4>1, <4>2 DEF TakeAnswer
    <3>3. CASE Break
      <4>1. pendingMap' = pendingMap /\ (todo' = todo \/ FailPending)
        BY <3>3 DEF Break
      <4>2. TodoIds' = TodoIds \/ TodoIds' = pendingMap
        BY <4>1, FailIs DEF TodoIds
      <4>3. QED
        BY <4>1, <4>2 DEF UnderWay
    <3>4. CASE pendingMap' \subseteq pendingMap /\ todo' = todo
      BY <3>4 DEF UnderWay, TodoIds
    <3>5. QED
      BY <1>3, <3>1, <3>2, <3>3, <3>4 DEF Others, IoThread, ClientStep, AllFailed, RequestArrives,
         RequestFails, Serve, LeavesBook, Stop, mapVars
  <2>4. QED
    BY <2>1, <2>2, <2>3 DEF UnderWay
<1>4. QED
  BY <1>1, <1>2, <1>3, StepIs

\* Posts stay where they are, or go forward without an execution.
LEMMA PassageKeeps ==
    ASSUME Passage, HeldOnce', ClientHolds' \subseteq ClientHolds, toServer' \subseteq toServer,
           UNCHANGED <<request, call, executed, served>>,
           \A c \in Callers : pc'[c] = "registered" => pc[c] = "registered"
    PROVE  Passage'
<1>1. Made' = Made
  BY DEF Made
<1>2. QED
  BY <1>1 DEF Passage

\* The exchange acts on a post that reached it, or that was on its way.
LEMMA PassageActs ==
    ASSUME Types, Passage, NEW id \in ClientHolds \cup toServer, NEW result \in Outcomes(id),
           Acts(id, result), HeldOnce', ClientHolds' \subseteq ClientHolds \ {id},
           toServer' \subseteq toServer \ {id}, UNCHANGED callVars
    PROVE  Passage' /\ served[id] = None /\ result \in Results
<1>1. id \in Made /\ id \in Ids /\ executed[id] = 0 /\ served[id] = None
  BY DEF Passage, Made
<1>2. UNCHANGED <<request, call, pc>> /\ Made' = Made
  BY DEF callVars, Made
<1>3. result \in Results /\ None \notin Results
  BY <1>1, OutcomeIs, PostAssumption DEF Bodies
<1>4. /\ executed'[id] = 1 /\ \A other \in Ids \ {id} : executed'[other] = executed[other]
      /\ served'[id] = result /\ \A other \in Ids \ {id} : served'[other] = served[other]
  BY <1>1 DEF Acts, Types, ServerTypes
<1>5. \A x \in ClientHolds' \cup toServer' : x \in Made' /\ executed'[x] = 0
  BY <1>2, <1>4 DEF Passage, Made
<1>6. \A c \in Callers : pc'[c] = "registered" =>
          call'[c] \notin ClientHolds' \cup toServer' /\ executed'[call'[c]] = 0
  BY <1>2, <1>4, CallIs DEF Passage
<1>7. \A x \in Ids : \/ executed'[x] = 0 /\ served'[x] = None
                     \/ executed'[x] = 1 /\ served'[x] # None /\ x \in Made'
  BY <1>1, <1>2, <1>3, <1>4 DEF Passage
<1>8. QED
  BY <1>1, <1>3, <1>5, <1>6, <1>7 DEF Passage

LEMMA PassageStep == ASSUME Types, UnderWay, Passage, Next PROVE Passage'
<1>0. WsInv /\ HeldOnce
  BY DEF Types, Passage
<1>1. ASSUME NEW c \in Callers, NEW op \in {"place", "ioc", "cancel"},
             NEW target \in Ids \cup {None}, Posts(c, op, target)
      PROVE  Passage'
  <2>1. /\ nextId \in Ids /\ Made' = Made \cup {nextId}
        /\ pc'[c] = "registered" /\ call'[c] = nextId
        /\ \A d \in Callers \ {c} : pc'[d] = pc[d] /\ call'[d] = call[d]
    BY <1>1, PostMade
  <2>2. UNCHANGED wsVars /\ UNCHANGED <<toServer, executed, served>>
    BY <1>1 DEF Posts, Register, serverVars
  <2>3. HeldOnce' /\ ClientHolds' = ClientHolds
    BY <2>2 DEF wsVars, HeldOnce, ClientHolds, ToFlush, Written, Passage
  <2>4. nextId \notin Made
    BY <2>1, PostAssumption DEF UnderWay, Ids
  <2>5. nextId \notin ClientHolds \cup toServer /\ executed[nextId] = 0
    BY <2>1, <2>4 DEF Passage
  <2>6. QED
    BY <2>1, <2>2, <2>3, <2>5 DEF Passage
<1>2. ASSUME NEW c \in Callers, SendRequest(c) PROVE Passage'
  <2>1. /\ pc[c] = "registered" /\ Send(<<call[c]>>) /\ pc' = [pc EXCEPT ![c] = "waiting"]
        /\ UNCHANGED <<request, call, toServer, executed, served>>
    BY <1>2 DEF SendRequest, serverVars
  <2>2. call[c] \in Made /\ call[c] \in Msgs /\ call[c] \notin ClientHolds \cup toServer
        /\ executed[call[c]] = 0
    BY <2>1, CallIs, PostAssumption DEF UnderWay, Passage
  <2>3. HeldOnce' /\ ClientHolds' = ClientHolds \cup {call[c]}
    BY <1>0, <2>1, <2>2, SendHolds
  <2>4. \A d \in Callers : pc'[d] = "registered" =>
            pc[d] = "registered" /\ call[d] # call[c]
    BY <2>1 DEF UnderWay, Types, CallTypes
  <2>5. Made' = Made
    BY <2>1 DEF Made
  <2>6. QED
    BY <2>1, <2>2, <2>3, <2>4, <2>5 DEF Passage
<1>3. ASSUME UNCHANGED wsVars, UNCHANGED <<request, call, toServer, executed, served>>,
             \A c \in Callers : pc'[c] = "registered" => pc[c] = "registered"
      PROVE  Passage'
  <2>1. HeldOnce' /\ ClientHolds' = ClientHolds
    BY <1>3 DEF wsVars, HeldOnce, ClientHolds, ToFlush, Written, Passage
  <2>2. QED
    BY <1>3, <2>1, PassageKeeps
<1>4. ASSUME NEW c \in Callers, ReturnAnswer(c) \/ TimeOut(c) \/ EraseAndReturn(c) PROVE Passage'
  <2>1. UNCHANGED wsVars /\ UNCHANGED <<request, call, toServer, executed, served>>
    BY <1>4 DEF ReturnAnswer, TimeOut, EraseAndReturn, serverVars
  <2>2. \A d \in Callers : pc'[d] = "registered" => pc[d] = "registered"
    BY <1>4 DEF ReturnAnswer, TimeOut, EraseAndReturn, Types, CallTypes
  <2>3. QED
    BY <1>3, <2>1, <2>2
<1>5. CASE \/ MakeReady \/ (\E a \in answers : TakeAnswer(a)) \/ (\E id \in book : LeavesBook(id))
  BY <1>3, <1>5 DEF MakeReady, TakeAnswer, LeavesBook, callVars, serverVars
<1>6. CASE ClientStep \/ AllFailed \/ Stop
  <2>1. UNCHANGED <<request, call, pc, toServer, executed, served>>
    BY <1>6 DEF ClientStep, AllFailed, Stop, callVars, serverVars
  <2>2. RunSend \/ ConnectFails \/ RetryDue \/ Handshake \/ DoClose \/ ScheduleReconnect \/ Close
    BY <1>6 DEF ClientStep, AllFailed, Stop
  <2>3. HeldOnce' /\ ClientHolds' \subseteq ClientHolds
    BY <1>0, <2>2, RunSendHolds, HandshakeHolds, ConnectionHolds
  <2>4. QED
    BY <2>1, <2>3, PassageKeeps
<1>7. ASSUME NEW i \in DOMAIN writing, RequestFails(i) PROVE Passage'
  <2>1. UNCHANGED <<request, call, pc, toServer, executed, served>> /\ WriteFails(i)
    BY <1>7 DEF RequestFails, callVars, serverVars
  <2>2. HeldOnce' /\ ClientHolds' \subseteq ClientHolds
    BY <1>0, <2>1, WriteHolds
  <2>3. QED
    BY <2>1, <2>2, PassageKeeps
<1>8. ASSUME NEW i \in DOMAIN writing, RequestArrives(i) PROVE Passage'
  <2>1. UNCHANGED <<request, call, pc, executed, served>> /\ WriteDone(i)
        /\ toServer' = toServer \cup {writing[i].msg}
    BY <1>8 DEF RequestArrives, callVars
  <2>2. /\ HeldOnce' /\ ClientHolds' \subseteq ClientHolds
        /\ writing[i].msg \in ClientHolds /\ writing[i].msg \notin ClientHolds'
    BY <1>0, <2>1, WriteHolds DEF ClientHolds
  <2>3. Made' = Made
    BY <2>1 DEF Made
  <2>4. QED
    BY <2>1, <2>2, <2>3 DEF Passage
<1>9. ASSUME NEW id \in toServer, Serve(id) PROVE Passage'
  <2>1. PICK result \in Outcomes(id) : Acts(id, result)
    BY <1>9 DEF Serve
  <2>2. UNCHANGED wsVars /\ UNCHANGED callVars /\ toServer' = toServer \ {id}
    BY <1>9 DEF Serve
  <2>3. HeldOnce' /\ ClientHolds' = ClientHolds /\ id \notin ClientHolds
    BY <2>2 DEF wsVars, HeldOnce, ClientHolds, ToFlush, Written, Passage
  <2>4. QED
    BY <2>1, <2>2, <2>3, PassageActs
<1>10. CASE Break
  <2>1. ReadFails /\ toServer' = {} /\ UNCHANGED callVars
    BY <1>10 DEF Break
  <2>2. HeldOnce' /\ ClientHolds' \subseteq ClientHolds /\ ClientHolds' \cap Written = {}
    BY <1>0, <2>1, ConnectionHolds
  <2>3. CASE UNCHANGED <<executed, served, book>>
    BY <2>1, <2>2, <2>3, PassageKeeps DEF callVars
  <2>4. ASSUME NEW id \in toServer \cup Written, NEW result \in Outcomes(id), Acts(id, result)
        PROVE  Passage'
    <3>1. id \in ClientHolds \cup toServer /\ ClientHolds' \subseteq ClientHolds \ {id}
      BY <2>2 DEF Passage, ClientHolds
    <3>2. QED
      BY <2>1, <2>2, <2>4, <3>1, PassageActs
  <2>5. QED
    BY <1>10, <2>3, <2>4 DEF Break
<1>11. QED
  BY <1>1, <1>2, <1>4, <1>5, <1>6, <1>7, <1>8, <1>9, <1>10, StepIs DEF Others, IoThread, Caller

\* A step leaves what the exchange did, or the exchange acts on one post for the first time.
LEMMA ActsOnce ==
    ASSUME Types, Passage, Next
    PROVE  \/ UNCHANGED <<executed, served>> /\ book' \subseteq book
           \/ /\ Break \/ \E x \in toServer : Serve(x)
              /\ \E id \in Made : \E result \in Outcomes(id) :
                    /\ Acts(id, result) /\ executed[id] = 0 /\ served[id] = None
                    /\ result \in Results
<1>1. ASSUME NEW id \in ClientHolds \cup toServer, NEW result \in Outcomes(id), Acts(id, result),
             Break \/ \E x \in toServer : Serve(x)
      PROVE  /\ Break \/ \E x \in toServer : Serve(x)
             /\ \E y \in Made : \E r \in Outcomes(y) :
                    Acts(y, r) /\ executed[y] = 0 /\ served[y] = None /\ r \in Results
  <2>1. id \in Made /\ executed[id] = 0 /\ served[id] = None
    BY DEF Passage, Made
  <2>2. result \in Results
    BY <2>1, OutcomeIs
  <2>3. QED
    BY <1>1, <2>1, <2>2
<1>2. ASSUME NEW id \in toServer, Serve(id)
      PROVE  \E result \in Outcomes(id) : Acts(id, result)
  BY <1>2 DEF Serve
<1>3. CASE Break
  <2>1. \/ UNCHANGED <<executed, served, book>>
        \/ \E id \in toServer \cup Written : \E result \in Outcomes(id) : Acts(id, result)
    BY <1>3 DEF Break
  <2>2. Written \subseteq ClientHolds
    BY DEF ClientHolds
  <2>3. QED
    BY <1>1, <1>3, <2>1, <2>2
<1>4. CASE \E id \in toServer : Serve(id)
  BY <1>1, <1>2, <1>4
<1>5. ASSUME NEW c \in Callers, NEW op, NEW target, Posts(c, op, target)
      PROVE  UNCHANGED serverVars
  BY <1>5 DEF Posts, Register
<1>6. ASSUME NEW c \in Callers, Caller(c) PROVE UNCHANGED serverVars
  BY <1>6 DEF Caller, SendRequest, ReturnAnswer, TimeOut, EraseAndReturn
<1>7. CASE \/ IoThread \/ (\E i \in DOMAIN writing : RequestFails(i))
           \/ (\E id \in book : LeavesBook(id)) \/ Stop
  <2>1. UNCHANGED <<executed, served>> /\ book' \subseteq book
    BY <1>7 DEF IoThread, ClientStep, MakeReady, AllFailed, RequestArrives, TakeAnswer, RequestFails,
                LeavesBook, Stop, serverVars
  <2>2. QED
    BY <2>1
<1>8. CASE UNCHANGED serverVars
  BY <1>8 DEF serverVars
<1>9. QED
  BY <1>3, <1>4, <1>5, <1>6, <1>7, <1>8, StepIs DEF Others

\* What the exchange did stays.
LEMMA ServedStays ==
    ASSUME Types, Passage, Next
    PROVE  \A id \in Ids : served[id] # None => served'[id] = served[id]
<1>1. CASE UNCHANGED <<executed, served>>
  BY <1>1
<1>2. ASSUME NEW id \in Made, NEW result, Acts(id, result), served[id] = None
      PROVE  \A x \in Ids : served[x] # None => served'[x] = served[x]
  BY <1>2 DEF Acts, Types, ServerTypes
<1>3. QED
  BY <1>1, <1>2, ActsOnce

----------------------------------------------------------------------------
(* Answers. *)

LEMMA AnsweredStep == ASSUME Types, UnderWay, Passage, Answered, Next PROVE Answered'
<1>0. /\ \A id \in Ids : served[id] # None => served'[id] = served[id]
      /\ None \notin Results /\ None # "disconnect" /\ None # "timeout"
  BY ServedStays, PostAssumption DEF Bodies, Failures
<1>1. \A a \in answers' : a.body \in Results /\ served'[a.id] = a.body
  <2>1. ASSUME NEW a \in answers PROVE a.body \in Results /\ served'[a.id] = a.body
    <3>1. a.id \in Ids
      BY ReplyHas DEF Types, ServerTypes
    <3>2. QED
      BY <1>0, <3>1 DEF Answered
  <2>2. ASSUME NEW id \in toServer, Serve(id), NEW a \in answers' \ answers
        PROVE  a.body \in Results /\ served'[a.id] = a.body
    <3>1. PICK result \in Outcomes(id) :
              Acts(id, result) /\ answers' = answers \cup {[id |-> id, body |-> result]}
      BY <2>2 DEF Serve
    <3>2. a.id = id /\ a.body = result
      BY <3>1
    <3>3. id \in Made /\ id \in Ids
      BY DEF Passage, Made
    <3>4. result \in Results
      BY <3>3, OutcomeIs
    <3>5. served'[id] = result
      BY <3>1, <3>3 DEF Acts, Types, ServerTypes
    <3>6. QED
      BY <3>2, <3>4, <3>5
  <2>3. (\E id \in toServer : Serve(id)) \/ answers' \subseteq answers
    <3>1. ASSUME NEW c \in Callers, NEW op, NEW target, Posts(c, op, target)
          PROVE  answers' \subseteq answers
      BY <3>1 DEF Posts, Register, serverVars
    <3>2. ASSUME NEW c \in Callers, Caller(c) PROVE answers' \subseteq answers
      BY <3>2 DEF Caller, SendRequest, ReturnAnswer, TimeOut, EraseAndReturn, serverVars
    <3>3. CASE Others
      BY <3>3 DEF Others, IoThread, ClientStep, MakeReady, AllFailed, RequestArrives, TakeAnswer,
                  RequestFails, LeavesBook, Break, Stop, serverVars
    <3>4. QED
      BY <3>1, <3>2, <3>3, StepIs
  <2>4. QED
    BY <2>1, <2>2, <2>3
<1>2. ASSUME NEW e \in Range(todo) PROVE e.body \in {"disconnect", served'[e.id]}
  <2>1. e \in Replies
    BY DEF Types, MapTypes, Range
  <2>2. e.id \in Ids /\ e.body \in Results \cup {"disconnect"}
    BY <2>1, ReplyHas
  <2>3. e.body \in {"disconnect", served[e.id]}
    BY DEF Answered, Range
  <2>4. QED
    BY <1>0, <2>2, <2>3
<1>3. ASSUME NEW k \in DOMAIN todo' PROVE todo'[k].body \in {"disconnect", served'[todo'[k].id]}
  <2>1. CASE todo' = todo
    BY <1>2, <2>1 DEF Range
  <2>2. CASE MakeReady
    <3>1. todo # <<>> /\ todo' = Tail(todo)
      BY <2>2 DEF MakeReady
    <3>2. todo'[k] \in Range(todo)
      BY <3>1, HeadTodo DEF Range
    <3>3. QED
      BY <1>2, <3>2
  <2>3. ASSUME NEW a \in answers, TakeAnswer(a), todo' # todo
        PROVE  todo'[k].body \in {"disconnect", served'[todo'[k].id]}
    <3>1. todo' = <<a>>
      BY <2>3 DEF TakeAnswer
    <3>2. todo'[k] = a
      BY <3>1
    <3>3. a.id \in Ids
      BY ReplyHas DEF Types, ServerTypes
    <3>4. served'[a.id] = a.body
      BY <1>0, <3>3 DEF Answered
    <3>5. QED
      BY <3>2, <3>4
  <2>4. CASE Break
    BY <2>1, <2>4, FailIs DEF Break
  <2>5. QED
    <3>1. ASSUME NEW c \in Callers, NEW op, NEW target, Posts(c, op, target) PROVE todo' = todo
      BY <3>1 DEF Posts, Register
    <3>2. ASSUME NEW c \in Callers, Caller(c) PROVE todo' = todo
      BY <3>2 DEF Caller, SendRequest, ReturnAnswer, TimeOut, EraseAndReturn, mapVars
    <3>3. CASE Others
      BY <2>1, <2>2, <2>3, <2>4, <3>3 DEF Others, IoThread, ClientStep, AllFailed, RequestArrives,
                  RequestFails, Serve, LeavesBook, Stop, mapVars
    <3>4. QED
      BY <2>1, <3>1, <3>2, <3>3, StepIs
<1>4. ASSUME NEW id \in Ids PROVE entry'[id] \in {None, "disconnect", served'[id]}
  <2>1. CASE entry'[id] = entry[id]
    BY <1>0, <2>1 DEF Answered
  <2>2. CASE MakeReady
    <3>1. todo # <<>> /\ entry' = [entry EXCEPT ![Head(todo).id] = Head(todo).body]
      BY <2>2 DEF MakeReady
    <3>2. Head(todo) \in Range(todo) /\ Head(todo).id \in Ids
      BY <3>1, HeadTodo DEF Range
    <3>3. Head(todo).body \in {"disconnect", served'[Head(todo).id]}
      BY <1>2, <3>2
    <3>4. CASE id = Head(todo).id
      BY <3>1, <3>3, <3>4 DEF Types, MapTypes
    <3>5. CASE id # Head(todo).id
      BY <2>1, <3>1, <3>5 DEF Types, MapTypes
    <3>6. QED
      BY <3>4, <3>5
  <2>3. QED
    <3>1. ASSUME NEW c \in Callers, NEW op, NEW target, Posts(c, op, target) PROVE entry' = entry
      BY <3>1 DEF Posts, Register
    <3>2. ASSUME NEW c \in Callers, Caller(c) PROVE entry' = entry
      BY <3>2 DEF Caller, SendRequest, ReturnAnswer, TimeOut, EraseAndReturn, mapVars
    <3>3. CASE Others /\ ~MakeReady
      BY <2>1, <3>3 DEF Others, IoThread, ClientStep, AllFailed, RequestArrives, TakeAnswer,
                  RequestFails, Serve, LeavesBook, Break, Stop, mapVars
    <3>4. QED
      BY <2>1, <2>2, <3>1, <3>2, <3>3, StepIs
<1>5. ASSUME NEW id \in Ids PROVE got'[id] \in {None, "disconnect", "timeout", served'[id]}
  <2>1. CASE got'[id] = got[id]
    BY <1>0, <2>1 DEF Answered
  <2>2. ASSUME NEW c \in Callers, Caller(c)
        PROVE  got'[id] \in {None, "disconnect", "timeout", served'[id]}
    <3>1. \/ got' = got
          \/ entry[call[c]] # None /\ got' = [got EXCEPT ![call[c]] = entry[call[c]]]
          \/ got' = [got EXCEPT ![call[c]] = "timeout"]
      BY <2>2 DEF Caller, SendRequest, ReturnAnswer, TimeOut, EraseAndReturn
    <3>2. entry[call[c]] # None => entry[call[c]] \in {"disconnect", served'[call[c]]}
      BY <1>0, CallIs DEF Answered
    <3>3. CASE id = call[c]
      BY <2>1, <3>1, <3>2, <3>3 DEF Types, CallTypes
    <3>4. CASE id # call[c]
      BY <2>1, <3>1, <3>4, CallIs DEF Types, CallTypes
    <3>5. QED
      BY <3>3, <3>4
  <2>3. QED
    <3>1. ASSUME NEW c \in Callers, NEW op, NEW target, Posts(c, op, target) PROVE got' = got
      BY <3>1 DEF Posts, Register
    <3>2. QED
      BY <2>1, <2>2, <3>1, StepIs, OthersLeaveCalls DEF callVars
<1>6. QED
  BY <1>1, <1>3, <1>4, <1>5 DEF Answered

----------------------------------------------------------------------------
(* The book. *)

\* A call is of an order its caller was told of.
LEMMA KnownIs ==
    ASSUME Answered, NEW id \in KnownOrders
    PROVE  id \in Made /\ id \in Ids /\ served[id] # None
<1>1. id \in Made /\ id \in Ids /\ got[id] \in {"ok", "filled"}
  BY DEF KnownOrders, AckOk, Made
<1>2. got[id] = served[id] /\ got[id] # None
  BY <1>1, PostAssumption DEF Answered, Bodies, Results
<1>3. QED
  BY <1>1, <1>2

LEMMA RestingStep == ASSUME Types, UnderWay, Passage, Answered, Resting, Next PROVE Resting'
<1>0. /\ \A id \in Ids : served[id] # None => served'[id] = served[id]
      /\ None \notin Results /\ Made \subseteq Ids
  BY ServedStays, PostAssumption DEF Bodies, Made
<1>1. ASSUME NEW c \in Callers, NEW op \in {"place", "ioc", "cancel"},
             NEW target \in Ids \cup {None}, Posts(c, op, target)
      PROVE  Resting'
  <2>1. /\ nextId \in Ids /\ Made' = Made \cup {nextId}
        /\ request'[nextId] = [op |-> op, target |-> target]
        /\ \A id \in Ids \ {nextId} : request'[id] = request[id]
    BY <1>1, PostMade
  <2>2. served' = served /\ book' = book
    BY <1>1 DEF Posts, Register, serverVars
  <2>3. nextId \notin Made
    BY <2>1, PostAssumption DEF UnderWay, Ids
  <2>4. served[nextId] = None
    BY <2>1, <2>3 DEF Passage
  <2>5. op = "cancel" => target \in Ids /\ served[target] # None
    BY <1>1, KnownIs DEF Posts
  <2>6. request'[nextId].op = op /\ request'[nextId].target = target
    BY <2>1
  <2>7. \A id \in Made : request'[id] = request[id]
    BY <1>0, <2>1, <2>3
  <2>8. \A id \in book' : id \in Made' /\ request'[id].op = "place" /\ served'[id] = "ok"
    BY <2>1, <2>2, <2>7 DEF Resting
  <2>9. ASSUME NEW id \in Made', request'[id].op = "cancel"
        PROVE  /\ request'[id].target \in Ids /\ served'[request'[id].target] # None
               /\ served'[id] \in {"ok", "filled", "error"} => request'[id].target \notin book'
    <3>1. CASE id = nextId
      BY <1>0, <2>2, <2>4, <2>5, <2>6, <2>9, <3>1 DEF Results
    <3>2. CASE id \in Made
      BY <2>2, <2>7, <2>9, <3>2 DEF Resting
    <3>3. QED
      BY <2>1, <3>1, <3>2
  <2>10. QED
    BY <2>8, <2>9 DEF Resting
<1>2. ASSUME request' = request, UNCHANGED <<executed, served>>, book' \subseteq book
      PROVE  Resting'
  BY <1>2 DEF Resting, Made
<1>3. ASSUME request' = request, NEW id \in Made, NEW result \in Outcomes(id), Acts(id, result),
             served[id] = None
      PROVE  Resting'
  <2>1. /\ book' = BookAfter(id, result) /\ id \in Ids /\ Made' = Made
        /\ served'[id] = result /\ \A x \in Ids \ {id} : served'[x] = served[x]
    BY <1>0, <1>3 DEF Acts, Types, ServerTypes, Made
  <2>2. /\ book' \subseteq book \cup {id} /\ id \notin book
        /\ id \in book' => request[id].op = "place" /\ result = "ok"
        /\ request[id].op = "cancel" /\ result # "reject" => request[id].target \notin book'
        /\ result \in Results
    <3>1. id \notin book
      BY <1>3, <1>0 DEF Resting, Results
    <3>2. QED
      BY <1>3, <2>1, <3>1, OutcomeIs
  <2>3. \A x \in book' : x \in Made' /\ request'[x].op = "place" /\ served'[x] = "ok"
    BY <1>0, <1>3, <2>1, <2>2 DEF Resting
  <2>4. ASSUME NEW x \in Made, request[x].op = "cancel"
        PROVE  /\ request[x].target \in Ids /\ served'[request[x].target] # None
               /\ served'[x] \in {"ok", "filled", "error"} => request[x].target \notin book'
    <3>1. request[x].target \in Ids /\ served[request[x].target] # None
      BY <2>4 DEF Resting
    <3>2. served'[request[x].target] # None /\ request[x].target # id
      BY <1>0, <1>3, <3>1
    <3>3. CASE x = id
      BY <2>1, <2>2, <2>4, <3>1, <3>2, <3>3
    <3>4. CASE x # id
      <4>1. served'[x] = served[x]
        BY <1>0, <2>1, <3>4
      <4>2. QED
        BY <2>2, <2>4, <3>1, <3>2, <4>1 DEF Resting
    <3>5. QED
      BY <3>3, <3>4
  <2>5. QED
    BY <1>3, <2>1, <2>3, <2>4 DEF Resting
<1>4. ASSUME request' = request PROVE Resting'
  BY <1>2, <1>3, <1>4, ActsOnce
<1>5. (\E c \in Callers : Caller(c)) => request' = request
  BY CallGoesOn
<1>6. QED
  BY <1>1, <1>4, <1>5, StepIs, OthersLeaveCalls DEF callVars

----------------------------------------------------------------------------
(* The callers that wait. *)

\* Without a connection and outside on_disconnect.
Between == phase \in {"connecting", "timer"}

LEMMA BetweenIs == ASSUME Types PROVE phase \notin {"open", "lost", "closed"} <=> Between
  BY DEF Types, WsInv, WsTypeOK, Phases, Between

LEMMA FailingWhileLost ==
    ASSUME Types, Waiting, Next PROVE io' = "failing" <=> phase' = "lost"
<1>1. ASSUME NEW c \in Callers, NEW op, NEW target, Posts(c, op, target)
      PROVE  UNCHANGED <<io, phase>>
  BY <1>1 DEF Posts, Register, wsVars
<1>2. ASSUME NEW c \in Callers, Caller(c) PROVE UNCHANGED <<io, phase>>
  BY <1>2 DEF Caller, SendRequest, ReturnAnswer, TimeOut, EraseAndReturn, mapVars, wsVars, Send
<1>3. CASE ClientStep
  <2>1. io' = "loop" /\ phase # "lost"
    BY <1>3 DEF ClientStep, mapVars, Waiting
  <2>2. phase' # "lost"
    BY <1>3, <2>1 DEF ClientStep, RunSend, ConnectFails, RetryDue, Handshake, DoClose, AfterReconnect
  <2>3. QED
    BY <2>1, <2>2
<1>4. CASE MakeReady \/ (\E a \in answers : TakeAnswer(a))
  BY <1>4 DEF MakeReady, TakeAnswer, wsVars, Waiting
<1>5. CASE AllFailed
  BY <1>5 DEF AllFailed, ScheduleReconnect, AfterReconnect
<1>6. CASE Break
  BY <1>6 DEF Break, ReadFails, FailPending
<1>7. CASE \/ (\E i \in DOMAIN writing : RequestArrives(i) \/ RequestFails(i)) \/ Stop
           \/ (\E id \in toServer : Serve(id)) \/ (\E id \in book : LeavesBook(id))
  <2>1. UNCHANGED <<io, phase>>
    BY <1>7 DEF RequestArrives, RequestFails, Serve, LeavesBook, Stop, WriteDone, WriteFails, Close,
                mapVars, wsVars
  <2>2. QED
    BY <2>1 DEF Waiting
<1>8. QED
  BY <1>1, <1>2, <1>3, <1>4, <1>5, <1>6, <1>7, StepIs DEF Others, IoThread, Waiting

LEMMA NoneLeft == ASSUME NEW S, NEW s \in Seq(S), Len(s) = 1 PROVE Tail(s) = <<>>
<1>1. Tail(s) \in Seq(S) /\ Len(Tail(s)) = 0
  OBVIOUS
<1>2. QED
  BY <1>1, EmptySeq

\* The callbacks have something to do only while they run.
LEMMA TodoStep ==
    ASSUME Types, Waiting, Next
    PROVE  (io' = "loop" => todo' = <<>>) /\ (io' = "answering" => Len(todo') = 1)
<1>1. CASE UNCHANGED <<io, todo>>
  BY <1>1 DEF Waiting
<1>2. ASSUME NEW a \in answers, TakeAnswer(a)
      PROVE  (io' = "loop" => todo' = <<>>) /\ (io' = "answering" => Len(todo') = 1)
  <2>1. CASE io' = "answering" /\ todo' = <<a>>
    <3>1. Len(<<a>>) = 1
      OBVIOUS
    <3>2. QED
      BY <2>1, <3>1
  <2>2. QED
    BY <1>1, <1>2, <2>1 DEF TakeAnswer
<1>3. CASE MakeReady
  <2>1. /\ todo # <<>> /\ todo' = Tail(todo) /\ io \in {"answering", "failing"}
        /\ io' = IF io = "answering" THEN "loop" ELSE io
    BY <1>3 DEF MakeReady, Waiting, Types, MapTypes
  <2>2. CASE io = "answering"
    <3>1. Len(todo) = 1 /\ todo \in Seq(Replies)
      BY <2>2 DEF Waiting, Types, MapTypes
    <3>2. Tail(todo) = <<>>
      BY <3>1, NoneLeft
    <3>3. QED
      BY <2>1, <2>2, <3>2
  <2>3. QED
    BY <2>1, <2>2
<1>4. CASE AllFailed
  BY <1>4 DEF AllFailed
<1>5. CASE Break
  BY <1>1, <1>5 DEF Break, FailPending
<1>6. ASSUME NEW c \in Callers, NEW op, NEW target, Posts(c, op, target) PROVE UNCHANGED <<io, todo>>
  BY <1>6 DEF Posts, Register
<1>7. ASSUME NEW c \in Callers, Caller(c) PROVE UNCHANGED <<io, todo>>
  BY <1>7 DEF Caller, SendRequest, ReturnAnswer, TimeOut, EraseAndReturn, mapVars
<1>8. CASE \/ ClientStep \/ (\E i \in DOMAIN writing : RequestArrives(i) \/ RequestFails(i)) \/ Stop
           \/ (\E id \in toServer : Serve(id)) \/ (\E id \in book : LeavesBook(id))
  BY <1>1, <1>8 DEF ClientStep, RequestArrives, RequestFails, Serve, LeavesBook, Stop, mapVars
<1>9. QED
  BY <1>1, <1>2, <1>3, <1>4, <1>5, <1>6, <1>7, <1>8, StepIs DEF Others, IoThread

\* A caller whose entry is not ready.
Unready == {c \in Callers : pc[c] \in {"registered", "waiting"} /\ entry[call[c]] = None}

\* No caller that waits is forgotten: its answer finds it, or on_disconnect does.
LEMMA ReachStep ==
    ASSUME Types, UnderWay, Waiting, Next, NEW c \in Callers, c \in Unready'
    PROVE  call'[c] \in InReach'
<1>0. /\ call[c] \in Ids /\ pc \in [Callers -> {"idle", "registered", "waiting", "erasing"}]
      /\ None \notin Bodies
      /\ c \in Unready => call[c] \in InReach
  BY CallIs, PostAssumption DEF Types, CallTypes, Waiting, Unready
<1>1. ASSUME NEW d \in Callers, NEW op \in {"place", "ioc", "cancel"},
             NEW target \in Ids \cup {None}, Posts(d, op, target)
      PROVE  call'[c] \in InReach'
  <2>1. /\ call'[d] = nextId /\ \A e \in Callers \ {d} : pc'[e] = pc[e] /\ call'[e] = call[e]
    BY <1>1, PostMade
  <2>2. /\ io # "failing" /\ io' = io /\ todo' = todo /\ entry' = entry
        /\ pendingMap' = pendingMap \cup {nextId}
    BY <1>1 DEF Posts, Register, MapHeld
  <2>3. CASE c = d
    BY <2>1, <2>2, <2>3 DEF InReach
  <2>4. CASE c # d
    BY <1>0, <2>1, <2>2, <2>4 DEF Unready, InReach, TodoIds
  <2>5. QED
    BY <2>3, <2>4
<1>2. ASSUME NEW d \in Callers, Caller(d) PROVE call'[c] \in InReach'
  <2>1. UNCHANGED <<call, entry, io, todo>>
    BY <1>2 DEF Caller, SendRequest, ReturnAnswer, TimeOut, EraseAndReturn, mapVars
  <2>2. pc[c] \in {"registered", "waiting"} /\ ~(c = d /\ EraseAndReturn(d))
    BY <1>0, <1>2 DEF Unready, Caller, SendRequest, ReturnAnswer, TimeOut, EraseAndReturn
  <2>3. call[c] \in pendingMap => call[c] \in pendingMap'
    <3>1. CASE EraseAndReturn(d)
      <4>1. pc[d] # "idle" /\ c # d /\ pendingMap' = pendingMap \ {call[d]}
        BY <2>2, <3>1 DEF EraseAndReturn
      <4>2. QED
        BY <2>2, <4>1 DEF UnderWay
    <3>2. CASE ~EraseAndReturn(d)
      BY <1>2, <3>2 DEF Caller, SendRequest, ReturnAnswer, TimeOut, mapVars
    <3>3. QED
      BY <3>1, <3>2
  <2>4. QED
    BY <1>0, <2>1, <2>2, <2>3 DEF Unready, InReach, TodoIds
<1>3. CASE Others
  <2>1. UNCHANGED <<pc, call>>
    BY <1>3, OthersLeaveCalls DEF callVars
  <2>2. CASE MakeReady
    <3>1. /\ todo # <<>> /\ todo' = Tail(todo) /\ pendingMap' = pendingMap
          /\ io \in {"answering", "failing"} /\ io' = IF io = "answering" THEN "loop" ELSE io
          /\ entry' = [entry EXCEPT ![Head(todo).id] = Head(todo).body]
      BY <2>2 DEF MakeReady, Waiting, Types, MapTypes
    <3>2. /\ Head(todo).id \in Ids /\ Head(todo).body \in Bodies
          /\ TodoIds = {Head(todo).id} \cup TodoIds'
      BY <3>1, HeadTodo DEF Bodies, Failures, TodoIds
    <3>3. call[c] # Head(todo).id /\ entry'[call[c]] = entry[call[c]]
      BY <1>0, <2>1, <3>1, <3>2 DEF Unready, Types, MapTypes
    <3>4. call[c] \in InReach
      BY <1>0, <2>1, <3>3 DEF Unready
    <3>5. QED
      BY <2>1, <3>1, <3>2, <3>3, <3>4 DEF InReach
  <2>3. ASSUME entry' = entry PROVE call[c] \in InReach
    BY <1>0, <2>1, <2>3 DEF Unready
  <2>4. ASSUME NEW a \in answers, TakeAnswer(a) PROVE call'[c] \in InReach'
    <3>1. entry' = entry /\ io = "loop"
      BY <2>4 DEF TakeAnswer
    <3>2. CASE UNCHANGED <<pendingMap, io, todo>>
      BY <2>1, <2>3, <3>1, <3>2 DEF InReach, TodoIds
    <3>3. CASE pendingMap' = pendingMap \ {a.id} /\ io' = "answering" /\ todo' = <<a>>
      <4>1. TodoIds' = {a.id}
        BY <3>3 DEF TodoIds
      <4>2. TodoIds = {}
        BY <3>1 DEF TodoIds, Waiting
      <4>3. QED
        BY <2>1, <2>3, <3>1, <3>3, <4>1, <4>2 DEF InReach
    <3>4. QED
      BY <2>4, <3>2, <3>3 DEF TakeAnswer
  <2>5. CASE AllFailed
    <3>1. entry' = entry /\ io = "failing" /\ todo = <<>>
      BY <2>5 DEF AllFailed
    <3>2. InReach = {}
      BY <3>1 DEF InReach, TodoIds
    <3>3. QED
      BY <2>3, <3>1, <3>2
  <2>6. CASE Break
    <3>1. entry' = entry /\ io = "loop" /\ pendingMap' = pendingMap
      BY <2>6 DEF Break
    <3>2. InReach = pendingMap
      BY <3>1 DEF InReach, TodoIds, Waiting
    <3>3. CASE UNCHANGED <<io, todo>>
      BY <2>1, <2>3, <3>1, <3>2, <3>3 DEF InReach, TodoIds
    <3>4. CASE FailPending
      BY <2>1, <2>3, <3>1, <3>2, <3>4, FailIs DEF InReach
    <3>5. QED
      BY <2>6, <3>3, <3>4 DEF Break
  <2>7. CASE UNCHANGED mapVars
    BY <2>1, <2>3, <2>7 DEF InReach, TodoIds, mapVars
  <2>8. QED
    BY <1>3, <2>2, <2>4, <2>5, <2>6, <2>7 DEF Others, IoThread, ClientStep, RequestArrives,
       RequestFails, Serve, LeavesBook, Stop
<1>4. QED
  BY <1>1, <1>2, <1>3, StepIs

\* Between two connections nothing leaves the queues.
LEMMA QueuesKeep ==
    ASSUME Types, Next, Between, Between'
    PROVE  /\ Range(posted) \cup Range(pendingSends) \subseteq Range(posted') \cup Range(pendingSends')
           /\ \A c \in Callers : SendRequest(c) => call[c] \in Range(posted')
<1>0. WsInv /\ ~Connected /\ posted \in Seq(Msgs) /\ pendingSends \in Seq(Msgs)
  BY DEF Types, WsInv, WsTypeOK, Between, Connected
<1>1. ASSUME NEW c \in Callers, SendRequest(c)
      PROVE  Range(posted') = Range(posted) \cup {call[c]} /\ pendingSends' = pendingSends
  <2>1. call[c] \in Msgs /\ posted' = posted \o <<call[c]>> /\ pendingSends' = pendingSends
    BY <1>1, CallIs, PostAssumption DEF SendRequest, Send
  <2>2. posted \o <<call[c]>> = Append(posted, call[c])
    BY <1>0, <2>1
  <2>3. ASSUME NEW m \in Msgs PROVE Range(Append(posted, m)) = Range(posted) \cup {m}
    BY <1>0, PutLast
  <2>4. QED
    BY <2>1, <2>2, <2>3
<1>2. CASE RunSend
  <2>1. posted # <<>> /\ posted' = Tail(posted) /\ pendingSends' = Append(pendingSends, Head(posted))
    BY <1>0, <1>2 DEF RunSend
  <2>2. Head(posted) \in Msgs /\ Range(posted) = {Head(posted)} \cup Range(posted')
    BY <1>0, <2>1, TakeFirst
  <2>3. Range(pendingSends') = Range(pendingSends) \cup {Head(posted)}
    BY <1>0, <2>1, <2>2, PutLast
  <2>4. Range(posted) \cup Range(pendingSends) = Range(posted') \cup Range(pendingSends')
    BY <2>2, <2>3
  <2>5. QED
    BY <1>1, <2>4
<1>3. ASSUME NEW c \in Callers, NEW op, NEW target, Posts(c, op, target)
      PROVE  UNCHANGED <<posted, pendingSends>>
  BY <1>3 DEF Posts, Register, wsVars
<1>4. ASSUME NEW c \in Callers, ReturnAnswer(c) \/ TimeOut(c) \/ EraseAndReturn(c)
      PROVE  UNCHANGED <<posted, pendingSends>>
  BY <1>4 DEF ReturnAnswer, TimeOut, EraseAndReturn, wsVars
<1>5. CASE Others /\ ~RunSend
  <2>1. ASSUME ClientStep PROVE UNCHANGED <<posted, pendingSends>>
    <3>1. ~Handshake
      BY DEF Handshake, Between
    <3>2. ConnectFails \/ RetryDue \/ DoClose
      BY <1>5, <2>1, <3>1 DEF ClientStep
    <3>3. QED
      BY <3>2 DEF ConnectFails, RetryDue, DoClose
  <2>2. ASSUME MakeReady \/ AllFailed PROVE UNCHANGED <<posted, pendingSends>>
    BY <2>2 DEF MakeReady, AllFailed, ScheduleReconnect, wsVars
  <2>3. ASSUME NEW i, RequestArrives(i) \/ RequestFails(i) PROVE UNCHANGED <<posted, pendingSends>>
    BY <2>3 DEF RequestArrives, RequestFails, WriteDone, WriteFails
  <2>4. ASSUME NEW a, TakeAnswer(a) \/ Serve(a) \/ LeavesBook(a)
        PROVE  UNCHANGED <<posted, pendingSends>>
    BY <2>4 DEF TakeAnswer, Serve, LeavesBook, wsVars
  <2>5. ASSUME Break \/ Stop PROVE UNCHANGED <<posted, pendingSends>>
    BY <2>5 DEF Break, Stop, ReadFails, Close
  <2>6. UNCHANGED <<posted, pendingSends>>
    BY <1>5, <2>1, <2>2, <2>3, <2>4, <2>5 DEF Others, IoThread
  <2>7. QED
    BY <1>1, <2>6
<1>6. QED
  BY <1>1, <1>2, <1>3, <1>4, <1>5, StepIs DEF Caller

LEMMA QueuedStep == ASSUME Types, UnderWay, Waiting, Passage, Next PROVE UnansweredIsQueued'
<1>1. Types'
  BY TypesStep
<1>2. SUFFICES ASSUME Between', NEW c \in Callers, pc'[c] = "waiting", entry'[call'[c]] = None
               PROVE  call'[c] \in Range(posted') \cup Range(pendingSends')
  <2>1. phase' \notin {"open", "lost", "closed"} <=> Between'
    BY <1>1 DEF Types, WsInv, WsTypeOK, Phases, Between
  <2>2. QED
    BY <2>1 DEF UnansweredIsQueued
<1>3. call[c] \in Ids /\ pc \in [Callers -> {"idle", "registered", "waiting", "erasing"}]
  BY CallIs DEF Types, CallTypes
<1>4. SendRequest(c) \/ pc[c] = "waiting"
  <2>1. ASSUME NEW d \in Callers, NEW op \in {"place", "ioc", "cancel"},
               NEW target \in Ids \cup {None}, Posts(d, op, target)
        PROVE  pc[c] = "waiting"
    BY <1>2, <1>3, <2>1 DEF Posts, Register
  <2>2. ASSUME NEW d \in Callers, Caller(d) PROVE SendRequest(c) \/ pc[c] = "waiting"
    BY <1>2, <1>3, <2>2 DEF Caller, SendRequest, ReturnAnswer, TimeOut, EraseAndReturn
  <2>3. CASE Others
    BY <1>2, <2>3, OthersLeaveCalls DEF callVars
  <2>4. QED
    BY <2>1, <2>2, <2>3, StepIs
<1>5. call'[c] = call[c]
  <2>1. ASSUME NEW d \in Callers, NEW op \in {"place", "ioc", "cancel"},
               NEW target \in Ids \cup {None}, Posts(d, op, target)
        PROVE  call'[c] = call[c]
    BY <1>2, <2>1, PostMade
  <2>2. (\E d \in Callers : Caller(d)) => call'[c] = call[c]
    BY CallGoesOn
  <2>3. QED
    BY <2>1, <2>2, StepIs, OthersLeaveCalls DEF callVars
<1>6. entry[call[c]] = None
  <2>1. CASE MakeReady
    <3>1. todo # <<>> /\ entry' = [entry EXCEPT ![Head(todo).id] = Head(todo).body]
      BY <2>1 DEF MakeReady
    <3>2. Head(todo).id \in Ids /\ Head(todo).body \in Bodies /\ None \notin Bodies
      BY <3>1, HeadTodo, PostAssumption DEF Bodies, Failures
    <3>3. QED
      BY <1>2, <1>3, <1>5, <3>1, <3>2 DEF Types, MapTypes
  <2>2. ASSUME NEW d \in Callers, NEW op, NEW target, Posts(d, op, target) PROVE entry' = entry
    BY <2>2 DEF Posts, Register
  <2>3. ASSUME NEW d \in Callers, Caller(d) PROVE entry' = entry
    BY <2>3 DEF Caller, SendRequest, ReturnAnswer, TimeOut, EraseAndReturn, mapVars
  <2>4. CASE Others /\ ~MakeReady
    <3>1. entry' = entry
      BY <2>4 DEF Others, IoThread, ClientStep, AllFailed, RequestArrives, TakeAnswer,
                  RequestFails, Serve, LeavesBook, Break, Stop, mapVars
    <3>2. QED
      BY <1>2, <1>5, <3>1
  <2>5. QED
    BY <1>2, <1>5, <2>1, <2>2, <2>3, <2>4, StepIs
<1>7. CASE Between
  <2>1. SendRequest(c) => call[c] \in Range(posted')
    BY <1>2, <1>7, QueuesKeep
  <2>2. pc[c] = "waiting" => call[c] \in Range(posted) \cup Range(pendingSends)
    BY <1>6, <1>7, BetweenIs DEF Waiting, UnansweredIsQueued
  <2>3. QED
    BY <1>2, <1>4, <1>5, <1>7, <2>1, <2>2, QueuesKeep
<1>8. CASE ~Between
  <2>1. AllFailed
    <3>1. ASSUME NEW d \in Callers, NEW op, NEW target, Posts(d, op, target) PROVE phase' = phase
      BY <3>1 DEF Posts, Register, wsVars
    <3>2. ASSUME NEW d \in Callers, Caller(d) PROVE phase' = phase
      BY <3>2 DEF Caller, SendRequest, ReturnAnswer, TimeOut, EraseAndReturn, Send, wsVars
    <3>3. CASE Others /\ ~AllFailed
      <4>1. phase' = phase \/ phase' \in {"open", "lost", "closed"} \/ Between
        BY <3>3 DEF Others, IoThread, ClientStep, MakeReady, RequestArrives, TakeAnswer,
           RequestFails, Serve, LeavesBook, Break, Stop, RunSend, ConnectFails, RetryDue, Handshake,
           DoClose, Between, WriteDone, WriteFails, ReadFails, Close, wsVars
      <4>2. QED
        BY <1>2, <1>8, <4>1 DEF Between
    <3>4. QED
      BY <1>2, <1>8, <3>1, <3>2, <3>3, StepIs DEF Between
  <2>2. io = "failing" /\ todo = <<>> /\ UNCHANGED callVars
    BY <2>1 DEF AllFailed
  <2>3. InReach = {}
    BY <2>2 DEF InReach, TodoIds
  <2>4. pc[c] = "waiting"
    BY <1>2, <2>2 DEF callVars
  <2>5. QED
    BY <1>6, <2>3, <2>4 DEF Waiting
<1>9. QED
  BY <1>7, <1>8

LEMMA WaitingStep == ASSUME Types, UnderWay, Passage, Waiting, Next PROVE Waiting'
<1>1. \A c \in Callers : (pc'[c] \in {"registered", "waiting"} /\ entry'[call'[c]] = None)
          => call'[c] \in InReach'
  BY ReachStep DEF Unready
<1>2. QED
  BY <1>1, FailingWhileLost, TodoStep, QueuedStep DEF Waiting

----------------------------------------------------------------------------
(* The whole. *)

LEMMA PostInit == ASSUME Init PROVE PostInv
<1>0. None \notin Bodies /\ \A S : <<>> \in Seq(S)
  BY PostAssumption
<1>1. Types
  <2>1. WsInv
    BY <1>0, WsInitKeeps DEF Init
  <2>2. CallTypes
    <3>1. nextId = 1 /\ request = [id \in Ids |-> None] /\ pc = [c \in Callers |-> "idle"]
          /\ got = [id \in Ids |-> None] /\ call = [c \in Callers |-> 1]
      BY DEF Init
    <3>2. 1 \in Ids /\ 1 \in 1..(MaxPosts + 1)
      BY PostAssumption DEF Ids
    <3>3. QED
      BY <3>1, <3>2 DEF CallTypes
  <2>3. MapTypes
    BY <1>0 DEF Init, MapTypes
  <2>4. ServerTypes
    BY DEF Init, ServerTypes
  <2>5. QED
    BY <2>1, <2>2, <2>3, <2>4 DEF Types
<1>2. Made = {} /\ TodoIds = {}
  BY DEF Init, Made, TodoIds
<1>3. ClientHolds = {} /\ HeldOnce
  BY DEF Init, WsInit, ClientHolds, HeldOnce, ToFlush, Written, Range, IsInjective
<1>4. UnderWay
  BY <1>2, PostAssumption DEF Init, UnderWay, Ids
<1>5. Passage
  BY <1>3 DEF Init, Passage
<1>6. Answered
  BY DEF Init, Answered
<1>7. Resting
  BY <1>2 DEF Init, Resting
<1>8. Waiting
  BY DEF Init, WsInit, Waiting, UnansweredIsQueued
<1>9. QED
  BY <1>1, <1>4, <1>5, <1>6, <1>7, <1>8 DEF PostInv

LEMMA PostStutters == ASSUME PostInv, UNCHANGED vars PROVE PostInv'
<1>1. UNCHANGED wsVars /\ UNCHANGED callVars /\ UNCHANGED mapVars /\ UNCHANGED serverVars
  BY DEF vars
<1>2. /\ UNCHANGED <<phase, closing, posted, pendingSends, flush, writing>>
      /\ UNCHANGED <<nextId, request, pc, call, got>> /\ UNCHANGED <<pendingMap, entry, io, todo>>
      /\ UNCHANGED <<toServer, answers, executed, served, book>>
  BY <1>1 DEF wsVars, callVars, mapVars, serverVars
<1>3. Types'
  <2>1. WsInv'
    BY <1>1, CallsKeep DEF PostInv, Types
  <2>2. CallTypes' /\ MapTypes' /\ ServerTypes'
    BY <1>2 DEF PostInv, Types, CallTypes, MapTypes, ServerTypes
  <2>3. QED
    BY <2>1, <2>2 DEF Types
<1>4. Made' = Made /\ TodoIds' = TodoIds /\ ClientHolds' = ClientHolds /\ ToFlush' = ToFlush
      /\ Written' = Written
  BY <1>2 DEF Made, TodoIds, ClientHolds, ToFlush, Written
<1>5. UnderWay'
  BY <1>2, <1>4 DEF PostInv, UnderWay
<1>6. Passage'
  BY <1>2, <1>4 DEF PostInv, Passage, HeldOnce
<1>7. Answered' /\ Resting'
  BY <1>2, <1>4 DEF PostInv, Answered, Resting
<1>8. Waiting'
  BY <1>2, <1>4 DEF PostInv, Waiting, InReach, UnansweredIsQueued
<1>9. QED
  BY <1>3, <1>5, <1>6, <1>7, <1>8 DEF PostInv

LEMMA PostStep == ASSUME PostInv, [Next]_vars PROVE PostInv'
<1>1. CASE UNCHANGED vars
  BY <1>1, PostStutters
<1>2. CASE Next
  <2>1. Types /\ UnderWay /\ Passage /\ Answered /\ Resting /\ Waiting
    BY DEF PostInv
  <2>2. Types' /\ UnderWay' /\ Passage'
    BY <1>2, <2>1, TypesStep, UnderWayStep, PassageStep
  <2>3. Answered' /\ Resting' /\ Waiting'
    BY <1>2, <2>1, AnsweredStep, RestingStep, WaitingStep
  <2>4. QED
    BY <2>2, <2>3 DEF PostInv
<1>3. QED
  BY <1>1, <1>2

\* The inductive invariant holds through every post, time-out, answer and reconnection.
THEOREM PostInvariant == Spec => []PostInv
<1>1. Init => PostInv
  BY PostInit
<1>2. PostInv /\ [Next]_vars => PostInv'
  BY PostStep
<1>3. QED
  BY <1>1, <1>2, PTL DEF Spec

\* The members of HlWsPostTransport and its WsClient keep their types, for any number of
\* posts.
THEOREM PostTypeCorrect == Spec => []TypeOK
<1>1. PostInv => TypeOK
  BY TypesSuffice DEF PostInv
<1>2. QED
  BY <1>1, PostInvariant, PTL

\* What post_action returns from the exchange is the result of that very post, whichever
\* thread posted and whatever timed out or broke in between.
THEOREM AnswersAreOwn == Spec => []AnswerIsOwn
<1>1. PostInv => AnswerIsOwn
  <2>1. Results \cap {None, "disconnect", "timeout"} = {}
    BY PostAssumption DEF Bodies, Results
  <2>2. QED
    BY <2>1 DEF PostInv, Answered, AnswerIsOwn
<1>2. QED
  BY <1>1, PostInvariant, PTL

\* An order that rests unknown to the program is in a call under way or in one that failed
\* in the transport (post_action, flush_pending, place_limit_order).
THEOREM UnknownOrdersOnlyFailed == Spec => []UnknownOrdersFailed
<1>1. PostInv => UnknownOrdersFailed
  <2> SUFFICES ASSUME PostInv, NEW id \in book, got[id] \notin Failures,
                      ~\E c \in Callers : call[c] = id /\ pc[c] # "idle"
               PROVE  id \in KnownOrders
    BY DEF UnknownOrdersFailed
  <2>1. id \in Made /\ id \in Ids /\ request[id].op = "place" /\ served[id] = "ok"
    BY DEF PostInv, Resting, Made
  <2>2. got[id] # None
    BY <2>1 DEF PostInv, UnderWay
  <2>3. got[id] = "ok"
    BY <2>1, <2>2 DEF PostInv, Answered, Failures
  <2>4. QED
    BY <2>1, <2>3 DEF KnownOrders, AckOk, Made
<1>2. QED
  BY <1>1, PostInvariant, PTL

\* An order whose cancel cancel_order acknowledges is out of the book and stays out.
THEOREM AcknowledgedCancelsGone == Spec => []CancelledIsGone
<1>1. PostInv => CancelledIsGone
  <2> SUFFICES ASSUME PostInv, NEW id \in Ids, request[id] # None, request[id].op = "cancel",
                      AckOk("cancel", got[id])
               PROVE  request[id].target \notin book
    BY DEF CancelledIsGone
  <2>1. got[id] \in {"ok", "filled", "error"} /\ id \in Made
    BY DEF AckOk, Made
  <2>2. served[id] = got[id]
    BY <2>1, PostAssumption DEF PostInv, Answered, Bodies, Results
  <2>3. QED
    BY <2>1, <2>2 DEF PostInv, Resting
<1>2. QED
  BY <1>1, PostInvariant, PTL

\* Without a connection, on_disconnect has failed every caller that waits, except those
\* whose request is queued for the next handshake.
THEOREM UnansweredStaysQueued == Spec => []UnansweredIsQueued
<1>1. PostInv => UnansweredIsQueued
  BY DEF PostInv, Waiting
<1>2. QED
  BY <1>1, PostInvariant, PTL

----------------------------------------------------------------------------
(* The promise of OrderCalls. *)

LEMMA ToldIs ==
    ASSUME NEW post, NEW result
    PROVE  /\ post = None => ToldOf(post, result) = None
           /\ post # None /\ result = None => ToldOf(post, result) = "open"
           /\ post # None /\ result \in Failures => ToldOf(post, result) = "failed"
           /\ post # None /\ result \in Results => ToldOf(post, result) = result
<1>1. None \notin Failures /\ Results \cap Failures = {} /\ None \notin Results
  BY PostAssumption DEF Bodies, Results, Failures
<1>2. QED
  BY <1>1 DEF ToldOf

\* One post is told of at a time.
LEMMA ToldChanges ==
    ASSUME NEW id \in Ids, \A x \in Ids \ {id} : request'[x] = request[x] /\ got'[x] = got[x]
    PROVE  Told' = [Told EXCEPT ![id] = ToldOf(request'[id], got'[id])]
  BY DEF Told

\* A post that begins is a call made.
LEMMA PostsMake ==
    ASSUME PostInv, NEW c \in Callers, NEW op \in {"place", "ioc", "cancel"},
           NEW target \in Ids \cup {None}, Posts(c, op, target)
    PROVE  Promise!OrderCallsNext
<1>1. /\ nextId \in Ids /\ Made' = Made \cup {nextId}
      /\ \A id \in Ids \ {nextId} : request'[id] = request[id]
  BY PostMade DEF PostInv
<1>2. got' = got /\ UNCHANGED <<executed, served>>
  BY DEF Posts, Register, serverVars
<1>3. nextId \notin Made /\ got[nextId] = None
  BY <1>1, PostAssumption DEF PostInv, UnderWay, Ids
<1>4. request[nextId] = None /\ request'[nextId] # None
  BY <1>1, <1>3 DEF Made
<1>5. Told[nextId] = None /\ Told' = [Told EXCEPT ![nextId] = "open"]
  BY <1>1, <1>2, <1>3, <1>4, ToldIs, ToldChanges DEF Told
<1>6. Promise!Make(nextId)
  BY <1>2, <1>5 DEF Promise!Make
<1>7. QED
  BY <1>1, <1>6 DEF Promise!OrderCallsNext

\* A call that returns is answered with the result of its own post, or fails.
LEMMA ReturnsTell ==
    ASSUME PostInv, NEW c \in Callers, Caller(c)
    PROVE  Promise!OrderCallsNext \/ UNCHANGED <<Told, executed, served>>
<1> DEFINE id == call[c]
<1>1. /\ UNCHANGED <<nextId, request, call>> /\ Made' = Made /\ pc[c] # "idle"
      /\ got \in [Ids -> Bodies \cup {None}] /\ id \in Ids
  BY CallGoesOn, CallIs DEF PostInv, Types, CallTypes
<1>2. UNCHANGED <<executed, served>>
  BY DEF Caller, SendRequest, ReturnAnswer, TimeOut, EraseAndReturn, serverVars
<1>3. request[id] # None /\ got[id] = None
  BY <1>1 DEF PostInv, UnderWay, Made
<1>4. Told[id] = "open"
  BY <1>1, <1>3, ToldIs DEF Told
<1>5. ASSUME NEW body, got' = [got EXCEPT ![id] = body]
      PROVE  Told' = [Told EXCEPT ![id] = ToldOf(request[id], body)]
  <2>1. got'[id] = body /\ \A x \in Ids \ {id} : got'[x] = got[x]
    BY <1>1, <1>5
  <2>2. QED
    BY <1>1, <2>1, ToldChanges
<1>6. CASE got' = got
  BY <1>1, <1>2, <1>6 DEF Told
<1>7. ASSUME NEW body \in Failures, got' = [got EXCEPT ![id] = body] PROVE Promise!OrderCallsNext
  <2>1. Told' = [Told EXCEPT ![id] = "failed"]
    BY <1>3, <1>5, <1>7, ToldIs
  <2>2. Promise!Fail(id)
    BY <1>2, <1>4, <2>1 DEF Promise!Fail
  <2>3. QED
    BY <1>1, <2>2 DEF Promise!OrderCallsNext
<1>8. ASSUME NEW body \in Results, body = served[id], got' = [got EXCEPT ![id] = body]
      PROVE  Promise!OrderCallsNext
  <2>1. Told' = [Told EXCEPT ![id] = served[id]]
    <3>1. Told' = [Told EXCEPT ![id] = ToldOf(request[id], body)]
      BY <1>5, <1>8
    <3>2. ToldOf(request[id], body) = served[id]
      BY <1>3, <1>8, ToldIs
    <3>3. QED
      BY <3>1, <3>2
  <2>2. executed[id] = 1
    BY <1>1, <1>8, PostAssumption DEF PostInv, Passage, Bodies
  <2>3. Promise!Answer(id)
    BY <1>2, <1>4, <2>1, <2>2 DEF Promise!Answer
  <2>4. QED
    BY <1>1, <2>3 DEF Promise!OrderCallsNext
<1>9. CASE ReturnAnswer(c)
  <2>1. entry[id] # None /\ got' = [got EXCEPT ![id] = entry[id]]
    BY <1>9 DEF ReturnAnswer
  <2>2. entry[id] = "disconnect" \/ (entry[id] = served[id] /\ served[id] \in Results)
    BY <1>1, <2>1 DEF PostInv, Answered, Types, ServerTypes
  <2>3. QED
    BY <1>7, <1>8, <2>1, <2>2 DEF Failures
<1>10. CASE EraseAndReturn(c)
  BY <1>7, <1>10 DEF EraseAndReturn, Failures
<1>11. CASE SendRequest(c) \/ TimeOut(c)
  BY <1>6, <1>11 DEF SendRequest, TimeOut
<1>12. QED
  BY <1>9, <1>10, <1>11 DEF Caller

\* The exchange acts on a post that was made, once.
LEMMA OthersAct ==
    ASSUME PostInv, Next, Others
    PROVE  Promise!OrderCallsNext \/ UNCHANGED <<Told, executed, served>>
<1>1. Told' = Told
  BY OthersLeaveCalls DEF callVars, Told
<1>2. CASE UNCHANGED <<executed, served>>
  BY <1>1, <1>2
<1>3. ASSUME NEW id \in Made, NEW result \in Results, Acts(id, result), executed[id] = 0
      PROVE  Promise!OrderCallsNext
  <2>1. id \in Ids /\ request[id] # None /\ got[id] \in Bodies \cup {None}
    BY DEF Made, PostInv, Types, CallTypes
  <2>2. Told[id] # None
    <3>1. Told[id] = ToldOf(request[id], got[id])
      BY <2>1 DEF Told
    <3>2. Told[id] \in {"open", "failed"} \cup Results
      BY <2>1, <3>1, ToldIs DEF Bodies
    <3>3. QED
      BY <3>2, PostAssumption DEF Bodies
  <2>3. executed' = [executed EXCEPT ![id] = 1] /\ served' = [served EXCEPT ![id] = result]
    BY <1>3 DEF Acts
  <2>4. Promise!Act(id)
    BY <1>1, <1>3, <2>2, <2>3 DEF Promise!Act
  <2>5. QED
    BY <2>1, <2>4 DEF Promise!OrderCallsNext
<1>4. QED
  BY <1>2, <1>3, ActsOnce DEF PostInv

\* HlWsPostTransport, with its client, its two locks and two threads posting, implements
\* OrderCalls: no post is acted on twice, also when it is flushed after its caller was told
\* that it failed, and no caller is told the result of another's post.
THEOREM TransportKeepsPromise == Spec => ImplementsOrderCalls
<1>1. Init => Promise!OrderCallsInit
  <2> SUFFICES ASSUME Init PROVE Promise!OrderCallsInit
    OBVIOUS
  <2>1. \A id \in Ids : ToldOf(request[id], got[id]) = None
    BY ToldIs DEF Init
  <2>2. Told = [id \in Ids |-> None]
    BY <2>1 DEF Told
  <2>3. QED
    BY <2>2 DEF Init, Promise!OrderCallsInit
<1>2. PostInv /\ [Next]_vars => [Promise!OrderCallsNext]_<<Told, executed, served>>
  <2> SUFFICES ASSUME PostInv, [Next]_vars
               PROVE  Promise!OrderCallsNext \/ UNCHANGED <<Told, executed, served>>
    OBVIOUS
  <2>1. CASE UNCHANGED vars
    BY <2>1 DEF vars, callVars, serverVars, Told
  <2>2. CASE Next
    BY <2>2, StepIs, PostsMake, ReturnsTell, OthersAct
  <2>3. QED
    BY <2>1, <2>2
<1>3. QED
  BY <1>1, <1>2, PostInvariant, PTL DEF Spec, ImplementsOrderCalls, Promise!OrderCallsSpec
=============================================================================
