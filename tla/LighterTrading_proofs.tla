------------------------ MODULE LighterTrading_proofs ------------------------
(***************************************************************************)
(* The nonces of NativeLighterTrading, for any number of calls, restarts   *)
(* and failures.                                                           *)
(***************************************************************************)
EXTENDS LighterTrading, SequenceTheorems, TLAPS

nonceVars == <<nextTx, cache, ready, nonce, linked, outbox, wire, venueNext, gaps>>

NonceTypeOK ==
    /\ nextTx \in 1..(MaxTx + 1)
    /\ cache \in Nat
    /\ ready \in BOOLEAN
    /\ nonce \in [Txs -> Nat \cup {None}]
    /\ linked \in BOOLEAN
    /\ outbox \in Seq(Txs)
    /\ wire \in Seq(Txs)
    /\ venueNext \in Nat

\* Only a process that has its client makes calls, and a call has a number.
CallsAreReady ==
    /\ ~ready => pc = "idle"
    /\ pc # "idle" => nextTx > 1

\* Requests wait on one side only, and none is left from an earlier process.
OneQueue ==
    /\ linked => outbox = <<>>
    /\ ~linked => wire = <<>>
    /\ ~ready => wire = <<>> /\ outbox = <<>>

\* The requests of a queue were signed in its order, after all the venue accepted and
\* before the next one; the call that is about to sign is not among them.
InOrder(queue) ==
    /\ \A i \in DOMAIN queue :
           /\ nonce[queue[i]] \in Nat
           /\ venueNext <= nonce[queue[i]] /\ nonce[queue[i]] < cache
           /\ queue[i] < nextTx
           /\ pc = "based" => queue[i] # Current
    /\ \A i, j \in DOMAIN queue : i < j => nonce[queue[i]] < nonce[queue[j]]

\* Without a gap they are consecutive.
WithoutGap(queue) ==
    \A i \in DOMAIN queue : nonce[queue[i]] = venueNext + i - 1

NonceInv ==
    /\ NonceTypeOK
    /\ CallsAreReady
    /\ OneQueue
    /\ ready => venueNext <= cache
    /\ InOrder(wire) /\ InOrder(outbox)
    /\ gaps = {} => WithoutGap(wire) /\ WithoutGap(outbox)
    /\ NonceInStep

\* Steps that leave the nonces and the queues alone, and begin no call.
LEMMA NoncesUntouched ==
    ASSUME NonceInv, UNCHANGED nonceVars, pc' = pc \/ (pc # "idle" /\ pc' # "based")
    PROVE  NonceInv'
<1>1. UNCHANGED <<nextTx, cache, ready, nonce, linked, outbox, wire, venueNext, gaps>>
  BY DEF nonceVars
<1>2. NonceTypeOK' /\ CallsAreReady' /\ OneQueue' /\ NonceInStep'
  BY <1>1 DEF NonceInv, NonceTypeOK, CallsAreReady, OneQueue, NonceInStep
<1>3. InOrder(wire)' /\ InOrder(outbox)'
  BY <1>1 DEF NonceInv, InOrder, Current
<1>4. (gaps = {} => WithoutGap(wire) /\ WithoutGap(outbox))'
  BY <1>1 DEF NonceInv, WithoutGap
<1>5. QED
  BY <1>1, <1>2, <1>3, <1>4 DEF NonceInv

\* A process starts with empty queues and without a client.
LEMMA NoncesInit == ASSUME Init PROVE NonceInv
<1>1. ready \in BOOLEAN /\ linked \in BOOLEAN
  BY Zenon DEF Init
<1>2. nonce \in [Txs -> Nat \cup {None}]
  BY DEF Init
<1>3. nextTx \in 1..(MaxTx + 1) /\ cache \in Nat /\ venueNext \in Nat
  BY TradingAssumption DEF Init
<1>4. outbox \in Seq(Txs) /\ wire \in Seq(Txs) /\ DOMAIN wire = {} /\ DOMAIN outbox = {}
  BY DEF Init
<1>5. ready = FALSE /\ pc = "idle" /\ wire = <<>> /\ outbox = <<>>
  BY DEF Init
<1>6. QED
  BY <1>1, <1>2, <1>3, <1>4, <1>5
  DEF NonceInv, NonceTypeOK, CallsAreReady, OneQueue, InOrder, WithoutGap, NonceInStep

\* The nonce a call takes is the cached one: the query next_nonce makes for a cache of 0
\* would return 0 as well.
LEMMA TakesCached ==
    ASSUME NonceInv, pc = "based", TakeNonce
    PROVE  /\ Current \in Txs /\ ready
           /\ nonce' = [nonce EXCEPT ![Current] = cache]
           /\ cache' = cache + 1
<1>1. ready /\ nextTx > 1 /\ nextTx \in 1..(MaxTx + 1) /\ cache \in Nat /\ venueNext \in Nat
      /\ venueNext <= cache
  BY DEF NonceInv, NonceTypeOK, CallsAreReady
<1>2. Current \in Txs
  BY <1>1, TradingAssumption DEF Current, Txs
<1>3. (IF cache # 0 THEN cache ELSE venueNext) = cache
  BY <1>1
<1>4. QED
  BY <1>1, <1>2, <1>3 DEF TakeNonce

\* Signing the next nonce disturbs no queue.
LEMMA SignedInOrder ==
    ASSUME NonceInv, pc = "based", Current \in Txs, nextTx' = nextTx, venueNext' = venueNext,
           nonce' = [nonce EXCEPT ![Current] = cache], cache' = cache + 1, pc' # "based",
           NEW queue \in Seq(Txs), InOrder(queue)
    PROVE  /\ \A i \in DOMAIN queue :
                  /\ nonce'[queue[i]] = nonce[queue[i]]
                  /\ nonce'[queue[i]] \in Nat
                  /\ venueNext' <= nonce'[queue[i]] /\ nonce'[queue[i]] < cache'
                  /\ queue[i] < nextTx'
           /\ \A i, j \in DOMAIN queue : i < j => nonce'[queue[i]] < nonce'[queue[j]]
<1>1. cache \in Nat /\ nonce \in [Txs -> Nat \cup {None}] /\ venueNext \in Nat
  BY DEF NonceInv, NonceTypeOK
<1>2. \A i \in DOMAIN queue : queue[i] \in Txs /\ queue[i] # Current
  BY DEF InOrder
<1>3. \A i \in DOMAIN queue : nonce'[queue[i]] = nonce[queue[i]]
  BY <1>1, <1>2
<1>4. \A i \in DOMAIN queue :
          /\ nonce[queue[i]] \in Nat /\ venueNext <= nonce[queue[i]] /\ nonce[queue[i]] < cache
          /\ queue[i] < nextTx
  BY DEF InOrder
<1>5. QED
  BY <1>1, <1>3, <1>4 DEF InOrder

\* CreateAuthToken and the calls that begin.
LEMMA BeginKeeps ==
    ASSUME NonceInv, CreateAuthToken \/ BeginHedge \/ BeginLimit \/ BeginCancel
    PROVE  NonceInv'
<1>1. CASE CreateAuthToken
  <2>1. /\ ~ready /\ cache' = venueNext /\ pc = "idle" /\ pc' = pc /\ ready' = TRUE
        /\ UNCHANGED <<nextTx, nonce, linked, outbox, wire, venueNext, gaps>>
    BY <1>1 DEF CreateAuthToken, EnsureClient, callVars, lineVars, venueVars, histVars
  <2>2. wire' = <<>> /\ outbox' = <<>> /\ Len(wire') = 0 /\ Len(outbox') = 0
        /\ DOMAIN wire' = {} /\ DOMAIN outbox' = {}
    BY <2>1 DEF NonceInv, OneQueue
  <2>3. ready' \in BOOLEAN
    BY <2>1, Zenon
  <2>4. QED
    BY <2>1, <2>2, <2>3
    DEF NonceInv, NonceTypeOK, CallsAreReady, OneQueue, InOrder, WithoutGap, NonceInStep
<1>2. CASE BeginHedge \/ BeginLimit \/ BeginCancel
  <2>1. PICK call : Begin(call)
    BY <1>2 DEF BeginHedge, BeginLimit, BeginCancel, BeginOther
  <2>2. UNCHANGED <<nonce, linked, outbox, wire, venueNext, gaps>>
    BY <1>2 DEF BeginHedge, BeginLimit, BeginCancel, BeginOther, lineVars, venueVars
  <2>3. /\ ready /\ nextTx \in Txs /\ nextTx' = nextTx + 1 /\ pc' = "based" /\ cache' = cache
        /\ ready' = TRUE /\ Current' = nextTx
    BY <2>1, TradingAssumption DEF Begin, EnsureClient, Current, Txs
  <2>4. ready' \in BOOLEAN
    BY <2>3, Zenon
  <2>5. nextTx' \in 1..(MaxTx + 1) /\ nextTx' > 1
    BY <2>3, TradingAssumption DEF Txs
  <2>6. \A k \in Txs : k < nextTx => k < nextTx' /\ k # Current'
    BY <2>3, TradingAssumption DEF Txs
  <2>7. InOrder(wire)' /\ InOrder(outbox)'
    <3>1. /\ \A i \in DOMAIN wire : wire[i] \in Txs /\ wire[i] < nextTx' /\ wire[i] # Current'
          /\ \A i \in DOMAIN outbox : outbox[i] \in Txs /\ outbox[i] < nextTx' /\ outbox[i] # Current'
      BY <2>6 DEF NonceInv, NonceTypeOK, InOrder
    <3>2. InOrder(wire)'
      BY <2>2, <2>3, <3>1 DEF NonceInv, InOrder
    <3>3. InOrder(outbox)'
      BY <2>2, <2>3, <3>1 DEF NonceInv, InOrder
    <3>4. QED
      BY <3>2, <3>3
  <2>8. NonceTypeOK' /\ CallsAreReady' /\ OneQueue'
    BY <2>2, <2>3, <2>4, <2>5 DEF NonceInv, NonceTypeOK, CallsAreReady, OneQueue
  <2>9. (ready => venueNext <= cache)' /\ NonceInStep'
        /\ (gaps = {} => WithoutGap(wire) /\ WithoutGap(outbox))'
    BY <2>2, <2>3 DEF NonceInv, NonceInStep, WithoutGap
  <2>10. QED
    BY <2>7, <2>8, <2>9 DEF NonceInv
<1>3. QED
  BY <1>1, <1>2

\* SignFails: a nonce is spent, and from now on there is a gap.
LEMMA SignFailsKeeps == ASSUME NonceInv, SignFails PROVE NonceInv'
<1>1. /\ pc = "based" /\ TakeNonce /\ pc' = "idle" /\ gaps' # {}
      /\ UNCHANGED <<nextTx, ready, linked, outbox, wire, venueNext>>
  BY DEF SignFails, Return, lineVars, venueVars
<1>2. Current \in Txs /\ ready /\ nonce' = [nonce EXCEPT ![Current] = cache] /\ cache' = cache + 1
  BY <1>1, TakesCached
<1>3. NonceTypeOK' /\ CallsAreReady' /\ OneQueue'
  BY <1>1, <1>2 DEF NonceInv, NonceTypeOK, CallsAreReady, OneQueue
<1>4. wire \in Seq(Txs) /\ outbox \in Seq(Txs) /\ InOrder(wire) /\ InOrder(outbox)
  BY DEF NonceInv, NonceTypeOK
<1>5. InOrder(wire)'
  BY <1>1, <1>2, <1>4, SignedInOrder DEF InOrder
<1>6. InOrder(outbox)'
  BY <1>1, <1>2, <1>4, SignedInOrder DEF InOrder
<1>7. (ready => venueNext <= cache)' /\ NonceInStep'
  BY <1>1, <1>2 DEF NonceInv, NonceTypeOK, NonceInStep
<1>8. QED
  BY <1>1, <1>3, <1>5, <1>6, <1>7 DEF NonceInv

\* The queue that takes the new request stays in order.
LEMMA QueueGrows ==
    ASSUME NonceInv, pc = "based", Current \in Txs, nextTx' = nextTx, venueNext' = venueNext,
           nonce' = [nonce EXCEPT ![Current] = cache], cache' = cache + 1, pc' = "sent", ready,
           NEW queue \in Seq(Txs), InOrder(queue)
    PROVE  LET new == Append(queue, Current) IN
           /\ new \in Seq(Txs) /\ Len(new) = Len(queue) + 1
           /\ \A i \in DOMAIN new :
                  /\ nonce'[new[i]] \in Nat
                  /\ venueNext' <= nonce'[new[i]] /\ nonce'[new[i]] < cache'
                  /\ new[i] < nextTx'
           /\ \A i, j \in DOMAIN new : i < j => nonce'[new[i]] < nonce'[new[j]]
           /\ WithoutGap(queue) /\ cache = venueNext + Len(queue) =>
                  \A i \in DOMAIN new : nonce'[new[i]] = venueNext' + i - 1
<1> DEFINE new == Append(queue, Current)
<1> DEFINE last == Len(queue) + 1
<1>1. /\ new \in Seq(Txs) /\ Len(new) = last /\ last \in Nat
      /\ \A i \in DOMAIN new :
             /\ i \in Nat
             /\ \/ i \in DOMAIN queue /\ new[i] = queue[i] /\ i < last
                \/ i = last /\ new[i] = Current
  OBVIOUS
<1>2. cache \in Nat /\ nonce \in [Txs -> Nat \cup {None}] /\ venueNext \in Nat /\ venueNext <= cache
      /\ nextTx \in Nat
  BY TradingAssumption DEF NonceInv, NonceTypeOK
<1>3. nonce'[Current] = cache /\ Current < nextTx
  BY <1>2 DEF Current
<1>4. /\ \A i \in DOMAIN queue :
             /\ nonce'[queue[i]] = nonce[queue[i]]
             /\ nonce'[queue[i]] \in Nat /\ nonce[queue[i]] < cache
             /\ venueNext' <= nonce'[queue[i]] /\ nonce'[queue[i]] < cache'
             /\ queue[i] < nextTx'
      /\ \A i, j \in DOMAIN queue : i < j => nonce'[queue[i]] < nonce'[queue[j]]
  BY SignedInOrder DEF InOrder
<1> HIDE DEF last, new
<1>5. \A i \in DOMAIN new :
          /\ nonce'[new[i]] \in Nat
          /\ venueNext' <= nonce'[new[i]] /\ nonce'[new[i]] < cache'
          /\ new[i] < nextTx'
  BY <1>1, <1>2, <1>3, <1>4
<1>6. ASSUME NEW i \in DOMAIN new, NEW j \in DOMAIN new, i < j
      PROVE  nonce'[new[i]] < nonce'[new[j]]
  <2>1. i \in DOMAIN queue /\ new[i] = queue[i]
    BY <1>1, <1>6
  <2>2. CASE j \in DOMAIN queue /\ new[j] = queue[j]
    BY <2>1, <2>2, <1>4, <1>6
  <2>3. CASE new[j] = Current
    BY <2>1, <2>3, <1>3, <1>4
  <2>4. QED
    BY <2>2, <2>3, <1>1
<1>7. ASSUME WithoutGap(queue), cache = venueNext + Len(queue), NEW i \in DOMAIN new
      PROVE  nonce'[new[i]] = venueNext' + i - 1
  <2>1. CASE i \in DOMAIN queue /\ new[i] = queue[i]
    BY <2>1, <1>4, <1>7 DEF WithoutGap
  <2>2. CASE i = last /\ new[i] = Current
    BY <2>2, <1>2, <1>3, <1>7, <1>1 DEF last
  <2>3. QED
    BY <2>1, <2>2, <1>1
<1>8. QED
  BY <1>1, <1>5, <1>6, <1>7 DEF last, new

\* Submit: the request joins the queue of its side.
LEMMA SubmitKeeps == ASSUME NonceInv, Submit PROVE NonceInv'
<1>1. /\ pc = "based" /\ TakeNonce /\ pc' = "sent"
      /\ UNCHANGED <<nextTx, ready, linked, venueNext, gaps>>
  BY DEF Submit, callVars, venueVars
<1>2. Current \in Txs /\ ready /\ nonce' = [nonce EXCEPT ![Current] = cache] /\ cache' = cache + 1
  BY <1>1, TakesCached
<1>3. /\ wire \in Seq(Txs) /\ outbox \in Seq(Txs) /\ Len(wire) \in Nat /\ Len(outbox) \in Nat
      /\ InOrder(wire) /\ InOrder(outbox)
      /\ gaps = {} => WithoutGap(wire) /\ WithoutGap(outbox)
                      /\ cache = venueNext + Len(wire) + Len(outbox)
      /\ cache \in Nat /\ venueNext \in Nat /\ venueNext <= cache
  BY <1>2 DEF NonceInv, NonceTypeOK, NonceInStep
<1>4. NonceTypeOK' /\ CallsAreReady' /\ (ready => venueNext <= cache)'
  <2>1. wire' \in Seq(Txs) /\ outbox' \in Seq(Txs)
    <3>1. Append(wire, Current) \in Seq(Txs) /\ Append(outbox, Current) \in Seq(Txs)
      BY <1>2, <1>3
    <3>2. QED
      BY <3>1, <1>3 DEF Submit
  <2>2. QED
    BY <1>1, <1>2, <2>1 DEF NonceInv, NonceTypeOK, CallsAreReady
<1>5. CASE linked
  <2>1. wire' = Append(wire, Current) /\ outbox' = <<>> /\ outbox = <<>> /\ Len(outbox) = 0
        /\ Len(outbox') = 0 /\ DOMAIN outbox' = {}
    BY <1>5 DEF Submit, NonceInv, OneQueue
  <2>2. /\ Len(wire') = Len(wire) + 1
        /\ \A i \in DOMAIN wire' :
               /\ nonce'[wire'[i]] \in Nat
               /\ venueNext' <= nonce'[wire'[i]] /\ nonce'[wire'[i]] < cache'
               /\ wire'[i] < nextTx'
        /\ \A i, j \in DOMAIN wire' : i < j => nonce'[wire'[i]] < nonce'[wire'[j]]
        /\ WithoutGap(wire) /\ cache = venueNext + Len(wire) =>
               \A i \in DOMAIN wire' : nonce'[wire'[i]] = venueNext' + i - 1
    <3> DEFINE new == Append(wire, Current)
    <3>1. /\ Len(new) = Len(wire) + 1
          /\ \A i \in DOMAIN new :
                 /\ nonce'[new[i]] \in Nat
                 /\ venueNext' <= nonce'[new[i]] /\ nonce'[new[i]] < cache'
                 /\ new[i] < nextTx'
          /\ \A i, j \in DOMAIN new : i < j => nonce'[new[i]] < nonce'[new[j]]
          /\ WithoutGap(wire) /\ cache = venueNext + Len(wire) =>
                 \A i \in DOMAIN new : nonce'[new[i]] = venueNext' + i - 1
      BY <1>1, <1>2, <1>3, QueueGrows
    <3> HIDE DEF new
    <3>2. wire' = new
      BY <2>1 DEF new
    <3>3. QED
      BY <3>1, <3>2
  <2>3. InOrder(wire)' /\ InOrder(outbox)'
    BY <1>1, <2>1, <2>2 DEF InOrder
  <2>4. (gaps = {} => WithoutGap(wire) /\ WithoutGap(outbox))'
    BY <1>1, <1>3, <2>1, <2>2 DEF WithoutGap
  <2>5. OneQueue' /\ NonceInStep'
    BY <1>1, <1>2, <1>3, <1>5, <2>1, <2>2 DEF OneQueue, NonceInStep
  <2>6. QED
    BY <1>4, <2>3, <2>4, <2>5 DEF NonceInv
<1>6. CASE ~linked
  <2>1. outbox' = Append(outbox, Current) /\ wire' = <<>> /\ wire = <<>> /\ Len(wire) = 0
        /\ Len(wire') = 0 /\ DOMAIN wire' = {}
    BY <1>6 DEF Submit, NonceInv, OneQueue
  <2>2. /\ Len(outbox') = Len(outbox) + 1
        /\ \A i \in DOMAIN outbox' :
               /\ nonce'[outbox'[i]] \in Nat
               /\ venueNext' <= nonce'[outbox'[i]] /\ nonce'[outbox'[i]] < cache'
               /\ outbox'[i] < nextTx'
        /\ \A i, j \in DOMAIN outbox' : i < j => nonce'[outbox'[i]] < nonce'[outbox'[j]]
        /\ WithoutGap(outbox) /\ cache = venueNext + Len(outbox) =>
               \A i \in DOMAIN outbox' : nonce'[outbox'[i]] = venueNext' + i - 1
    <3> DEFINE new == Append(outbox, Current)
    <3>1. /\ Len(new) = Len(outbox) + 1
          /\ \A i \in DOMAIN new :
                 /\ nonce'[new[i]] \in Nat
                 /\ venueNext' <= nonce'[new[i]] /\ nonce'[new[i]] < cache'
                 /\ new[i] < nextTx'
          /\ \A i, j \in DOMAIN new : i < j => nonce'[new[i]] < nonce'[new[j]]
          /\ WithoutGap(outbox) /\ cache = venueNext + Len(outbox) =>
                 \A i \in DOMAIN new : nonce'[new[i]] = venueNext' + i - 1
      BY <1>1, <1>2, <1>3, QueueGrows
    <3> HIDE DEF new
    <3>2. outbox' = new
      BY <2>1 DEF new
    <3>3. QED
      BY <3>1, <3>2
  <2>3. InOrder(wire)' /\ InOrder(outbox)'
    BY <1>1, <2>1, <2>2 DEF InOrder
  <2>4. (gaps = {} => WithoutGap(wire) /\ WithoutGap(outbox))'
    BY <1>1, <1>3, <2>1, <2>2 DEF WithoutGap
  <2>5. OneQueue' /\ NonceInStep'
    BY <1>1, <1>2, <1>3, <1>6, <2>1, <2>2 DEF OneQueue, NonceInStep
  <2>6. QED
    BY <1>4, <2>3, <2>4, <2>5 DEF NonceInv
<1>7. QED
  BY <1>5, <1>6

\* A queue without members is empty.
LEMMA NothingInRange ==
    ASSUME NEW S, NEW s \in Seq(S), Range(s) = {} PROVE Len(s) = 0
<1>1. Len(s) \in Nat /\ DOMAIN s = 1..Len(s)
  OBVIOUS
<1>2. DOMAIN s = {}
  BY DEF Range
<1>3. QED
  BY <1>1, <1>2

\* The oldest request has the least nonce of those on their way.
LEMMA OldestFirst ==
    ASSUME NonceInv, wire # <<>>
    PROVE  LET tx == Head(wire) IN
           /\ tx \in Txs /\ nonce[tx] \in Nat /\ venueNext <= nonce[tx] /\ nonce[tx] < cache
           /\ \A i \in DOMAIN Tail(wire) :
                  /\ i \in Nat /\ i + 1 \in DOMAIN wire /\ Tail(wire)[i] = wire[i + 1]
                  /\ nonce[tx] < nonce[wire[i + 1]]
           /\ Tail(wire) \in Seq(Txs) /\ Len(wire) \in Nat /\ Len(wire) >= 1
           /\ Len(Tail(wire)) = Len(wire) - 1
           /\ gaps = {} => nonce[tx] = venueNext
<1>1. wire \in Seq(Txs) /\ Len(wire) \in Nat /\ Len(wire) >= 1 /\ 1 \in DOMAIN wire
      /\ Head(wire) = wire[1] /\ Head(wire) \in Txs
      /\ Tail(wire) \in Seq(Txs) /\ Len(Tail(wire)) = Len(wire) - 1
      /\ \A i \in DOMAIN Tail(wire) : i \in Nat /\ i + 1 \in DOMAIN wire /\ 1 < i + 1
                                       /\ Tail(wire)[i] = wire[i + 1]
  BY DEF NonceInv, NonceTypeOK
<1>2. nonce[wire[1]] \in Nat /\ venueNext <= nonce[wire[1]] /\ nonce[wire[1]] < cache
      /\ \A j \in DOMAIN wire : 1 < j => nonce[wire[1]] < nonce[wire[j]]
  BY <1>1 DEF NonceInv, InOrder
<1>3. gaps = {} => nonce[wire[1]] = venueNext
  BY <1>1 DEF NonceInv, NonceTypeOK, WithoutGap
<1>4. QED
  BY <1>1, <1>2, <1>3

\* VenueJudges: what stays behind an accepted request has greater nonces.
LEMMA JudgeKeeps == ASSUME NonceInv, VenueJudges PROVE NonceInv'
<1> DEFINE tx == Head(wire)
           rest == Tail(wire)
<1>1. PICK ok \in BOOLEAN : Judge(tx, ok) /\ gaps' = IF ok THEN gaps ELSE gaps \cup {tx}
  BY DEF VenueJudges
<1>2. /\ linked /\ wire # <<>> /\ wire' = rest
      /\ UNCHANGED <<nextTx, pc, cache, ready, nonce, linked, outbox>>
  BY DEF VenueJudges, callVars, localVars
<1>3. /\ tx \in Txs /\ nonce[tx] \in Nat /\ venueNext <= nonce[tx] /\ nonce[tx] < cache
      /\ \A i \in DOMAIN rest :
             /\ i \in Nat /\ i + 1 \in DOMAIN wire /\ rest[i] = wire[i + 1]
             /\ nonce[tx] < nonce[wire[i + 1]]
      /\ rest \in Seq(Txs) /\ Len(wire) \in Nat /\ Len(wire) >= 1 /\ Len(rest) = Len(wire) - 1
      /\ gaps = {} => nonce[tx] = venueNext
  BY <1>2, OldestFirst
<1> HIDE DEF tx, rest
<1>4. outbox = <<>> /\ Len(outbox) = 0 /\ DOMAIN outbox = {} /\ ready
  BY <1>2 DEF NonceInv, OneQueue
<1>5. venueNext' = IF ok THEN nonce[tx] + 1 ELSE venueNext
  BY <1>1 DEF Judge
<1>6. cache \in Nat /\ venueNext \in Nat /\ venueNext' \in Nat /\ venueNext' <= cache
  BY <1>3, <1>4, <1>5 DEF NonceInv, NonceTypeOK
<1>7. NonceTypeOK' /\ CallsAreReady' /\ OneQueue'
  BY <1>2, <1>3, <1>4, <1>6 DEF NonceInv, NonceTypeOK, CallsAreReady, OneQueue
<1>8. InOrder(wire)'
  <2>1. \A i \in DOMAIN rest :
            /\ nonce[rest[i]] \in Nat /\ venueNext <= nonce[rest[i]] /\ nonce[rest[i]] < cache
            /\ rest[i] < nextTx /\ (pc = "based" => rest[i] # Current)
    BY <1>3 DEF NonceInv, InOrder
  <2>2. \A i \in DOMAIN rest : venueNext' <= nonce[rest[i]]
    BY <2>1, <1>3, <1>5
  <2>3. \A i, j \in DOMAIN rest : i < j => nonce[rest[i]] < nonce[rest[j]]
    BY <1>3 DEF NonceInv, InOrder
  <2>4. Current' = Current
    BY <1>2 DEF Current
  <2>5. QED
    BY <2>1, <2>2, <2>3, <2>4, <1>2 DEF InOrder
<1>9. InOrder(outbox)'
  BY <1>2, <1>4 DEF InOrder
<1>10. ASSUME gaps' = {} PROVE gaps = {} /\ venueNext' = venueNext + 1
  BY <1>1, <1>3, <1>5, <1>10
<1>11. (gaps = {} => WithoutGap(wire) /\ WithoutGap(outbox))'
  <2> SUFFICES ASSUME gaps' = {} PROVE WithoutGap(wire)' /\ WithoutGap(outbox)'
    OBVIOUS
  <2>1. \A i \in DOMAIN rest : nonce[rest[i]] = venueNext + (i + 1) - 1
    BY <1>3, <1>10 DEF NonceInv, WithoutGap
  <2>2. \A i \in DOMAIN rest : nonce[rest[i]] = venueNext' + i - 1
    <3> TAKE i \in DOMAIN rest
    <3>1. i \in Nat /\ nonce[rest[i]] = venueNext + (i + 1) - 1 /\ venueNext' = venueNext + 1
      BY <2>1, <1>3, <1>10
    <3>2. QED
      BY <3>1, <1>6
  <2>3. QED
    BY <2>2, <1>2, <1>4 DEF WithoutGap
<1>12. NonceInStep'
  BY <1>2, <1>3, <1>4, <1>6, <1>10 DEF NonceInv, NonceInStep
<1>13. QED
  BY <1>2, <1>6, <1>7, <1>8, <1>9, <1>11, <1>12 DEF NonceInv

\* LinkBreaks, LinkRestored and Restart: a queue is lost, or goes over to the other side.
LEMMA LinkKeeps == ASSUME NonceInv, LinkBreaks \/ LinkRestored \/ Restart PROVE NonceInv'
<1>0. /\ cache \in Nat /\ venueNext \in Nat /\ wire \in Seq(Txs) /\ outbox \in Seq(Txs)
      /\ <<>> \in Seq(Txs) /\ Len(<<>>) = 0 /\ DOMAIN <<>> = {}
      /\ FALSE \in BOOLEAN /\ TRUE \in BOOLEAN
  BY DEF NonceInv, NonceTypeOK
<1>1. ASSUME wire # <<>>, Judge(Head(wire), TRUE)
      PROVE  /\ venueNext' \in Nat /\ venueNext' <= cache
             /\ gaps = {} => venueNext' = venueNext + 1
             /\ Tail(wire) \in Seq(Txs) /\ Len(Tail(wire)) = Len(wire) - 1
  <2>1. venueNext' = nonce[Head(wire)] + 1
    BY <1>1 DEF Judge
  <2>2. QED
    BY <1>0, <1>1, <2>1, OldestFirst
<1>2. CASE LinkBreaks
  <2>1. /\ linked /\ linked' = FALSE /\ wire' = <<>>
        /\ UNCHANGED <<nextTx, pc, cache, ready, nonce, outbox>>
        /\ \/ wire # <<>> /\ Judge(Head(wire), TRUE) /\ gaps' = gaps \cup Range(Tail(wire))
           \/ gaps' = gaps \cup Range(wire) /\ UNCHANGED venueNext
    BY <1>2 DEF LinkBreaks, callVars
  <2>2. outbox' = <<>> /\ outbox = <<>> /\ ready = ready' /\ (~ready => wire = <<>>)
    BY <2>1 DEF NonceInv, OneQueue
  <2>3. CASE wire # <<>> /\ Judge(Head(wire), TRUE) /\ gaps' = gaps \cup Range(Tail(wire))
    <3>1. venueNext' \in Nat /\ venueNext' <= cache /\ ready
      BY <1>1, <2>2, <2>3
    <3>2. ASSUME gaps' = {} PROVE cache = venueNext'
      <4>1. gaps = {} /\ Range(Tail(wire)) = {}
        BY <2>3, <3>2
      <4>2. Tail(wire) \in Seq(Txs) /\ Len(Tail(wire)) = Len(wire) - 1 /\ venueNext' = venueNext + 1
        BY <1>1, <2>3, <4>1
      <4>3. Len(Tail(wire)) = 0
        BY <4>1, <4>2, NothingInRange
      <4>4. Len(wire) \in Nat /\ Len(outbox) = 0
        BY <2>2, <1>0
      <4>5. cache = venueNext + Len(wire) + Len(outbox)
        BY <4>1, <3>1 DEF NonceInv, NonceInStep
      <4>6. Len(wire) = 1
        <5> DEFINE n == Len(wire)
        <5>1. n \in Nat /\ n - 1 = 0
          BY <4>2, <4>3, <4>4
        <5> HIDE DEF n
        <5>2. n = 1
          BY <5>1
        <5>3. QED
          BY <5>2 DEF n
      <4>7. QED
        BY <4>2, <4>4, <4>5, <4>6, <1>0
    <3>3. NonceTypeOK' /\ CallsAreReady' /\ OneQueue' /\ (ready => venueNext <= cache)'
      BY <1>0, <2>1, <2>2, <3>1 DEF NonceInv, NonceTypeOK, CallsAreReady, OneQueue
    <3>4. /\ InOrder(wire)' /\ InOrder(outbox)'
          /\ (gaps = {} => WithoutGap(wire) /\ WithoutGap(outbox))'
      BY <1>0, <2>1, <2>2 DEF InOrder, WithoutGap
    <3>5. NonceInStep'
      <4>1. cache' = cache /\ Len(wire') = 0 /\ Len(outbox') = 0
        BY <1>0, <2>1, <2>2
      <4>2. gaps' = {} => cache' = venueNext' + Len(wire') + Len(outbox')
        <5> SUFFICES ASSUME gaps' = {} PROVE cache' = venueNext' + Len(wire') + Len(outbox')
          OBVIOUS
        <5>1. cache = venueNext' /\ venueNext' \in Nat
          BY <3>1, <3>2
        <5> DEFINE k == Len(wire')
                   l == Len(outbox')
        <5>2. k = 0 /\ l = 0 /\ cache' = cache
          BY <4>1
        <5> HIDE DEF k, l
        <5>3. \A v \in Nat : v = v + 0 + 0
          OBVIOUS
        <5>4. venueNext' = venueNext' + k + l
          BY <5>1, <5>2, <5>3, Zenon
        <5>5. QED
          BY <5>1, <5>2, <5>4, Zenon DEF k, l
      <4>3. QED
        BY <4>2 DEF NonceInStep
    <3>6. QED
      BY <3>3, <3>4, <3>5 DEF NonceInv
  <2>4. CASE gaps' = gaps \cup Range(wire) /\ UNCHANGED venueNext
    <3>1. ASSUME gaps' = {} PROVE gaps = {} /\ wire = <<>>
      BY <1>0, <2>4, <3>1 DEF Range
    <3>2. QED
      BY <1>0, <2>1, <2>2, <2>4, <3>1
      DEF NonceInv, NonceTypeOK, CallsAreReady, OneQueue, InOrder, WithoutGap, NonceInStep
  <2>5. QED
    BY <2>1, <2>3, <2>4
<1>3. CASE LinkRestored
  <2>1. /\ ~linked /\ linked' = TRUE /\ wire' = outbox /\ outbox' = <<>> /\ wire = <<>>
        /\ UNCHANGED <<nextTx, pc, cache, ready, nonce, venueNext, gaps>>
    BY <1>3 DEF LinkRestored, callVars, localVars, venueVars, histVars, NonceInv, OneQueue
  <2>2. NonceTypeOK' /\ CallsAreReady' /\ OneQueue' /\ (ready => venueNext <= cache)'
    BY <1>0, <2>1 DEF NonceInv, NonceTypeOK, CallsAreReady, OneQueue
  <2>3. InOrder(wire)' /\ InOrder(outbox)'
    BY <1>0, <2>1 DEF NonceInv, InOrder, Current
  <2>4. (gaps = {} => WithoutGap(wire) /\ WithoutGap(outbox))'
    BY <1>0, <2>1 DEF NonceInv, WithoutGap
  <2>5. NonceInStep'
    BY <1>0, <2>1 DEF NonceInv, NonceInStep
  <2>6. QED
    BY <2>2, <2>3, <2>4, <2>5 DEF NonceInv
<1>4. CASE Restart
  <2>1. /\ pc' = "idle" /\ ready' = FALSE /\ cache' = 0 /\ linked' = FALSE
        /\ outbox' = <<>> /\ wire' = <<>> /\ UNCHANGED <<nextTx, nonce>>
    BY <1>4 DEF Restart, callVars
  <2>2. venueNext' \in Nat
    BY <1>4, <1>1, <1>0 DEF Restart
  <2>3. QED
    BY <1>0, <2>1, <2>2
    DEF NonceInv, NonceTypeOK, CallsAreReady, OneQueue, InOrder, WithoutGap, NonceInStep
<1>5. QED
  BY <1>2, <1>3, <1>4

\* Every step keeps the nonces and the queues in order.
LEMMA NonceStep == ASSUME NonceInv, [Next]_vars PROVE NonceInv'
<1>1. CASE UNCHANGED vars
  BY <1>1, NoncesUntouched
  DEF vars, nonceVars, callVars, localVars, lineVars, venueVars, histVars
<1>2. CASE CreateAuthToken \/ BeginHedge \/ BeginLimit \/ BeginCancel
  BY <1>2, BeginKeeps
<1>3. CASE SignFails
  BY <1>3, SignFailsKeeps
<1>4. CASE Submit
  BY <1>4, SubmitKeeps
<1>5. CASE SendTimesOut \/ SendReturns
  <2>1. UNCHANGED nonceVars
    BY <1>5 DEF SendTimesOut, SendReturns, nonceVars, lineVars, venueVars, histVars
  <2>2. pc # "idle" /\ pc' # "based"
    BY <1>5 DEF SendTimesOut, SendReturns, Return
  <2>3. QED
    BY <2>1, <2>2, NoncesUntouched
<1>6. CASE HedgeConfirmedByFeed \/ HedgeQueried \/ OrderConfirmed \/ OrderNotSeen
  <2>1. UNCHANGED nonceVars
    BY <1>6 DEF HedgeConfirmedByFeed, HedgeQueried, OrderConfirmed, OrderNotSeen, nonceVars,
                lineVars, venueVars, histVars
  <2>2. pc # "idle" /\ pc' # "based"
    BY <1>6 DEF HedgeConfirmedByFeed, HedgeQueried, OrderConfirmed, OrderNotSeen, Return
  <2>3. QED
    BY <2>1, <2>2, NoncesUntouched
<1>7. CASE VenueJudges
  BY <1>7, JudgeKeeps
<1>8. CASE \/ VenuePings
           \/ \E tx \in accepted : HedgeExecutes(tx) \/ OrderEnters(tx) \/ CancelExecutes(tx)
           \/ \E id \in Txs : OrderFills(id)
  <2>1. UNCHANGED nonceVars /\ pc' = pc
    BY <1>8 DEF VenuePings, HedgeExecutes, OrderEnters, CancelExecutes, OrderFills, nonceVars,
                callVars, localVars, lineVars, venueVars, histVars
  <2>2. QED
    BY <2>1, NoncesUntouched
<1>9. CASE OnMessage \/ PositionArrives \/ NewsArrives \/ FeedBreaks \/ FeedRestored
  <2>1. UNCHANGED nonceVars /\ pc' = pc
    BY <1>9 DEF OnMessage, PositionArrives, NewsArrives, FeedBreaks, FeedRestored, nonceVars,
                callVars, localVars, lineVars, venueVars, histVars
  <2>2. QED
    BY <2>1, NoncesUntouched
<1>10. CASE LinkBreaks \/ LinkRestored \/ Restart
  BY <1>10, LinkKeeps
<1>11. QED
  BY <1>1, <1>2, <1>3, <1>4, <1>5, <1>6, <1>7, <1>8, <1>9, <1>10 DEF Next, Caller, Venue

\* The nonces and the queues stay in order through every call, answer, loss and restart.
THEOREM NonceInvariant == Spec => []NonceInv
<1>1. Init => NonceInv
  BY NoncesInit
<1>2. NonceInv /\ [Next]_vars => NonceInv'
  BY NonceStep
<1>3. QED
  BY <1>1, <1>2, PTL DEF Spec

\* While nothing was refused, lost or left unsigned, the cached nonce of next_nonce is the
\* venue's next one after the requests on their way.
THEOREM NoncesInStep == Spec => []NonceInStep
<1>1. NonceInv => NonceInStep
  BY DEF NonceInv
<1>2. QED
  BY <1>1, NonceInvariant, PTL

\* No request on its way, queued over an outage or not, carries a nonce the venue has used.
THEOREM NoncesNeverBehind == Spec => []NonceNeverBehind
<1>1. NonceInv => NonceNeverBehind
  BY DEF NonceInv, InOrder, NonceNeverBehind, Range
<1>2. QED
  BY <1>1, NonceInvariant, PTL
=============================================================================
