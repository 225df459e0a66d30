---------------------------- MODULE WsClient_proofs ----------------------------
(***************************************************************************)
(* What every handler of WsClient keeps, whoever owns the client.          *)
(***************************************************************************)
EXTENDS WsClient, SequenceTheorems, TLAPS

\* A write ends with its connection.
WritesNeedConnection == ~Connected => writing = <<>>

\* At most one write belongs to the chain of flush_pending, and the chain is not over
\* while it lasts.
OneChain ==
    \A i \in DOMAIN writing :
        writing[i].chained =>
            /\ flush # <<>>
            /\ \A j \in DOMAIN writing : writing[j].chained => j = i

WsInv == WsTypeOK /\ WritesNeedConnection /\ OneChain

\* RemoveAt, which ends a write, shifts what follows by one.
LEMMA RemoveAtIs ==
    ASSUME NEW S, NEW s \in Seq(S), NEW i \in DOMAIN s
    PROVE  /\ RemoveAt(s, i) \in Seq(S)
           /\ Len(RemoveAt(s, i)) = Len(s) - 1
           /\ \A k \in 1..(Len(s) - 1) :
                  RemoveAt(s, i)[k] = IF k < i THEN s[k] ELSE s[k + 1]
<1>1. i \in 1..Len(s) /\ Len(s) \in Nat
  OBVIOUS
<1>2. SubSeq(s, 1, i - 1) \in Seq(S) /\ Len(SubSeq(s, 1, i - 1)) = i - 1
      /\ \A k \in 1..(i - 1) : SubSeq(s, 1, i - 1)[k] = s[k]
  BY <1>1
<1>3. SubSeq(s, i + 1, Len(s)) \in Seq(S) /\ Len(SubSeq(s, i + 1, Len(s))) = Len(s) - i
      /\ \A k \in 1..(Len(s) - i) : SubSeq(s, i + 1, Len(s))[k] = s[i + k]
  BY <1>1
<1> DEFINE front == SubSeq(s, 1, i - 1)
           back == SubSeq(s, i + 1, Len(s))
<1>4. RemoveAt(s, i) = front \o back
  BY DEF RemoveAt
<1> HIDE DEF front, back
<1>5. /\ front \o back \in Seq(S)
      /\ Len(front \o back) = Len(front) + Len(back)
      /\ \A k \in 1..(Len(front) + Len(back)) :
             (front \o back)[k] = IF k <= Len(front) THEN front[k] ELSE back[k - Len(front)]
  BY <1>2, <1>3, ConcatProperties DEF front, back
<1>6. Len(front) = i - 1 /\ Len(back) = Len(s) - i
  BY <1>2, <1>3 DEF front, back
<1> DEFINE n == Len(s)
           both == front \o back
<1>7. both \in Seq(S) /\ Len(both) = (i - 1) + (n - i)
      /\ \A k \in 1..((i - 1) + (n - i)) :
             both[k] = IF k <= i - 1 THEN front[k] ELSE back[k - (i - 1)]
  BY <1>5, <1>6
<1>8. \A k \in 1..(i - 1) : front[k] = s[k]
  BY <1>2 DEF front
<1>9. \A k \in 1..(n - i) : back[k] = s[i + k]
  BY <1>3 DEF back
<1>10. i \in Nat /\ i >= 1 /\ i <= n /\ n \in Nat
  BY <1>1
<1> HIDE DEF n, both
<1>11. (i - 1) + (n - i) = n - 1
  BY <1>10
<1>12. \A k \in 1..(n - 1) : both[k] = IF k < i THEN s[k] ELSE s[k + 1]
  <2> TAKE k \in 1..(n - 1)
  <2>0. both[k] = IF k <= i - 1 THEN front[k] ELSE back[k - (i - 1)]
    BY <1>7, <1>11
  <2>1. CASE k < i
    <3>1. k \in 1..(i - 1) /\ k <= i - 1
      BY <2>1, <1>10
    <3>2. QED
      BY <2>0, <2>1, <3>1, <1>8
  <2>2. CASE ~(k < i)
    <3>1. k - (i - 1) \in 1..(n - i) /\ ~(k <= i - 1) /\ i + (k - (i - 1)) = k + 1
      BY <2>2, <1>10
    <3>2. back[k - (i - 1)] = s[k + 1]
      BY <3>1, <1>9
    <3>3. QED
      BY <2>0, <2>2, <3>1, <3>2
  <2>3. QED
    BY <2>1, <2>2
<1>13. both \in Seq(S) /\ Len(both) = n - 1
  BY <1>7, <1>11
<1>14. QED
  BY <1>4, <1>12, <1>13 DEF n, both

\* A write in progress is of a message that was sent.
LEMMA WriteIs ==
    ASSUME NEW m \in Msgs, NEW c \in BOOLEAN PROVE [msg |-> m, chained |-> c] \in Writes
  BY Zenon DEF Writes

\* The first write of a connection is its only one.
LEMMA FirstWrite == ASSUME NEW e PROVE Append(<<>>, e) = <<e>>
  OBVIOUS

\* Nothing is written before connect().
LEMMA WsInitKeeps == ASSUME NEW sends \in Seq(Msgs), WsInit(sends) PROVE WsInv
<1>1. WsTypeOK
  <2>1. closing \in BOOLEAN
    BY Zenon DEF WsInit
  <2>2. <<>> \in Seq(Msgs) /\ <<>> \in Seq(Writes)
    OBVIOUS
  <2>3. QED
    BY <2>1, <2>2 DEF WsInit, WsTypeOK, Phases
<1>2. QED
  BY <1>1 DEF WsInit, WsInv, WritesNeedConnection, OneChain

\* Calls from other threads leave the connection alone.
LEMMA CallsKeep ==
    ASSUME WsInv, (\E msgs \in Seq(Msgs) : Send(msgs)) \/ Close \/ UNCHANGED wsVars
    PROVE  WsInv'
<1>1. CASE \E msgs \in Seq(Msgs) : Send(msgs)
  BY <1>1 DEF WsInv, WsTypeOK, WritesNeedConnection, OneChain, Connected, Send
<1>2. CASE Close \/ UNCHANGED wsVars
  <2>1. closing' \in BOOLEAN
    BY <1>2, Zenon DEF WsInv, WsTypeOK, Close, wsVars
  <2>2. UNCHANGED <<phase, posted, pendingSends, flush, writing>>
    BY <1>2 DEF Close, wsVars
  <2>3. QED
    BY <2>1, <2>2 DEF WsInv, WsTypeOK, WritesNeedConnection, OneChain, Connected
<1>3. QED
  BY <1>1, <1>2

\* The handler of send() queues, or starts a write outside the chain.
LEMMA RunSendKeeps == ASSUME WsInv, RunSend PROVE WsInv'
<1>1. Head(posted) \in Msgs /\ Tail(posted) \in Seq(Msgs)
  BY DEF WsInv, WsTypeOK, RunSend
<1>2. WsTypeOK'
  <2>1. [msg |-> Head(posted), chained |-> FALSE] \in Writes
    BY <1>1, WriteIs
  <2>2. StartWrite(Head(posted), FALSE) \in Seq(Writes)
    BY <2>1, AppendProperties DEF WsInv, WsTypeOK, StartWrite
  <2>3. Append(pendingSends, Head(posted)) \in Seq(Msgs)
    BY <1>1 DEF WsInv, WsTypeOK
  <2>4. writing' \in Seq(Writes) /\ pendingSends' \in Seq(Msgs)
    BY <2>2, <2>3, Zenon DEF WsInv, WsTypeOK, RunSend
  <2>5. QED
    BY <1>1, <2>4, Zenon DEF WsInv, WsTypeOK, RunSend
<1>3. WritesNeedConnection'
  BY DEF WsInv, WritesNeedConnection, Connected, RunSend
<1>4. OneChain'
  <2>1. CASE Connected
    <3>1. writing' = StartWrite(Head(posted), FALSE) /\ flush' = flush
      BY <2>1 DEF RunSend
    <3>2. QED
      BY <3>1, <1>1 DEF WsInv, WsTypeOK, OneChain, StartWrite, Writes
  <2>2. CASE ~Connected
    BY <2>2 DEF WsInv, OneChain, RunSend
  <2>3. QED
    BY <2>1, <2>2
<1>5. QED
  BY <1>2, <1>3, <1>4 DEF WsInv

\* The steps of an attempt to connect and of the end of a connection.
LEMMA ConnectionKeeps ==
    ASSUME WsInv,
           ConnectFails \/ RetryDue \/ ReadFails \/ ScheduleReconnect \/ DoClose
    PROVE  WsInv'
<1>1. CASE ConnectFails \/ RetryDue \/ ScheduleReconnect
  <2>1. phase' \in Phases /\ ~Connected /\ ~Connected'
    BY <1>1 DEF Phases, ConnectFails, RetryDue, ScheduleReconnect, AfterReconnect, Connected
  <2>2. UNCHANGED <<closing, posted, pendingSends, flush, writing>>
    BY <1>1 DEF ConnectFails, RetryDue, ScheduleReconnect
  <2>3. QED
    BY <2>1, <2>2 DEF WsInv, WsTypeOK, WritesNeedConnection, OneChain
<1>2. CASE ReadFails \/ DoClose
  <2>1. phase' \in Phases
    BY <1>2 DEF Phases, ReadFails, DoClose
  <2>2. writing' = <<>> /\ flush' = <<>> /\ UNCHANGED <<closing, posted, pendingSends>>
    BY <1>2 DEF ReadFails, DoClose
  <2>3. <<>> \in Seq(Msgs) /\ <<>> \in Seq(Writes)
    OBVIOUS
  <2>4. WsTypeOK'
    BY <2>1, <2>2, <2>3 DEF WsInv, WsTypeOK
  <2>5. QED
    BY <2>2, <2>4 DEF WsInv, WritesNeedConnection, OneChain
<1>3. QED
  BY <1>1, <1>2

\* A handshake starts the chain on what was queued.
LEMMA HandshakeKeeps == ASSUME WsInv, Handshake PROVE WsInv' /\ Len(writing') <= 1
<1>1. writing = <<>>
  BY DEF WsInv, WritesNeedConnection, Connected, Handshake
<1>2. CASE pendingSends = <<>>
  <2>1. writing' = <<>> /\ flush' = pendingSends /\ pendingSends' = <<>> /\ phase' = "open"
        /\ UNCHANGED <<closing, posted>>
    BY <1>2 DEF Handshake
  <2>2. <<>> \in Seq(Msgs) /\ <<>> \in Seq(Writes) /\ Len(<<>>) = 0
    OBVIOUS
  <2>3. WsTypeOK'
    BY <2>1, <2>2, <1>2 DEF WsInv, WsTypeOK, Phases
  <2>4. QED
    BY <2>1, <2>2, <2>3 DEF WsInv, WritesNeedConnection, OneChain
<1>3. CASE pendingSends # <<>>
  <2>1. Head(pendingSends) \in Msgs
    BY <1>3 DEF WsInv, WsTypeOK
  <2>2. writing' = <<[msg |-> Head(pendingSends), chained |-> TRUE]>>
    BY <1>1, <1>3, FirstWrite DEF Handshake, StartWrite
  <2>3. flush' = pendingSends /\ pendingSends' = <<>> /\ phase' = "open"
        /\ UNCHANGED <<closing, posted>>
    BY DEF Handshake
  <2>4. WsTypeOK'
    <3>1. [msg |-> Head(pendingSends), chained |-> TRUE] \in Writes
      BY <2>1, WriteIs
    <3>2. writing' \in Seq(Writes)
      BY <3>1, <2>2
    <3>3. QED
      BY <3>2, <2>3 DEF WsInv, WsTypeOK, Phases
  <2>5. QED
    BY <2>2, <2>3, <2>4, <1>3 DEF WsInv, WritesNeedConnection, OneChain, Connected
<1>4. QED
  BY <1>2, <1>3

\* The end of a write, with or without a successor in the chain.
LEMMA WriteKeeps ==
    ASSUME WsInv, NEW i \in DOMAIN writing, WriteDone(i) \/ WriteFails(i)
    PROVE  WsInv' /\ Len(writing') <= Len(writing)
<1> DEFINE others == RemoveAt(writing, i)
<1>0. writing \in Seq(Writes) /\ flush \in Seq(Msgs) /\ Len(writing) \in Nat /\ i \in 1..Len(writing)
  BY DEF WsInv, WsTypeOK
<1>1. /\ others \in Seq(Writes)
      /\ Len(others) = Len(writing) - 1
      /\ \A k \in 1..(Len(writing) - 1) :
             others[k] = IF k < i THEN writing[k] ELSE writing[k + 1]
  BY <1>0, RemoveAtIs
<1>2. \A k \in DOMAIN others : \E j \in DOMAIN writing : j # i /\ others[k] = writing[j]
  <2> TAKE k \in DOMAIN others
  <2>1. k \in 1..(Len(writing) - 1)
    BY <1>1
  <2>2. CASE k < i
    <3>1. k \in DOMAIN writing /\ others[k] = writing[k]
      BY <2>1, <2>2, <1>0, <1>1
    <3>2. QED
      BY <2>2, <3>1, <1>0
  <2>3. CASE ~(k < i)
    <3>1. k + 1 \in DOMAIN writing /\ k + 1 # i
      BY <2>1, <2>3, <1>0
    <3>2. others[k] = writing[k + 1]
      BY <2>1, <2>3, <1>1
    <3>3. QED
      BY <3>1, <3>2
  <2>4. QED
    BY <2>2, <2>3
<1>3. writing[i].chained => \A k \in DOMAIN others : ~others[k].chained
  BY <1>2 DEF WsInv, OneChain
<1>4. \A k, l \in DOMAIN others : others[k].chained /\ others[l].chained => k = l
  <2> TAKE k, l \in DOMAIN others
  <2>1. k \in 1..(Len(writing) - 1) /\ l \in 1..(Len(writing) - 1)
    BY <1>1
  <2> DEFINE from(n) == IF n < i THEN n ELSE n + 1
  <2>2. from(k) \in DOMAIN writing /\ from(l) \in DOMAIN writing
        /\ others[k] = writing[from(k)] /\ others[l] = writing[from(l)]
    BY <2>1, <1>0, <1>1
  <2>3. others[k].chained /\ others[l].chained => from(k) = from(l)
    BY <2>2 DEF WsInv, OneChain
  <2>4. QED
    BY <2>1, <2>3, <1>0
<1>5. (\E k \in DOMAIN others : others[k].chained) => flush # <<>>
  BY <1>2 DEF WsInv, OneChain
<1>7. CASE writing' = others /\ (flush' = flush \/ (writing[i].chained /\ flush' \in Seq(Msgs)))
           /\ UNCHANGED <<phase, closing, posted, pendingSends>> /\ Connected
  BY <1>1, <1>3, <1>4, <1>5, <1>7 DEF WsInv, WsTypeOK, WritesNeedConnection, OneChain, Connected
<1>8. CASE WriteFails(i)
  <2>1. flush' = flush \/ (writing[i].chained /\ flush' \in Seq(Msgs))
    BY <1>8 DEF WriteFails
  <2>2. QED
    BY <1>7, <1>8, <2>1 DEF WriteFails
<1>9. CASE WriteDone(i) /\ ~writing[i].chained
  BY <1>7, <1>9 DEF WriteDone
<1>10. CASE WriteDone(i) /\ writing[i].chained
  <2>1. flush # <<>> /\ Tail(flush) \in Seq(Msgs) /\ Len(flush) \in Nat
        /\ Len(flush) # 0
    BY <1>0, <1>10 DEF WsInv, OneChain
  <2>2. CASE Len(flush) = 1
    BY <1>7, <1>10, <2>1, <2>2 DEF WriteDone
  <2>3. CASE Len(flush) # 1
    <3> DEFINE next == [msg |-> flush[2], chained |-> TRUE]
    <3>1. writing' = Append(others, next) /\ flush' = Tail(flush) /\ Connected
          /\ UNCHANGED <<phase, closing, posted, pendingSends>>
      BY <1>10, <2>3 DEF WriteDone
    <3>2. next \in Writes /\ Tail(flush) # <<>>
      <4> DEFINE n == Len(flush)
      <4>0. n \in Nat /\ n # 0 /\ n # 1
        BY <2>1, <2>3
      <4> HIDE DEF n
      <4>1. n >= 2 /\ 2 \in 1..n
        BY <4>0
      <4>2. flush[2] \in Msgs
        BY <4>1, <1>0, ElementOfSeq DEF n
      <4>3. Tail(flush) # <<>>
        <5>1. Len(Tail(flush)) = Len(flush) - 1
          BY <2>1, <1>0
        <5>2. QED
          BY <5>1, <4>1, <2>1 DEF n
      <4>4. QED
        BY <4>2, <4>3, WriteIs
    <3> HIDE DEF others, next
    <3>3. Append(others, next) \in Seq(Writes) /\ Len(Append(others, next)) = Len(writing)
          /\ \A k \in DOMAIN Append(others, next) :
                 \/ k = Len(writing)
                 \/ k \in DOMAIN others /\ Append(others, next)[k] = others[k]
      BY <1>1, <3>2, <1>0
    <3>4. \A k \in DOMAIN writing' : writing'[k].chained => k = Len(writing)
      BY <3>1, <3>3, <1>3, <1>10
    <3>5. QED
      BY <3>1, <3>2, <3>3, <3>4, <2>1, <1>0
      DEF WsInv, WsTypeOK, WritesNeedConnection, OneChain, Connected
  <2>4. QED
    BY <2>2, <2>3
<1>11. QED
  BY <1>8, <1>9, <1>10
=============================================================================
