------------------------------- MODULE HlWsPost -------------------------------
(***************************************************************************)
(* Orders on their way to Hyperliquid: NativeHyperliquidTrading (src/src/  *)
(* native_trading.cpp 180-327) posts a signed action through               *)
(* HlWsPostTransport (src/src/hl_ws_post.cpp 147-252), which sends it over *)
(* a WsClient and waits for the answer with the same id.                   *)
(*                                                                         *)
(* Two threads post: the main loop, and the fill feed's io thread, which   *)
(* cancels the active order when its feed drops (src/src/main_live.cpp     *)
(* 404-415).  The transport's own io thread runs on_message and            *)
(* on_disconnect.  A step is what runs between two points where another    *)
(* thread can get in; the two mutexes are held across a step only where    *)
(* the code takes one inside the other.                                    *)
(***************************************************************************)
EXTENDS WsClient, FiniteSets

CONSTANTS
    MainThread, FillThread,  \* the threads that post
    MaxPosts,                \* bound: the number of posts
    Ops,                     \* what the main loop posts: a subset of {"place", "cancel", "ioc"}
    None

Callers == {MainThread, FillThread}
Ids == 1..MaxPosts

\* What the exchange answers: the order rests or the cancel took; the order filled;
\* "status":"ok" around an error for the one order; or a refusal of the whole action.
Results == {"ok", "filled", "error", "reject"}

\* What the transport answers for it.
Failures == {"timeout", "disconnect"}

Bodies == Results \cup Failures

\* The actions posted: a maker order, an IOC order, or a cancel of an earlier order.
Requests == [op : {"place", "cancel", "ioc"}, target : Ids \cup {None}]

ASSUME PostAssumption ==
    /\ MaxPosts \in Nat \ {0}
    /\ Msgs = Ids
    /\ Ops \subseteq {"place", "cancel", "ioc"}
    /\ MainThread # FillThread
    /\ None \notin Bodies \cup {"open", "failed"}
    /\ \A request \in Requests : request # None

Replies == [id : Ids, body : Results \cup {"disconnect"}]

VARIABLES
    nextId,     \* next_id_
    request,    \* the posts made, by id: [op, target]; None before
    pc,         \* per caller: where it is in post_action
    call,       \* per caller: the id of its last post
    pendingMap, \* the keys of pending_
    entry,      \* PendingResponse of each id: None until ready, then its body
    got,        \* what post_action returned for each id; None before
    io,         \* "loop", or inside on_message ("answering") or on_disconnect ("failing")
    todo,       \* the entries this callback has still to make ready
    toServer,   \* requests the exchange has received and not handled
    answers,    \* answers on their way back over this connection
    executed,   \* exchange: how often it acted on each id
    served,     \* exchange: its result for each id; None before
    book        \* exchange: the orders resting

callVars   == <<nextId, request, pc, call, got>>
mapVars    == <<pendingMap, entry, io, todo>>
serverVars == <<toServer, answers, executed, served, book>>
vars == <<wsVars, callVars, mapVars, serverVars>>

\* post_action holds the entry's mutex from its wait until it returns; between steps it
\* is taken only by a caller whose wait timed out.
EntryHeld(id) == \E c \in Callers : pc[c] = "erasing" /\ call[c] = id

\* on_disconnect holds pending_mu_ for its whole loop.
MapHeld == io = "failing"

AckOnlyFilled(op, body) ==
    body \in (IF op = "place" THEN {"filled"} ELSE {"ok", "filled", "error"})

AckAnyAnswer(op, body) ==
    body \in (IF op = "place" THEN {"ok", "filled"} ELSE Results)

\* The acknowledgement the caller makes of a body: an order needs its oid, a cancel and
\* an IOC order only "status":"ok".
AckOk(op, body) ==
    body \in (IF op = "place" THEN {"ok", "filled"} ELSE {"ok", "filled", "error"})

\* The orders whose oid a caller knows.
KnownOrders == {id \in Ids : request[id] # None /\ request[id].op = "place"
                                /\ AckOk("place", got[id])}

----------------------------------------------------------------------------
(* The calling threads. *)

Register(c, op, target) ==
    /\ pc[c] = "idle" /\ nextId \in Ids /\ ~MapHeld
    /\ request' = [request EXCEPT ![nextId] = [op |-> op, target |-> target]]
    /\ pendingMap' = pendingMap \cup {nextId}
    /\ call' = [call EXCEPT ![c] = nextId]
    /\ nextId' = nextId + 1
    /\ pc' = [pc EXCEPT ![c] = "registered"]
    /\ UNCHANGED <<wsVars, got, entry, io, todo, serverVars>>

PlaceOrder ==
    /\ ~closing
    /\ \E op \in Ops \ {"cancel"} : Register(MainThread, op, None)

\* The main loop cancels the active order; the fill feed's disconnect callback does too,
\* and may do it again, even while main shuts down.
CancelOrder(c) ==
    /\ c = FillThread \/ ("cancel" \in Ops /\ ~closing)
    /\ \E id \in KnownOrders : Register(c, "cancel", id)

SendRequest(c) ==
    /\ pc[c] = "registered"
    /\ Send(<<call[c]>>)
    /\ pc' = [pc EXCEPT ![c] = "waiting"]
    /\ UNCHANGED <<nextId, request, call, got, mapVars, serverVars>>

\* The entry became ready within timeout_ms.
ReturnAnswer(c) ==
    /\ pc[c] = "waiting" /\ entry[call[c]] # None
    /\ got' = [got EXCEPT ![call[c]] = entry[call[c]]]
    /\ pc' = [pc EXCEPT ![c] = "idle"]
    /\ UNCHANGED <<wsVars, nextId, request, call, mapVars, serverVars>>

TimeOutWhenDown(c) ==
    /\ pc[c] = "waiting" /\ entry[call[c]] = None
    /\ ~Connected
    /\ pc' = [pc EXCEPT ![c] = "erasing"]
    /\ UNCHANGED <<wsVars, nextId, request, call, got, mapVars, serverVars>>

\* It did not: the wait returns with the entry's mutex held.
TimeOut(c) ==
    /\ pc[c] = "waiting" /\ entry[call[c]] = None
    /\ pc' = [pc EXCEPT ![c] = "erasing"]
    /\ UNCHANGED <<wsVars, nextId, request, call, got, mapVars, serverVars>>

\* pending_mu_ is taken inside the entry's mutex.
EraseAndReturn(c) ==
    /\ pc[c] = "erasing" /\ ~MapHeld
    /\ pendingMap' = pendingMap \ {call[c]}
    /\ got' = [got EXCEPT ![call[c]] = "timeout"]
    /\ pc' = [pc EXCEPT ![c] = "idle"]
    /\ UNCHANGED <<wsVars, nextId, request, call, entry, io, todo, serverVars>>

Caller(c) ==
    \/ SendRequest(c)
    \/ ReturnAnswer(c)
    \/ TimeOut(c)
    \/ EraseAndReturn(c)

----------------------------------------------------------------------------
(* The transport's io thread. *)

ClientStep ==
    /\ io = "loop"
    /\ RunSend \/ ConnectFails \/ RetryDue \/ Handshake \/ DoClose
    /\ UNCHANGED <<callVars, mapVars, serverVars>>

RequestArrives(i) ==
    /\ io = "loop"
    /\ WriteDone(i)
    /\ toServer' = toServer \cup {writing[i].msg}
    /\ UNCHANGED <<callVars, mapVars, answers, executed, served, book>>

RequestFails(i) ==
    /\ io = "loop"
    /\ WriteFails(i)
    /\ UNCHANGED <<callVars, mapVars, serverVars>>

TakeAnswerOfAnyone(a) ==
    /\ io = "loop" /\ Connected
    /\ a \in answers
    /\ answers' = answers \ {a}
    /\ \/ /\ pendingMap = {}
          /\ UNCHANGED <<pendingMap, io, todo>>
       \/ \E id \in pendingMap :
             /\ pendingMap' = pendingMap \ {id}
             /\ io' = "answering"
             /\ todo' = <<[id |-> id, body |-> a.body]>>
    /\ UNCHANGED <<wsVars, callVars, entry, toServer, executed, served, book>>

\* on_message up to the unlock of pending_mu_: the answer of an id that is not pending
\* is dropped.
TakeAnswer(a) ==
    /\ io = "loop" /\ Connected
    /\ a \in answers
    /\ answers' = answers \ {a}
    /\ \/ /\ a.id \notin pendingMap
          /\ UNCHANGED <<pendingMap, io, todo>>
       \/ /\ a.id \in pendingMap
          /\ pendingMap' = pendingMap \ {a.id}
          /\ io' = "answering"
          /\ todo' = <<a>>
    /\ UNCHANGED <<wsVars, callVars, entry, toServer, executed, served, book>>

\* A callback makes the next entry ready, under that entry's mutex.
MakeReady ==
    /\ todo # <<>> /\ ~EntryHeld(Head(todo).id)
    /\ entry' = [entry EXCEPT ![Head(todo).id] = Head(todo).body]
    /\ todo' = Tail(todo)
    /\ io' = IF io = "answering" THEN "loop" ELSE io
    /\ UNCHANGED <<wsVars, callVars, pendingMap, serverVars>>

FailNothing ==
    /\ io' = "failing"
    /\ todo' = <<>>

FailAsTimeout ==
    /\ io' = "failing"
    /\ todo' \in {[k \in DOMAIN s |-> [id |-> s[k], body |-> "timeout"]] :
                      s \in SetToSeqs(pendingMap)}

\* on_disconnect fails whatever is pending, in the map's order, which is arbitrary.
FailPending ==
    /\ io' = "failing"
    /\ todo' \in {[k \in DOMAIN s |-> [id |-> s[k], body |-> "disconnect"]] :
                      s \in SetToSeqs(pendingMap)}

\* The end of on_disconnect, and what the client does after it.
AllFailed ==
    /\ io = "failing" /\ todo = <<>>
    /\ pendingMap' = {}
    /\ io' = "loop"
    /\ ScheduleReconnect
    /\ UNCHANGED <<callVars, entry, todo, serverVars>>

----------------------------------------------------------------------------
(* The exchange and the network. *)

Outcomes(id) ==
    CASE request[id].op = "place"  -> Results
      [] request[id].op = "ioc"    -> {"filled", "error", "reject"}
      [] request[id].op = "cancel" ->
             IF request[id].target \in book THEN {"ok", "reject"} ELSE {"error", "reject"}

BookAfter(id, result) ==
    CASE request[id].op = "place"  /\ result = "ok" -> book \cup {id}
      [] request[id].op = "cancel" /\ result = "ok" -> book \ {request[id].target}
      [] OTHER -> book

Acts(id, result) ==
    /\ executed' = [executed EXCEPT ![id] = @ + 1]
    /\ served' = [served EXCEPT ![id] = result]
    /\ book' = BookAfter(id, result)

\* The exchange handles a request and answers over the connection.
Serve(id) ==
    /\ Connected
    /\ id \in toServer
    /\ toServer' = toServer \ {id}
    /\ \E result \in Outcomes(id) :
           /\ Acts(id, result)
           /\ answers' = answers \cup {[id |-> id, body |-> result]}
    /\ UNCHANGED <<wsVars, callVars, mapVars>>

\* The connection breaks: answers on their way are lost, one request still on its way may
\* be acted on, and the io thread enters on_disconnect unless the client is closing.
Break ==
    /\ io = "loop"
    /\ ReadFails
    /\ \/ UNCHANGED <<executed, served, book>>
       \/ \E id \in toServer \cup Written : \E result \in Outcomes(id) : Acts(id, result)
    /\ toServer' = {}
    /\ answers' = {}
    /\ \/ closing /\ UNCHANGED <<io, todo>>
       \/ ~closing /\ FailPending
    /\ UNCHANGED <<callVars, pendingMap, entry>>

\* A resting order fills or is cancelled by the exchange.
LeavesBook(id) ==
    /\ id \in book
    /\ book' = book \ {id}
    /\ UNCHANGED <<wsVars, callVars, mapVars, toServer, answers, executed, served>>

\* main leaves its loop and stops the transport, before the fill feed.
Stop ==
    /\ pc[MainThread] = "idle"
    /\ Close
    /\ UNCHANGED <<callVars, mapVars, serverVars>>

----------------------------------------------------------------------------
Init ==
    /\ WsInit(<<>>)
    /\ nextId = 1
    /\ request = [id \in Ids |-> None]
    /\ pc = [c \in Callers |-> "idle"]
    /\ call = [c \in Callers |-> 1]
    /\ got = [id \in Ids |-> None]
    /\ pendingMap = {}
    /\ entry = [id \in Ids |-> None]
    /\ io = "loop"
    /\ todo = <<>>
    /\ toServer = {}
    /\ answers = {}
    /\ executed = [id \in Ids |-> 0]
    /\ served = [id \in Ids |-> None]
    /\ book = {}

IoThread ==
    \/ ClientStep
    \/ MakeReady
    \/ AllFailed
    \/ \E i \in DOMAIN writing : RequestArrives(i)
    \/ \E a \in answers : TakeAnswer(a)

Next ==
    \/ PlaceOrder
    \/ \E c \in Callers : CancelOrder(c)
    \/ \E c \in Callers : Caller(c)
    \/ IoThread
    \/ \E i \in DOMAIN writing : RequestFails(i)
    \/ \E id \in toServer : Serve(id)
    \/ \E id \in book : LeavesBook(id)
    \/ Break
    \/ Stop

Spec == Init /\ [][Next]_vars

\* Threads run: a caller goes on with its call and its wait expires, the io thread
\* finishes the callback it is in.  pending_mu_ is free for the seconds a reconnection
\* takes, so a caller that wants it gets it in the end.  Nothing is assumed of the
\* network, the exchange or the connection.
ThreadSpec ==
    /\ Spec
    /\ \A c \in Callers : WF_vars(Caller(c)) /\ SF_vars(EraseAndReturn(c))
    /\ WF_vars(MakeReady)
    /\ WF_vars(AllFailed)

----------------------------------------------------------------------------
(* Properties. *)

\* Every variable keeps its type: the members of WsClient and HlWsPostTransport, the
\* callers and the exchange.
TypeOK ==
    /\ WsTypeOK
    /\ nextId \in 1..(MaxPosts + 1)
    /\ request \in [Ids -> Requests \cup {None}]
    /\ pc \in [Callers -> {"idle", "registered", "waiting", "erasing"}]
    /\ call \in [Callers -> Ids]
    /\ got \in [Ids -> Bodies \cup {None}]
    /\ pendingMap \in SUBSET Ids
    /\ entry \in [Ids -> Bodies \cup {None}]
    /\ io \in {"loop", "answering", "failing"}
    /\ todo \in Seq(Replies)
    /\ toServer \in SUBSET Ids
    /\ answers \in SUBSET Replies
    /\ executed \in [Ids -> Nat]
    /\ served \in [Ids -> Results \cup {None}]
    /\ book \in SUBSET Ids

\* What a caller is told of its post is the exchange's result for that very post,
\* whichever thread posted, whatever timed out or broke in between (on_message,
\* post_action).
AnswerIsOwn == \A id \in Ids : got[id] \in Results => served[id] = got[id]

\* What a caller knows of its post.
ToldOf(post, result) ==
    CASE post = None                          -> None
      [] post # None /\ result = None         -> "open"
      [] post # None /\ result \in Failures   -> "failed"
      [] OTHER                                -> result

Told == [id \in Ids |-> ToldOf(request[id], got[id])]

Promise == INSTANCE OrderCalls WITH
    Calls <- Ids, told <- Told, acts <- executed, done <- served

\* The transport keeps the promise of OrderCalls: through queueing, flushing, time-outs and
\* reconnections, with two threads posting, no post is acted on twice and every result a
\* caller gets is that of its own post (post_action, send, flush_pending, on_message).
ImplementsOrderCalls == Promise!OrderCallsSpec

\* An order still resting that its caller does not know is in a call under way, or in one
\* that failed in the transport: then it may even enter the book long after its caller
\* was told so, by the flush of a later handshake (post_action, flush_pending,
\* place_limit_order).
UnknownOrdersFailed ==
    \A id \in book :
        \/ id \in KnownOrders
        \/ got[id] \in Failures
        \/ \E c \in Callers : call[c] = id /\ pc[c] # "idle"

\* A cancel acknowledged as ok leaves its order out of the book for good, although
\* "status":"ok" may wrap an error (cancel_order): the order cannot come in later.
CancelledIsGone ==
    \A id \in Ids :
        request[id] # None /\ request[id].op = "cancel" /\ AckOk("cancel", got[id])
            => request[id].target \notin book

\* Without a connection, a caller whose answer is outstanding has its request queued for
\* the next one: on_disconnect has failed every other.
UnansweredIsQueued ==
    phase \notin {"open", "lost", "closed"} =>
        \A c \in Callers :
            pc[c] = "waiting" /\ entry[call[c]] = None
                => call[c] \in Range(posted) \cup Range(pendingSends)

\* A caller holds its entry's mutex and wants pending_mu_ (post_action), the io thread
\* holds pending_mu_ and wants that entry's mutex (on_disconnect).
LockCycle == io = "failing" /\ todo # <<>> /\ EntryHeld(Head(todo).id)

\* Every post returns, unless the two threads lock each other out.
PostEnds == \A c \in Callers : pc[c] # "idle" ~> pc[c] = "idle" \/ LockCycle

\* "WebSocket with auto-reconnect": a lost connection is tried again, unless it is closed.
AutoReconnect == phase = "lost" ~> phase # "lost" \/ closing
=============================================================================
