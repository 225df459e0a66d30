------------------------------- MODULE WsClient -------------------------------
(***************************************************************************)
(* WsClient (src/src/ws_client.cpp): one WebSocket with automatic          *)
(* reconnection.  Any thread may call send() and close(); everything else  *)
(* runs on the io thread, one handler at a time.                           *)
(*                                                                         *)
(* The operators below are the client's part of a step.  A module that     *)
(* owns a client conjoins them with what its callbacks and the server do,  *)
(* and says when the io thread is free to run the next handler.            *)
(*                                                                         *)
(* A write that starts while another is in progress is undefined in Beast: *)
(* it goes through (WriteDone) or vanishes, with the rest of its chain     *)
(* (WriteFails).                                                           *)
(***************************************************************************)
EXTENDS Naturals, Sequences, SequencesExt

CONSTANT Msgs   \* what a user of the client sends

VARIABLES
    phase,         \* where the connection stands; "open" is connected_
    closing,       \* closing_
    posted,        \* send() handlers handed to the io_context, oldest first
    pendingSends,  \* pending_sends_
    flush,         \* what flush_pending has still to write, the current message first
    writing        \* the async_writes in progress, oldest first

wsVars == <<phase, closing, posted, pendingSends, flush, writing>>

\* "connecting": between do_resolve and on_ws_handshake; "lost": a read failed and
\* on_disconnect_ runs; "timer": reconnect_timer_ runs; "closed": no connection and no
\* timer, for good.
Phases == {"connecting", "open", "lost", "timer", "closed"}

\* A write knows whether it belongs to the chain of flush_pending.
Writes == [msg : Msgs, chained : BOOLEAN]

Connected == phase = "open"

----------------------------------------------------------------------------
(* Calls from other threads. *)

Send(msgs) ==
    /\ posted' = posted \o msgs
    /\ UNCHANGED <<phase, closing, pendingSends, flush, writing>>

\* close(): only marks; do_close runs on the io thread after what was posted before.
Close ==
    /\ ~closing
    /\ closing' = TRUE
    /\ UNCHANGED <<phase, posted, pendingSends, flush, writing>>

----------------------------------------------------------------------------
(* Handlers of the io thread. *)

StartWrite(m, chained) == Append(writing, [msg |-> m, chained |-> chained])

\* The handler send() posted.
RunSend ==
    /\ posted # <<>> /\ phase # "closed"
    /\ posted' = Tail(posted)
    /\ \/ /\ ~Connected
          /\ pendingSends' = Append(pendingSends, Head(posted))
          /\ UNCHANGED writing
       \/ /\ Connected
          /\ writing' = StartWrite(Head(posted), FALSE)
          /\ UNCHANGED pendingSends
    /\ UNCHANGED <<phase, closing, flush>>

\* schedule_reconnect, without a limit on the attempts.
AfterReconnect == IF closing THEN "closed" ELSE "timer"

\* The resolution, the connection, TLS or the upgrade fails.
ConnectFails ==
    /\ phase = "connecting"
    /\ phase' = AfterReconnect
    /\ UNCHANGED <<closing, posted, pendingSends, flush, writing>>

\* reconnect_timer_ expires.
RetryDue ==
    /\ phase = "timer"
    /\ phase' = IF closing THEN "closed" ELSE "connecting"
    /\ UNCHANGED <<closing, posted, pendingSends, flush, writing>>

HandshakeKeepsQueue ==
    /\ phase = "connecting"
    /\ phase' = "open"
    /\ flush' = pendingSends
    /\ writing' = IF pendingSends = <<>> THEN <<>> ELSE StartWrite(Head(pendingSends), TRUE)
    /\ UNCHANGED <<closing, posted, pendingSends>>

HandshakeWritesAll ==
    /\ phase = "connecting"
    /\ phase' = "open"
    /\ flush' = <<>>
    /\ pendingSends' = <<>>
    /\ writing' = [i \in DOMAIN pendingSends |-> [msg |-> pendingSends[i], chained |-> FALSE]]
    /\ UNCHANGED <<closing, posted>>

\* on_ws_handshake: connected, and flush_pending starts on what was queued.
Handshake ==
    /\ phase = "connecting"
    /\ phase' = "open"
    /\ flush' = pendingSends
    /\ pendingSends' = <<>>
    /\ writing' = IF pendingSends = <<>> THEN <<>> ELSE StartWrite(Head(pendingSends), TRUE)
    /\ UNCHANGED <<closing, posted>>

\* Write i completes: the chain goes on with its next message.
WriteDone(i) ==
    LET others == RemoveAt(writing, i) IN
    /\ Connected
    /\ \/ /\ ~writing[i].chained
          /\ writing' = others
          /\ UNCHANGED flush
       \/ /\ writing[i].chained
          /\ flush' = Tail(flush)
          /\ writing' = IF Len(flush) = 1 THEN others
                        ELSE Append(others, [msg |-> flush[2], chained |-> TRUE])
    /\ UNCHANGED <<phase, closing, posted, pendingSends>>

\* Write i fails, or vanishes beside another: the chain it belongs to ends.
WriteFails(i) ==
    /\ Connected
    /\ writing' = RemoveAt(writing, i)
    /\ flush' = IF writing[i].chained THEN <<>> ELSE flush
    /\ UNCHANGED <<phase, closing, posted, pendingSends>>

\* on_read with an error: the writes in progress and the chain end with the stream.
\* Without closing_ the owner's on_disconnect_ runs next.
ReadFails ==
    /\ Connected
    /\ phase' = IF closing THEN "closed" ELSE "lost"
    /\ writing' = <<>>
    /\ flush' = <<>>
    /\ UNCHANGED <<closing, posted, pendingSends>>

\* on_disconnect_ has returned.
ScheduleReconnect ==
    /\ phase = "lost"
    /\ phase' = AfterReconnect
    /\ UNCHANGED <<closing, posted, pendingSends, flush, writing>>

\* do_close, behind the sends posted before it.
DoClose ==
    /\ closing /\ posted = <<>> /\ phase # "closed"
    /\ phase' = "closed"
    /\ writing' = <<>>
    /\ flush' = <<>>
    /\ UNCHANGED <<closing, posted, pendingSends>>

----------------------------------------------------------------------------
\* connect(), with the sends made before it.
WsInit(sends) ==
    /\ phase = "connecting"
    /\ closing = FALSE
    /\ posted = sends
    /\ pendingSends = <<>>
    /\ flush = <<>>
    /\ writing = <<>>

WsTypeOK ==
    /\ phase \in Phases
    /\ closing \in BOOLEAN
    /\ posted \in Seq(Msgs)
    /\ pendingSends \in Seq(Msgs)
    /\ flush \in Seq(Msgs)
    /\ writing \in Seq(Writes)

\* What is being written, as messages.
Written == {writing[i].msg : i \in DOMAIN writing}
=============================================================================
