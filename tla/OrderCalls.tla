------------------------------ MODULE OrderCalls ------------------------------
(***************************************************************************)
(* What an order transport promises its callers, whatever it does inside:  *)
(* a call that was made is acted on at most once, and at any time after,   *)
(* also when its caller has been told that it failed; a caller that is     *)
(* told a result is told the result of its own call.                       *)
(***************************************************************************)
EXTENDS Naturals

CONSTANTS
    Calls,     \* the calls that can be made
    Results,   \* what the exchange may do with one
    None

VARIABLES
    told,   \* per call: None before it is made, "open", "failed" or a result
    acts,   \* how often the exchange acted on it
    done    \* what it did; None before

OrderCallsInit ==
    /\ told = [c \in Calls |-> None]
    /\ acts = [c \in Calls |-> 0]
    /\ done = [c \in Calls |-> None]

Make(c) ==
    /\ told[c] = None
    /\ told' = [told EXCEPT ![c] = "open"]
    /\ UNCHANGED <<acts, done>>

Act(c) ==
    /\ told[c] # None
    /\ acts[c] = 0
    /\ acts' = [acts EXCEPT ![c] = 1]
    /\ \E r \in Results : done' = [done EXCEPT ![c] = r]
    /\ UNCHANGED told

Answer(c) ==
    /\ told[c] = "open"
    /\ acts[c] = 1
    /\ told' = [told EXCEPT ![c] = done[c]]
    /\ UNCHANGED <<acts, done>>

Fail(c) ==
    /\ told[c] = "open"
    /\ told' = [told EXCEPT ![c] = "failed"]
    /\ UNCHANGED <<acts, done>>

OrderCallsNext == \E c \in Calls : Make(c) \/ Act(c) \/ Answer(c) \/ Fail(c)

OrderCallsSpec == OrderCallsInit /\ [][OrderCallsNext]_<<told, acts, done>>
=============================================================================
