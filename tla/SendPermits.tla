----------------------------- MODULE SendPermits -----------------------------
(***************************************************************************)
(* What the delivery outbox promises a person who writes to a customer:    *)
(* every request to send a message - the first one and each manual retry - *)
(* is a permit, and the WhatsApp provider takes the message at most as     *)
(* often as permits were granted for it.                                   *)
(***************************************************************************)
EXTENDS Naturals

CONSTANT Message

VARIABLES
    granted,    \* permits granted for each message
    used        \* how often the provider took each message

vars == <<granted, used>>

Init ==
    /\ granted = [m \in Message |-> 0]
    /\ used = [m \in Message |-> 0]

\* A person sends a message or retries a failed one.
Grant(m) ==
    /\ granted' = [granted EXCEPT ![m] = @ + 1]
    /\ UNCHANGED used

\* The provider takes the message.
Use(m) ==
    /\ used[m] < granted[m]
    /\ used' = [used EXCEPT ![m] = @ + 1]
    /\ UNCHANGED granted

Next == \E m \in Message : Grant(m) \/ Use(m)

Spec == Init /\ [][Next]_vars
=============================================================================
