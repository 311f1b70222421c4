------------------------------ MODULE TurnQueue ------------------------------
(***************************************************************************)
(* What fluvius-core promises of a conversation with Typebot: messages     *)
(* queue up in the order they are stored, and one is dealt with at a time, *)
(* the oldest first.  A text is put to Typebot at most once, anything else *)
(* never; only what was put to it is answered, or asks for a person and is *)
(* told so.  A message leaves the queue for good, answered or not.         *)
(***************************************************************************)
EXTENDS Naturals, Sequences

CONSTANTS
    Message,
    ForTypebot,     \* messages that may be put to Typebot
    ForPerson       \* messages that ask for a person

VARIABLES
    order,      \* the messages, as they were stored
    open,       \* those still to be dealt with
    posts,      \* how often each was put to Typebot
    answers     \* how often each was answered

vars == <<order, open, posts, answers>>

Init ==
    /\ order = <<>>
    /\ open = {}
    /\ posts = [m \in Message |-> 0]
    /\ answers = [m \in Message |-> 0]

Before(m, n) == \E i, j \in DOMAIN order : i < j /\ order[i] = m /\ order[j] = n

IsOldest(m) == m \in open /\ \A n \in open \ {m} : Before(m, n)

\* A message is stored, and queues if the bot is to deal with it.
Join(m) ==
    /\ \A i \in DOMAIN order : order[i] # m
    /\ order' = Append(order, m)
    /\ open' \in {open, open \cup {m}}
    /\ UNCHANGED <<posts, answers>>

Ask(m) ==
    /\ IsOldest(m)
    /\ m \in ForTypebot
    /\ posts[m] = 0
    /\ posts' = [posts EXCEPT ![m] = 1]
    /\ UNCHANGED <<order, open, answers>>

Answer(m) ==
    /\ IsOldest(m)
    /\ posts[m] = 1 \/ m \in ForPerson
    /\ open' = open \ {m}
    /\ answers' = [answers EXCEPT ![m] = 1]
    /\ UNCHANGED <<order, posts>>

\* A message is discarded, or fails, or is answered with nothing.
GiveUp(m) ==
    /\ IsOldest(m)
    /\ open' = open \ {m}
    /\ UNCHANGED <<order, posts, answers>>

Next == \E m \in Message : Join(m) \/ Ask(m) \/ Answer(m) \/ GiveUp(m)

Spec == Init /\ [][Next]_vars
=============================================================================
