---------------------------- MODULE SampleStream ----------------------------
(***************************************************************************)
(* What the message queue promises: a stream of samples numbered in the    *)
(* order of their production, of which the latest Capacity ones are kept.  *)
(* A delivery always hands out the oldest sample kept, to one consumer.    *)
(***************************************************************************)
EXTENDS Naturals, FiniteSets, FiniteSetsExt, Sequences

CONSTANTS Capacity, Consumers

VARIABLES
    produced,              \* samples produced so far
    kept,                  \* the numbers of those that can still be delivered
    received,              \* what each consumer was given, in order
    closed

Init ==
    /\ produced = 0
    /\ kept = {}
    /\ received = [c \in Consumers |-> <<>>]
    /\ closed = FALSE

\* A production over the capacity loses the oldest sample kept.
Produce ==
    LET room == IF Cardinality(kept) < Capacity THEN kept ELSE kept \ {Min(kept)} IN
    /\ produced' = produced + 1
    /\ kept' = room \union {produced + 1}
    /\ UNCHANGED <<received, closed>>

Deliver(c) ==
    /\ kept # {}
    /\ received' = [received EXCEPT ![c] = Append(@, Min(kept))]
    /\ kept' = kept \ {Min(kept)}
    /\ UNCHANGED <<produced, closed>>

Clear == kept' = {} /\ UNCHANGED <<produced, received, closed>>

Close == closed' = TRUE /\ UNCHANGED <<produced, kept, received>>

Next == Produce \/ Clear \/ Close \/ \E c \in Consumers : Deliver(c)

Spec == Init /\ [][Next]_<<produced, kept, received, closed>>
=============================================================================
