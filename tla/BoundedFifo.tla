----------------------------- MODULE BoundedFifo -----------------------------
(***************************************************************************)
(* What the kernel's event queue promises to the interrupt handlers that   *)
(* put events into it and to the task that takes them out, each operation  *)
(* in one step: events come out in the order in which they went in, each   *)
(* exactly once, and one is refused only when Capacity others wait.        *)
(***************************************************************************)
EXTENDS Naturals, Sequences

CONSTANTS
    Event,      \* what the queue may hold
    Capacity    \* how many events it holds at most

VARIABLES
    accepted,   \* every event put so far, in order
    delivered,  \* every event taken so far, in order
    refused     \* how many were turned away

fifoVars == <<accepted, delivered, refused>>

Waiting == Len(accepted) - Len(delivered)

Init == accepted = << >> /\ delivered = << >> /\ refused = 0

Put(e) ==
    /\ Waiting < Capacity
    /\ accepted' = Append(accepted, e)
    /\ UNCHANGED <<delivered, refused>>

Refuse ==
    /\ Waiting = Capacity
    /\ refused' = refused + 1
    /\ UNCHANGED <<accepted, delivered>>

Take ==
    /\ Waiting > 0
    /\ delivered' = Append(delivered, accepted[Len(delivered) + 1])
    /\ UNCHANGED <<accepted, refused>>

Next == Refuse \/ Take \/ \E e \in Event : Put(e)

Spec == Init /\ [][Next]_fifoVars

=============================================================================
