------------------------- MODULE EventPathRefinement -------------------------
(***************************************************************************)
(* The event queue with its interrupt handlers implements BoundedFifo: the *)
(* push takes effect when it publishes the new head, the pop when it       *)
(* advances the tail, and a refusal when the two are compared.             *)
(***************************************************************************)
EXTENDS EventPath

\* The events that a bounded run can produce.
BoundedEvent == [src : Device, byte : 1 .. MaxBytes, k : 1 .. MaxPushes]

Fifo == INSTANCE BoundedFifo WITH Event <- BoundedEvent, Capacity <- EVENT_Q_SIZE - 1

FifoSpec == Fifo!Spec

=============================================================================
