--------------------------- MODULE HeapRefinement ---------------------------
(***************************************************************************)
(* The heap implements Allocator: what clients hold never overlaps.        *)
(***************************************************************************)
EXTENDS Heap

Promise == INSTANCE Allocator WITH
    Low <- g_heap_start, High <- g_heap_end, Sizes <- Requests

AllocatorSpec == Promise!Spec

=============================================================================
