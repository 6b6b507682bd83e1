------------------------------- MODULE MCHeap -------------------------------
(***************************************************************************)
(* A heap of a few units for TLC: a header of two, blocks on even          *)
(* addresses, every size that the words allow, and kfree of every address  *)
(* in and around the heap.                                                 *)
(***************************************************************************)
EXTENDS HeapRefinement

MCRequests == 0 .. 7
MCPointers == 0 .. g_heap_end + 1

=============================================================================
