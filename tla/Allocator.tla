----------------------------- MODULE Allocator ------------------------------
(***************************************************************************)
(* What a heap promises to its clients, each call in one step: a request   *)
(* is answered with a region of the heap that overlaps no region granted   *)
(* before and not yet given back, or it is refused; and a call to free     *)
(* succeeds exactly for the regions that are granted.                      *)
(***************************************************************************)
EXTENDS Integers

CONSTANTS
    Low, High,  \* the heap is the addresses Low .. High - 1
    Sizes,      \* what clients ask for
    Pointers    \* what clients may try to give back

VARIABLES
    granted,    \* the regions that clients hold: first address -> size
    answer      \* what the last call returned

NULL == 0
Pointer(p) == <<"pointer", p>>
Verdict(b) == <<"bool", b>>

allocatorVars == <<granted, answer>>

Apart(p, m, q, n) == p + m <= q \/ q + n <= p

Init == granted = << >> /\ answer = Pointer(NULL)

Grant(n) ==
    /\ n > 0
    /\ \E p \in Low .. High - n :
          /\ p # NULL
          /\ \A q \in DOMAIN granted : Apart(p, n, q, granted[q])
          /\ granted' = [q \in DOMAIN granted \cup {p} |->
                            IF q = p THEN n ELSE granted[q]]
          /\ answer' = Pointer(p)

Refuse == answer' = Pointer(NULL) /\ UNCHANGED granted

Release(p) ==
    \/ /\ p \in DOMAIN granted
       /\ granted' = [q \in DOMAIN granted \ {p} |-> granted[q]]
       /\ answer' = Verdict(TRUE)
    \/ /\ p \notin DOMAIN granted
       /\ answer' = Verdict(FALSE)
       /\ UNCHANGED granted

Next ==
    \/ \E n \in Sizes : Grant(n)
    \/ Refuse
    \/ \E p \in Pointers : Release(p)

Spec == Init /\ [][Next]_allocatorVars

=============================================================================
