-------------------------------- MODULE Heap --------------------------------
(***************************************************************************)
(* The kernel heap (memory/heap.c): blocks, each a header and a payload,   *)
(* cut one after the other from the start of the heap (alloc_from_bump);   *)
(* freed blocks go to the head of a list, where kmalloc looks first and    *)
(* from which it may split a block; blocks are never joined again.         *)
(*                                                                         *)
(* A block is known by the address of its header.  The list is the         *)
(* sequence of the headers that g_free_list and the next fields chain.     *)
(* heap_init is Init: kernel_main calls it before anything else allocates. *)
(***************************************************************************)
EXTENDS Integers, Sequences

CONSTANTS
    KernelEnd,  \* the address of _kernel_end
    HEAP_SIZE,
    HEAP_ALIGN,
    HeaderSize, \* sizeof(BlockHeader)
    Word,       \* size_t and uintptr_t are computed modulo Word (2^32)
    Requests,   \* sizes that clients ask for
    Pointers    \* what clients pass to kfree

align_down(x) == (x \div HEAP_ALIGN) * HEAP_ALIGN
align_up(x) == (((x + HEAP_ALIGN - 1) % Word) \div HEAP_ALIGN) * HEAP_ALIGN

g_heap_start == align_up(KernelEnd)
g_heap_end == g_heap_start + HEAP_SIZE

\* The only caller, task_create, asks for some KB in 4 GB: no sum of an
\* address in the heap and the size of a block wraps.
ASSUME HeapAssumption ==
    /\ HEAP_ALIGN \in Nat \ {0} /\ HeaderSize \in Nat \ {0} /\ Word \in Nat \ {0}
    /\ HeaderSize % HEAP_ALIGN = 0
    /\ KernelEnd \in Nat \ {0} /\ HEAP_SIZE \in Nat
    /\ Requests \subseteq Nat /\ Pointers \subseteq Nat
    /\ \A n \in Requests :
          KernelEnd + HEAP_SIZE + HeaderSize + n + 2 * HEAP_ALIGN < Word

VARIABLES
    curr,       \* g_heap_curr
    blocks,     \* the headers: address -> size of the payload, bit 0 of flags
    freeList,   \* the headers chained from g_free_list
    granted,    \* history: the payloads that clients hold, and what they asked
    answer,     \* what the last call returned
    wrote       \* history: the addresses that the last call wrote

vars == <<curr, blocks, freeList, granted, answer, wrote>>

NULL == 0
Pointer(p) == <<"pointer", p>>
Verdict(b) == <<"bool", b>>

Region(a, n) == a .. a + n - 1
Header(a) == Region(a, HeaderSize)
PayloadOf(a) == a + HeaderSize

Init ==
    /\ curr = g_heap_start
    /\ blocks = << >>
    /\ freeList = << >>
    /\ granted = << >>
    /\ answer = Pointer(NULL)
    /\ wrote = {}

-----------------------------------------------------------------------------
\* kmalloc(n), and kmalloc_zero(n) if zero.

Fits(i, size) == blocks[freeList[i]].free /\ blocks[freeList[i]].size >= size

\* pop_fit takes the first block that fits.
FirstFit(i, size) == Fits(i, size) /\ \A j \in 1 .. i - 1 : ~Fits(j, size)
NoFit(size) == \A i \in 1 .. Len(freeList) : ~Fits(i, size)

UnlinkedWithFront(i) == SubSeq(freeList, i + 1, Len(freeList))
Unlinked(i) == SubSeq(freeList, 1, i - 1) \o SubSeq(freeList, i + 1, Len(freeList))

\* Unlinking block i writes its header and that of its predecessor.
UnlinkWrites(i) ==
    Header(freeList[i]) \cup (IF i = 1 THEN {} ELSE Header(freeList[i - 1]))

Grant(n, zero, a, headers) ==
    /\ granted' = [q \in DOMAIN granted \cup {PayloadOf(a)} |->
                      IF q = PayloadOf(a) THEN n ELSE granted[q]]
    /\ answer' = Pointer(PayloadOf(a))
    /\ wrote' = headers \cup (IF zero THEN Region(PayloadOf(a), n) ELSE {})

Splits(a, size) == blocks[a].size >= size + HeaderSize + HEAP_ALIGN

TakeWhole(n, zero, i) ==
    LET a == freeList[i] IN
    /\ ~Splits(a, align_up(n))
    /\ blocks' = [blocks EXCEPT ![a].free = FALSE]
    /\ freeList' = Unlinked(i)
    /\ Grant(n, zero, a, UnlinkWrites(i))

TakePart(n, zero, i) ==
    LET a == freeList[i]
        size == align_up(n)
        rest == PayloadOf(a) + size
    IN
    /\ Splits(a, size)
    /\ blocks' = [b \in DOMAIN blocks \cup {rest} |->
          IF b = rest THEN [size |-> blocks[a].size - size - HeaderSize, free |-> TRUE]
          ELSE IF b = a THEN [size |-> size, free |-> FALSE]
          ELSE blocks[b]]
    /\ freeList' = <<rest>> \o Unlinked(i)
    /\ Grant(n, zero, a, UnlinkWrites(i) \cup Header(rest))

\* alloc_from_bump: where a block of this size would end.
EndWithoutHeader(size) == (align_up(curr) + size) % Word
EndIfBumped(size) == (align_up(curr) + ((HeaderSize + size) % Word)) % Word

Bump(n, zero) ==
    LET a == align_up(curr)
        size == align_up(n)
    IN
    /\ NoFit(size)
    /\ EndIfBumped(size) <= g_heap_end
    /\ curr' = EndIfBumped(size)
    /\ blocks' = [b \in DOMAIN blocks \cup {a} |->
          IF b = a THEN [size |-> size, free |-> FALSE] ELSE blocks[b]]
    /\ Grant(n, zero, a, Header(a))
    /\ UNCHANGED freeList

Refuse(n) ==
    /\ n = 0 \/ (NoFit(align_up(n)) /\ EndIfBumped(align_up(n)) > g_heap_end)
    /\ answer' = Pointer(NULL)
    /\ wrote' = {}
    /\ UNCHANGED <<curr, blocks, freeList, granted>>

TakeFree(n, zero) ==
    \E i \in 1 .. Len(freeList) :
       /\ FirstFit(i, align_up(n))
       /\ TakeWhole(n, zero, i) \/ TakePart(n, zero, i)
       /\ UNCHANGED curr

kmalloc(n, zero) == Refuse(n) \/ (n # 0 /\ (TakeFree(n, zero) \/ Bump(n, zero)))

-----------------------------------------------------------------------------
\* kfree(p).  What a client writes into its payload is taken not to be the
\* magic number: a pointer is accepted only if a header precedes it.

AcceptsFreed(p) ==
    p >= g_heap_start + HeaderSize /\ p < g_heap_end /\ p - HeaderSize \in DOMAIN blocks
Accepts(p) ==
    /\ p # NULL
    /\ p >= g_heap_start + HeaderSize
    /\ p < g_heap_end
    /\ p - HeaderSize \in DOMAIN blocks
    /\ ~blocks[p - HeaderSize].free

kfree(p) ==
    \/ /\ Accepts(p)
       /\ blocks' = [blocks EXCEPT ![p - HeaderSize].free = TRUE]
       /\ freeList' = <<p - HeaderSize>> \o freeList
       /\ granted' = [q \in DOMAIN granted \ {p} |-> granted[q]]
       /\ answer' = Verdict(TRUE)
       /\ wrote' = Header(p - HeaderSize)
       /\ UNCHANGED curr
    \/ /\ ~Accepts(p)
       /\ answer' = Verdict(FALSE)
       /\ wrote' = {}
       /\ UNCHANGED <<curr, blocks, freeList, granted>>

Next ==
    \/ \E n \in Requests, zero \in BOOLEAN : kmalloc(n, zero)
    \/ \E p \in Pointers : kfree(p)

Spec == Init /\ [][Next]_vars

-----------------------------------------------------------------------------
\* The blocks follow each other from the start of the heap to g_heap_curr, on
\* aligned addresses, without gap or overlap: a split or a bump that is off by
\* one header would break this a few calls later.
Follows(a) == PayloadOf(a) + blocks[a].size

BlocksTile ==
    /\ \A a \in DOMAIN blocks :
          /\ a >= g_heap_start
          /\ a % HEAP_ALIGN = 0
          /\ Follows(a) <= curr
          /\ Follows(a) = curr \/ Follows(a) \in DOMAIN blocks
          /\ \A b \in DOMAIN blocks : a < b => Follows(a) <= b
    /\ curr = g_heap_start \/ g_heap_start \in DOMAIN blocks
    /\ curr <= g_heap_end

\* The list holds every free block exactly once, and no other.
FreeListExact ==
    /\ {freeList[i] : i \in 1 .. Len(freeList)} = {a \in DOMAIN blocks : blocks[a].free}
    /\ \A i, j \in 1 .. Len(freeList) : freeList[i] = freeList[j] => i = j

\* A block that is not free is held by a client, and its payload is as large as
\* what the client asked for: no block is lost and none has two owners.
BusyIsGranted ==
    /\ DOMAIN granted = {PayloadOf(a) : a \in {b \in DOMAIN blocks : ~blocks[b].free}}
    /\ \A a \in DOMAIN blocks :
          ~blocks[a].free => granted[PayloadOf(a)] <= blocks[a].size

\* Whatever sequence of kmalloc, kmalloc_zero and kfree, with pointers that are
\* freed twice or never were granted: the heap stays whole.
HeapIsWhole == BlocksTile /\ FreeListExact /\ BusyIsGranted

\* The list chains headers, and clients hold addresses.
TypeOK ==
    /\ curr \in Nat
    /\ DOMAIN blocks \subseteq Nat
    /\ \A a \in DOMAIN blocks : blocks[a] \in [size : Nat, free : BOOLEAN]
    /\ freeList \in Seq(DOMAIN blocks)
    /\ DOMAIN granted \subseteq Nat
    /\ \A p \in DOMAIN granted : granted[p] \in Nat
    /\ answer \in ({"pointer"} \X Nat) \cup ({"bool"} \X BOOLEAN)
    /\ wrote \subseteq Nat

\* No call, not even the zeroing of kmalloc_zero, writes into memory that a
\* client held before it and holds after it: the header of the rest of a split
\* block and the links of the list stay outside every payload in use.
WritesOwn ==
    [][\A p \in DOMAIN granted \cap DOMAIN granted' :
          wrote' \cap Region(p, granted[p]) = {}]_vars

heap_bytes_used == curr - g_heap_start
heap_bytes_total == g_heap_end - g_heap_start

\* A request is refused, or served from fresh memory, only if no free block is
\* large enough for it; and refused only if fresh memory is exhausted as well.
\* The list is searched to its end, and what kfree took back is found again.
FreeFirst ==
    [][\A n \in Requests \ {0} :
          (\E zero \in BOOLEAN : kmalloc(n, zero)) /\ (answer' = Pointer(NULL) \/ curr' # curr) =>
             /\ \A a \in DOMAIN blocks : blocks[a].free => blocks[a].size < n
             /\ answer' = Pointer(NULL) =>
                   heap_bytes_total - heap_bytes_used < HeaderSize + align_up(n)]_vars

=============================================================================
