------------------------------- MODULE Paging -------------------------------
(***************************************************************************)
(* Page tables and the TLB (memory/paging.c).  There is one page table,    *)
(* for the first PTE_COUNT pages; no other page directory entry ever       *)
(* becomes present.  map_page and paging_set_range_flags reload CR3 and so *)
(* flush the TLB; unmap_page does not.                                     *)
(*                                                                         *)
(* External: the CPU, which may cache a translation that the tables give,  *)
(* and drop a cached one, at any time.  It does so inside the loop of      *)
(* paging_set_range_flags as well, but what it can cache there it can also *)
(* cache just before or just after the call, which is one step here.       *)
(***************************************************************************)
EXTENDS Integers

CONSTANTS
    PAGE_SIZE,
    PTE_COUNT,  \* entries of a page table
    PDE_COUNT,  \* entries of the page directory
    Frames,     \* the frames that clients of map_page use
    RangeSizes  \* the sizes given to paging_set_range_flags

ASSUME PagingAssumption ==
    /\ PAGE_SIZE \in Nat \ {0} /\ PTE_COUNT \in Nat \ {0} /\ PDE_COUNT \in Nat \ {0}
    /\ Frames \subseteq 0 .. PTE_COUNT * PDE_COUNT - 1
    /\ RangeSizes \subseteq Nat

\* Virtual addresses are 32 bits: the page directory covers all of them.
Word == PAGE_SIZE * PTE_COUNT * PDE_COUNT
Address == 0 .. Word - 1
Page == 0 .. PTE_COUNT * PDE_COUNT - 1
Flag == {"P", "RW", "US"}

VARIABLES
    pd,         \* flags of each entry of g_page_directory
    pt,         \* g_page_table_0: frame and flags of each entry
    boot,       \* how far kernel_main is: "start", "tables", "paging"
    tlb,        \* the translations that the CPU has cached
    answer,     \* what the last call returned
    asked,      \* history: the pages that ring 3 was given
    promised    \* history: the rights that calls reported as given, by page

history == <<asked, promised>>
vars == <<pd, pt, boot, tlb, answer, history>>

NoTlb == << >>
Unmapped == [frame |-> 0, flags |-> {}]

\* .bss, before paging_init.
Init ==
    /\ pd = [d \in 0 .. PDE_COUNT - 1 |-> {}]
    /\ pt = [e \in 0 .. PTE_COUNT - 1 |-> Unmapped]
    /\ boot = "start"
    /\ tlb = NoTlb
    /\ answer = 0
    /\ asked = {}
    /\ promised = [p \in Page |-> {}]

align_next_4k(x) == (((x + PAGE_SIZE) % Word) \div PAGE_SIZE) * PAGE_SIZE
align_up_4k(x) == (((x + PAGE_SIZE - 1) % Word) \div PAGE_SIZE) * PAGE_SIZE
pde_index(v) == v \div (PAGE_SIZE * PTE_COUNT)
pte_index(v) == (v \div PAGE_SIZE) % PTE_COUNT
AddressOf(page) == page * PAGE_SIZE

\* get_pt_for finds a page table, and the entry in it is present.
HasTable(v) == "P" \in pd[pde_index(v)]
IsMapped(v) == HasTable(v) /\ "P" \in pt[pte_index(v)].flags

\* What a walk of the tables gives: both levels have to allow an access.
Walk(page) ==
    LET v == AddressOf(page) IN
    [frame |-> pt[pte_index(v)].frame,
     flags |-> pt[pte_index(v)].flags \cap pd[pde_index(v)]]

\* What the CPU may use for an access to page.
Translations(page) ==
    (IF page \in DOMAIN tlb THEN {tlb[page]} ELSE {})
        \cup (IF IsMapped(AddressOf(page)) THEN {Walk(page)} ELSE {})

\* CR3 is reloaded only once paging is on.
FlushNot == UNCHANGED tlb
FlushTlb == tlb' = IF boot = "paging" THEN NoTlb ELSE tlb

-----------------------------------------------------------------------------
\* kernel_main: paging_init, then paging_enable.

paging_init ==
    /\ boot = "start"
    /\ boot' = "tables"
    /\ pt' = [e \in 0 .. PTE_COUNT - 1 |-> [frame |-> e, flags |-> {"P", "RW"}]]
    /\ pd' = [d \in 0 .. PDE_COUNT - 1 |-> IF d = 0 THEN {"P", "RW"} ELSE {}]
    /\ UNCHANGED <<tlb, answer, history>>

paging_enable ==
    /\ boot = "tables"
    /\ boot' = "paging"
    /\ tlb' = NoTlb
    /\ UNCHANGED <<pd, pt, answer, history>>

Fails ==
    /\ answer' = -1
    /\ UNCHANGED <<pd, pt, boot, tlb, history>>

\* A page is opened to ring 3 in the directory as well.
OpenDirectory(pages, flags) ==
    pd' = [d \in DOMAIN pd |->
              IF "US" \in flags /\ \E p \in pages : pde_index(AddressOf(p)) = d
              THEN pd[d] \cup {"US"} ELSE pd[d]]

Asks(pages, flags) == IF "US" \in flags THEN asked \cup pages ELSE asked

map_page(page, frame, flags) ==
    LET v == AddressOf(page) IN
    IF ~HasTable(v) THEN Fails ELSE
    /\ OpenDirectory({page}, flags)
    /\ pt' = [pt EXCEPT ![pte_index(v)] = [frame |-> frame, flags |-> flags \cup {"P"}]]
    /\ FlushTlb
    /\ answer' = 0
    /\ asked' = IF "US" \in flags THEN asked \cup {page} ELSE asked \ {page}
    /\ promised' = [promised EXCEPT ![page] = flags]
    /\ UNCHANGED boot

unmap_page(page) ==
    LET v == AddressOf(page) IN
    IF ~HasTable(v) THEN Fails ELSE
    /\ pt' = [pt EXCEPT ![pte_index(v)] = Unmapped]
    /\ answer' = 0
    /\ promised' = [promised EXCEPT ![page] = {}]
    /\ UNCHANGED <<pd, boot, tlb, asked>>

-----------------------------------------------------------------------------
(* paging_set_range_flags *)

\* The pages that the loop visits, none if the end of the range wraps to 0; it
\* stops at the first one that is not mapped.
Visited(virt, size) ==
    virt \div PAGE_SIZE .. (align_up_4k((virt + size) % Word) \div PAGE_SIZE) - 1

Reached(virt, size) ==
    {p \in Visited(virt, size) :
        \A q \in virt \div PAGE_SIZE .. p : IsMapped(AddressOf(q))}

\* The pages that the range overlaps, whatever the code makes of it.
Spanned(virt, size) ==
    {p \in Page : AddressOf(p) < virt + size /\ virt < AddressOf(p) + PAGE_SIZE}

\* What a range reports as done.  The end of one that touches the last page of
\* the address space wraps to 0; nothing is done then, and 0 returned.
Promises(virt, size, flags) ==
    [p \in Page |->
        IF virt + size <= Word - PAGE_SIZE /\ p \in Spanned(virt, size)
        THEN promised[p] \cup flags ELSE promised[p]]

FlushIf(failed) == IF failed THEN FlushTlb ELSE UNCHANGED tlb
FlushUnless(failed) == IF failed THEN UNCHANGED tlb ELSE FlushTlb

paging_set_range_flags(virt, size, flags) ==
    LET reached == Reached(virt, size)
        failed == reached # Visited(virt, size)
    IN
    IF size = 0 THEN answer' = 0 /\ UNCHANGED <<pd, pt, boot, tlb, history>> ELSE
    /\ pt' = [e \in DOMAIN pt |->
                IF \E p \in reached : pte_index(AddressOf(p)) = e
                THEN [pt[e] EXCEPT !.flags = @ \cup (flags \cap {"RW", "US"})]
                ELSE pt[e]]
    /\ OpenDirectory(reached, flags)
    /\ FlushUnless(failed)
    /\ answer' = IF failed THEN -1 ELSE 0
    /\ asked' = Asks(Spanned(virt, size), flags)
    /\ promised' = IF failed THEN promised ELSE Promises(virt, size, flags)
    /\ UNCHANGED boot

\* virt_to_phys answers 0 for an address that is not mapped.
virt_to_phys(v) ==
    IF IsMapped(v) THEN AddressOf(pt[pte_index(v)].frame) + (v % PAGE_SIZE) ELSE 0

-----------------------------------------------------------------------------
\* The CPU walks the tables and caches what it finds, or drops an entry.
CpuCaches(page) ==
    /\ boot = "paging"
    /\ IsMapped(AddressOf(page))
    /\ tlb' = [p \in DOMAIN tlb \cup {page} |->
                  IF p \notin DOMAIN tlb THEN Walk(page) ELSE tlb[p]]
    /\ UNCHANGED <<pd, pt, boot, answer, history>>

CpuDrops(page) ==
    /\ page \in DOMAIN tlb
    /\ tlb' = [p \in DOMAIN tlb \ {page} |-> tlb[p]]
    /\ UNCHANGED <<pd, pt, boot, answer, history>>

Call ==
    /\ boot # "start"
    /\ \E flags \in SUBSET {"RW", "US"} :
          \/ \E page \in Page, frame \in Frames : map_page(page, frame, flags)
          \/ \E virt \in Address, size \in RangeSizes :
                paging_set_range_flags(virt, size, flags)

Next ==
    \/ paging_init
    \/ paging_enable
    \/ Call
    \/ boot # "start" /\ \E page \in Page : unmap_page(page)
    \/ \E page \in Page : CpuCaches(page) \/ CpuDrops(page)

Spec == Init /\ [][Next]_vars

-----------------------------------------------------------------------------

\* Every table entry and every cached translation has a frame and flags.
TypeOK ==
    /\ pd \in [0 .. PDE_COUNT - 1 -> SUBSET Flag]
    /\ pt \in [0 .. PTE_COUNT - 1 -> [frame : Page, flags : SUBSET Flag]]
    /\ boot \in {"start", "tables", "paging"}
    /\ DOMAIN tlb \subseteq Page
    /\ \A page \in DOMAIN tlb : tlb[page] \in [frame : Page, flags : SUBSET Flag]
    /\ answer \in {0, -1}
    /\ asked \subseteq Page
    /\ promised \in [Page -> SUBSET Flag]

\* A cached translation agrees with the tables and with virt_to_phys, and allows
\* no more than the tables do; it outlives them only for a page that unmap_page
\* has removed, and no longer than until the page is mapped again.
TlbSound ==
    \A page \in DOMAIN tlb :
        LET v == AddressOf(page) IN
        \/ /\ AddressOf(tlb[page].frame) = virt_to_phys(v)
           /\ tlb[page].flags \subseteq Walk(page).flags
        \/ pt[pte_index(v)] = Unmapped

\* Ring 3 reaches only pages that it was given by a call, whole or in part, and
\* that were not mapped anew for the kernel since: the U/S bit of the directory
\* entry, which is never taken back, opens no other page, and neither does a
\* range that fails half way or a translation that is still cached.
UserPagesAsked ==
    \A page \in Page :
        (\E t \in Translations(page) : "US" \in t.flags) => page \in asked

\* What a call reports as done is done, and lasts: whatever the CPU has cached
\* before, during or after the call, every page of the range has the rights,
\* until the page is mapped anew or unmapped.
PromisesKept ==
    \A page \in Page :
        promised[page] # {} =>
            /\ IsMapped(AddressOf(page))
            /\ \A t \in Translations(page) : promised[page] \subseteq t.flags

=============================================================================
