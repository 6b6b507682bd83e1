----------------------------- MODULE PagingProofs -----------------------------
(***************************************************************************)
(* Proofs about the page tables and the TLB, for every page size, every    *)
(* number of table and directory entries, every set of frames and of range *)
(* sizes, and whatever the CPU caches and drops.                           *)
(***************************************************************************)
EXTENDS Paging, TLAPS

-----------------------------------------------------------------------------
(* Division *)

\* Quotient and remainder are unique.
LEMMA Division ==
    ASSUME NEW m \in Nat \ {0}, NEW q \in Int, NEW r \in 0 .. m - 1
    PROVE  (q * m + r) \div m = q /\ (q * m + r) % m = r
OBVIOUS

\* And they give the number back.
LEMMA DivisionFacts ==
    ASSUME NEW m \in Nat \ {0}, NEW x \in Int
    PROVE  /\ x \div m \in Int /\ x % m \in 0 .. m - 1
           /\ x = (x \div m) * m + (x % m)
OBVIOUS

\* A remainder is no larger than the number.
LEMMA RemainderFacts ==
    ASSUME NEW m \in Nat \ {0}, NEW x \in Nat
    PROVE  x % m \in 0 .. m - 1 /\ x % m <= x /\ (x < m => x % m = x)
OBVIOUS

\* Comparing a quotient is comparing with a multiple.
LEMMA DivisionBelow ==
    ASSUME NEW m \in Nat \ {0}, NEW x \in Nat, NEW k \in Nat
    PROVE  /\ x \div m \in Nat
           /\ x \div m < k <=> x < k * m
           /\ k <= x \div m <=> k * m <= x
<1>. DEFINE q == x \div m
            r == x % m
<1>1. q \in Int /\ r \in 0 .. m - 1 /\ x = q * m + r
  BY DivisionFacts
<1>. HIDE DEF q, r
<1>2. ASSUME q < k PROVE x < k * m
  <2>1. (q + 1) * m <= k * m
    BY <1>1, <1>2
  <2>. QED
    BY <1>1, <2>1
<1>3. ASSUME k <= q PROVE k * m <= x
  <2>1. k * m <= q * m
    BY <1>1, <1>3
  <2>. QED
    BY <1>1, <2>1
<1>4. q \in Nat
  <2>. SUFFICES ASSUME q < 0 PROVE FALSE
    BY <1>1
  <2>1. (q + 1) * m <= 0
    BY <1>1
  <2>. QED
    BY <1>1, <2>1
<1>5. k * m \in Nat
  OBVIOUS
<1>. QED
  BY <1>1, <1>2, <1>3, <1>4, <1>5 DEF q

-----------------------------------------------------------------------------
(* Pages and addresses *)

Entries == 0 .. PTE_COUNT - 1
Directory == 0 .. PDE_COUNT - 1

\* The address of a page finds the page again, and a page that the one table
\* covers has directory entry 0 and its own number as the index.
LEMMA PageFacts ==
    ASSUME NEW p \in Nat
    PROVE  /\ AddressOf(p) \in Nat
           /\ AddressOf(p) \div PAGE_SIZE = p
           /\ AddressOf(p) % PAGE_SIZE = 0
           /\ pde_index(AddressOf(p)) \in Nat
           /\ pde_index(AddressOf(p)) = 0 <=> p \in Entries
           /\ p \in Page <=> AddressOf(p) < Word
           /\ p \in Page => pde_index(AddressOf(p)) \in Directory
           /\ pte_index(AddressOf(p)) \in Entries
           /\ p \in Entries => pte_index(AddressOf(p)) = p
<1>. PICK v, m : v = p * PAGE_SIZE /\ m = PAGE_SIZE * PTE_COUNT
  OBVIOUS
<1>1. PAGE_SIZE \in Nat \ {0} /\ PTE_COUNT \in Nat \ {0} /\ PDE_COUNT \in Nat \ {0}
  BY PagingAssumption
<1>2. v \in Nat /\ m \in Nat \ {0} /\ v = AddressOf(p)
  <2>1. PAGE_SIZE * PTE_COUNT > 0
    BY <1>1
  <2>. QED
    BY <1>1, <2>1 DEF AddressOf
<1>3. v \div PAGE_SIZE = p /\ v % PAGE_SIZE = 0
  <2>1. 0 \in 0 .. PAGE_SIZE - 1 /\ p \in Int /\ v = p * PAGE_SIZE + 0
    BY <1>1
  <2>. QED
    BY <1>1, <2>1, Division
<1>4. v < m <=> p < PTE_COUNT
  <2>1. p < PTE_COUNT => p * PAGE_SIZE < PTE_COUNT * PAGE_SIZE
    BY <1>1
  <2>2. p >= PTE_COUNT => p * PAGE_SIZE >= PTE_COUNT * PAGE_SIZE
    BY <1>1
  <2>. QED
    BY <1>1, <2>1, <2>2
<1>5. v \div m \in Nat /\ (v \div m = 0 <=> v < m)
  <2>1. v \div m \in Nat /\ (v \div m < 1 <=> v < 1 * m)
    BY <1>2, DivisionBelow
  <2>. QED
    BY <1>2, <2>1
<1>6. v < Word <=> p < PTE_COUNT * PDE_COUNT
  <2>. PICK k : k = PTE_COUNT * PDE_COUNT
    OBVIOUS
  <2>1. k \in Nat /\ Word = k * PAGE_SIZE
    BY <1>1 DEF Word
  <2>2. p < k => p * PAGE_SIZE < k * PAGE_SIZE
    BY <1>1, <2>1
  <2>3. p >= k => p * PAGE_SIZE >= k * PAGE_SIZE
    BY <1>1, <2>1
  <2>. QED
    BY <1>1, <2>1, <2>2, <2>3
<1>7. v < Word <=> v \div m < PDE_COUNT
  <2>1. Word = PDE_COUNT * m
    BY <1>1 DEF Word
  <2>. QED
    BY <1>1, <1>2, <2>1, DivisionBelow
<1>8. p % PTE_COUNT \in Entries /\ (p < PTE_COUNT => p % PTE_COUNT = p)
  BY <1>1 DEF Entries
<1>9. p \in Page <=> v < Word
  <2>1. PTE_COUNT * PDE_COUNT \in Nat
    BY <1>1
  <2>. QED
    BY <1>6, <2>1 DEF Page
<1>10. p \in Page => v \div m \in Directory
  BY <1>1, <1>5, <1>7, <1>9 DEF Directory
<1>11. p \in Entries <=> p < PTE_COUNT
  BY <1>1 DEF Entries
<1>. QED
  BY <1>2, <1>3, <1>4, <1>5, <1>8, <1>9, <1>10, <1>11 DEF pde_index, pte_index

\* Pages of the table are pages, and there is at least one.
LEMMA EntriesArePages == Entries \subseteq Page /\ 0 \in Entries /\ 0 \in Directory
<1>1. PTE_COUNT \in Nat \ {0} /\ PDE_COUNT \in Nat \ {0}
  BY PagingAssumption
<1>2. PTE_COUNT <= PTE_COUNT * PDE_COUNT /\ PTE_COUNT * PDE_COUNT \in Nat
  BY <1>1
<1>. QED
  BY <1>1, <1>2 DEF Entries, Page, Directory

\* Pages are numbers.
LEMMA PagesAreNumbers == Page \subseteq Nat /\ Entries \subseteq Nat
  BY DEF Page, Entries

\* The loop of paging_set_range_flags visits no page that the range misses; and
\* it visits all that the range overlaps, unless the range reaches the last page.
LEMMA VisitedFacts ==
    ASSUME NEW virt \in Address, NEW size \in Nat
    PROVE  /\ Visited(virt, size) \subseteq Spanned(virt, size)
           /\ virt + size <= Word - PAGE_SIZE =>
                 Spanned(virt, size) \subseteq Visited(virt, size)
<1>w. PICK end, x, y, b, first :
        /\ end = virt + size
        /\ x = end % Word
        /\ y = (x + PAGE_SIZE - 1) % Word
        /\ b = y \div PAGE_SIZE
        /\ first = virt \div PAGE_SIZE
  OBVIOUS
<1>1. PAGE_SIZE \in Nat \ {0} /\ Word \in Nat \ {0} /\ virt \in Nat /\ virt < Word
  <2>1. PAGE_SIZE \in Nat \ {0} /\ PTE_COUNT \in Nat \ {0} /\ PDE_COUNT \in Nat \ {0}
    BY PagingAssumption
  <2>2. PAGE_SIZE * PTE_COUNT \in Nat \ {0}
    BY <2>1
  <2>3. PAGE_SIZE * PTE_COUNT * PDE_COUNT \in Nat \ {0}
    BY <2>1, <2>2
  <2>. QED
    BY <2>1, <2>3 DEF Word, Address
<1>0. end \in Nat
  BY <1>w, <1>1
<1>2. x \in Nat /\ x < Word /\ x <= end /\ (end < Word => x = end)
  <2>1. x \in 0 .. Word - 1 /\ x <= end /\ (end < Word => x = end)
    BY <1>w, <1>0, <1>1, RemainderFacts
  <2>. QED
    BY <1>1, <2>1
<1>3. /\ y \in Nat /\ y <= x + PAGE_SIZE - 1
      /\ x + PAGE_SIZE - 1 < Word => y = x + PAGE_SIZE - 1
  <2>. PICK s : s = x + PAGE_SIZE - 1
    OBVIOUS
  <2>1. s \in Nat /\ y = s % Word
    BY <1>w, <1>1, <1>2
  <2>2. y \in 0 .. Word - 1 /\ y <= s /\ (s < Word => y = s)
    BY <1>1, <2>1, RemainderFacts
  <2>. QED
    BY <1>1, <2>2
<1>4. /\ first \in Nat /\ b \in Nat
      /\ \A p \in Nat : first < p + 1 <=> virt < (p + 1) * PAGE_SIZE
      /\ \A p \in Nat : p + 1 <= b <=> (p + 1) * PAGE_SIZE <= y
  <2>1. ASSUME NEW p \in Nat
        PROVE  /\ first < p + 1 <=> virt < (p + 1) * PAGE_SIZE
               /\ p + 1 <= b <=> (p + 1) * PAGE_SIZE <= y
    <3>1. p + 1 \in Nat
      OBVIOUS
    <3>. QED
      BY <1>w, <1>1, <1>3, <3>1, DivisionBelow
  <2>2. first \in Nat /\ b \in Nat
    BY <1>w, <1>1, <1>3, DivisionBelow
  <2>. QED
    BY <2>1, <2>2
<1>5. Visited(virt, size) = first .. b - 1
  <2>1. align_up_4k(x) = AddressOf(b)
    BY <1>w DEF align_up_4k, AddressOf
  <2>2. align_up_4k(x) \div PAGE_SIZE = b
    BY <1>4, <2>1, PageFacts
  <2>. QED
    BY <1>w, <2>2 DEF Visited
<1>6. \A p \in Nat : AddressOf(p) \in Nat /\ (p + 1) * PAGE_SIZE = AddressOf(p) + PAGE_SIZE
  BY <1>1 DEF AddressOf
<1>7. ASSUME NEW p \in first .. b - 1 PROVE p \in Spanned(virt, size)
  <2>. PICK v : v = AddressOf(p)
    OBVIOUS
  <2>1. p \in Nat /\ first < p + 1 /\ p + 1 <= b
    <3>1. first \in Nat /\ b \in Nat
      BY <1>4
    <3>. QED
      BY <3>1
  <2>2. v \in Nat /\ virt < v + PAGE_SIZE /\ v + PAGE_SIZE <= y
    BY <1>4, <1>6, <2>1
  <2>3. v < x
    BY <1>1, <1>2, <1>3, <2>2
  <2>4. v < end /\ v < Word
    BY <1>0, <1>1, <1>2, <2>2, <2>3
  <2>. QED
    BY <1>w, <2>1, <2>2, <2>4, PageFacts DEF Spanned
<1>8. ASSUME virt + size <= Word - PAGE_SIZE, NEW p \in Spanned(virt, size)
      PROVE  p \in first .. b - 1
  <2>. PICK v : v = AddressOf(p)
    OBVIOUS
  <2>1. p \in Nat /\ v < end /\ virt < v + PAGE_SIZE
    BY <1>w, PagesAreNumbers DEF Spanned
  <2>2. v \in Nat /\ v < x /\ y = x + PAGE_SIZE - 1
    <3>1. v \in Nat
      BY <1>6, <2>1
    <3>2. x = end /\ x + PAGE_SIZE - 1 < Word
      BY <1>w, <1>0, <1>1, <1>2, <1>8
    <3>. QED
      BY <1>3, <2>1, <3>1, <3>2
  <2>3. v + PAGE_SIZE <= y
    BY <1>1, <1>2, <2>2
  <2>4. (p + 1) * PAGE_SIZE = v + PAGE_SIZE
    BY <1>6, <2>1
  <2>5. first < p + 1 /\ p + 1 <= b
    BY <1>4, <2>1, <2>3, <2>4
  <2>6. first \in Nat /\ b \in Nat
    BY <1>4
  <2>. QED
    BY <2>1, <2>5, <2>6
<1>. QED
  BY <1>5, <1>7, <1>8

-----------------------------------------------------------------------------
(* The inductive invariant *)

\* Only the first directory entry has a table, from paging_init on; an entry of
\* the table is either present or as unmap_page leaves it; and nothing is
\* cached before paging is on.
OneTable ==
    /\ \A d \in Directory : "P" \in pd[d] <=> d = 0 /\ boot # "start"
    /\ boot # "start" => "RW" \in pd[0]
    /\ boot # "paging" => DOMAIN tlb = {}
    /\ \A e \in Entries : pt[e] = Unmapped \/ (boot # "start" /\ "P" \in pt[e].flags)

\* What is cached is, or was until the page was unmapped, in the one table.
CachedAgrees ==
    \A p \in DOMAIN tlb :
        /\ p \in Entries
        /\ \/ /\ tlb[p].frame = pt[p].frame
              /\ "P" \in pt[p].flags
              /\ tlb[p].flags \subseteq pt[p].flags \cap pd[0]
           \/ pt[p] = Unmapped

\* Neither the table nor the TLB opens a page that ring 3 was not given.
UserAsked ==
    /\ \A e \in Entries : "US" \in pt[e].flags => e \in asked
    /\ \A p \in DOMAIN tlb : "US" \in tlb[p].flags => p \in asked

\* Rights that were given are in the table, in the directory, and in the TLB.
RightsLast ==
    \A p \in Page :
        promised[p] # {} =>
            /\ p \in Entries
            /\ "P" \in pt[p].flags
            /\ promised[p] \subseteq pt[p].flags \cap pd[0]
            /\ p \in DOMAIN tlb => promised[p] \subseteq tlb[p].flags

PagingIInv == TypeOK /\ OneTable /\ CachedAgrees /\ UserAsked /\ RightsLast

\* An empty TLB caches nothing.
LEMMA NoTlbIsEmpty == DOMAIN NoTlb = {}
  BY DEF NoTlb

\* The types, with this module's names for the index sets.
LEMMA Types ==
    ASSUME TypeOK
    PROVE  /\ pd \in [Directory -> SUBSET Flag]
           /\ pt \in [Entries -> [frame : Page, flags : SUBSET Flag]]
           /\ \A e \in Entries : pt[e] \in [frame : Page, flags : SUBSET Flag]
           /\ \A e \in Entries : pt[e].frame \in Page /\ pt[e].flags \in SUBSET Flag
           /\ DOMAIN tlb \subseteq Page
           /\ \A p \in DOMAIN tlb : tlb[p] \in [frame : Page, flags : SUBSET Flag]
           /\ asked \subseteq Page
           /\ promised \in [Page -> SUBSET Flag]
           /\ boot \in {"start", "tables", "paging"}
BY DEF TypeOK, Directory, Entries

\* What the functions of the code find for a page.
LEMMA TableFacts ==
    ASSUME PagingIInv, NEW p \in Page
    PROVE  /\ HasTable(AddressOf(p)) <=> p \in Entries /\ boot # "start"
           /\ IsMapped(AddressOf(p)) <=> p \in Entries /\ "P" \in pt[p].flags
           /\ p \in Entries =>
                /\ pte_index(AddressOf(p)) = p
                /\ Walk(p) = [frame |-> pt[p].frame, flags |-> pt[p].flags \cap pd[0]]
<1>. PICK v : v = AddressOf(p)
  OBVIOUS
<1>1. p \in Nat
  BY PagesAreNumbers
<1>2. /\ pde_index(v) \in Directory
      /\ pde_index(v) = 0 <=> p \in Entries
      /\ p \in Entries => pte_index(v) = p
  BY <1>1, PageFacts
<1>3. HasTable(v) <=> p \in Entries /\ boot # "start"
  BY <1>2 DEF HasTable, PagingIInv, OneTable
<1>4. p \in Entries => (pt[p] = Unmapped \/ (boot # "start" /\ "P" \in pt[p].flags))
  BY DEF PagingIInv, OneTable
<1>5. IsMapped(v) <=> p \in Entries /\ "P" \in pt[p].flags
  BY <1>2, <1>3, <1>4 DEF IsMapped, Unmapped
<1>6. p \in Entries =>
         Walk(p) = [frame |-> pt[p].frame, flags |-> pt[p].flags \cap pd[0]]
  BY <1>2 DEF Walk
<1>. QED
  BY <1>2, <1>3, <1>5, <1>6

\* Opening the directory only adds the right of ring 3, and does so for pages of
\* the table.
LEMMA OpenFacts ==
    ASSUME PagingIInv, NEW pages, NEW flags, OpenDirectory(pages, flags)
    PROVE  /\ pd' \in [Directory -> SUBSET Flag]
           /\ \A d \in Directory : "P" \in pd'[d] <=> "P" \in pd[d]
           /\ pd[0] \subseteq pd'[0]
           /\ ("US" \in flags /\ pages \cap Entries # {}) => "US" \in pd'[0]
<1>1. pd \in [Directory -> SUBSET Flag] /\ 0 \in Directory
  BY Types, EntriesArePages DEF PagingIInv
<1>2. /\ pd' \in [Directory -> SUBSET Flag]
      /\ \A d \in Directory : "P" \in pd'[d] <=> "P" \in pd[d]
      /\ pd[0] \subseteq pd'[0]
  BY <1>1 DEF OpenDirectory, Flag
<1>3. ASSUME "US" \in flags, NEW p \in pages \cap Entries PROVE "US" \in pd'[0]
  <2>1. pde_index(AddressOf(p)) = 0
    BY PageFacts, PagesAreNumbers
  <2>. QED
    BY <1>1, <1>3, <2>1 DEF OpenDirectory
<1>. QED
  BY <1>2, <1>3

\* A call that changes neither tables nor TLB keeps the invariant.
LEMMA NothingChangedKeeps ==
    ASSUME PagingIInv, UNCHANGED <<pd, pt, boot, tlb, asked, promised>>, answer' \in {0, -1}
    PROVE  PagingIInv'
BY DEF PagingIInv, TypeOK, OneTable, CachedAgrees, UserAsked, RightsLast

\* The empty tables satisfy it.
LEMMA InitPaging == Init => PagingIInv
<1>. SUFFICES ASSUME Init PROVE PagingIInv
  OBVIOUS
<1>1. DOMAIN tlb = {} /\ asked = {} /\ boot = "start" /\ answer = 0
  BY NoTlbIsEmpty DEF Init
<1>2. /\ pd = [d \in Directory |-> {}] /\ pt = [e \in Entries |-> Unmapped]
      /\ promised = [p \in Page |-> {}]
  BY DEF Init, Directory, Entries
<1>3. 0 \in Page
  BY EntriesArePages
<1>4. TypeOK
  BY <1>1, <1>2, <1>3 DEF TypeOK, Directory, Entries, Unmapped
<1>5. OneTable /\ CachedAgrees /\ UserAsked /\ RightsLast
  BY <1>1, <1>2 DEF OneTable, CachedAgrees, UserAsked, RightsLast, Unmapped
<1>. QED
  BY <1>4, <1>5 DEF PagingIInv

-----------------------------------------------------------------------------
(* Every step keeps it *)

\* paging_init fills the table, paging_enable starts with an empty TLB.
LEMMA BootKeeps ==
    ASSUME PagingIInv, paging_init \/ paging_enable
    PROVE  PagingIInv'
<1>1. CASE paging_init
  <2>1. /\ boot = "start" /\ boot' = "tables" /\ tlb' = tlb /\ DOMAIN tlb = {}
        /\ asked' = asked /\ promised' = promised /\ answer' = answer
    BY <1>1 DEF paging_init, history, PagingIInv, OneTable
  <2>2. /\ pt' = [e \in Entries |-> [frame |-> e, flags |-> {"P", "RW"}]]
        /\ pd' = [d \in Directory |-> IF d = 0 THEN {"P", "RW"} ELSE {}]
    BY <1>1 DEF paging_init, Entries, Directory
  <2>3. \A p \in Page : promised[p] = {}
    BY <2>1 DEF PagingIInv, RightsLast, OneTable, Unmapped
  <2>4. TypeOK'
    <3>1. pt' \in [Entries -> [frame : Page, flags : SUBSET Flag]]
      BY <2>2, EntriesArePages DEF Flag
    <3>2. pd' \in [Directory -> SUBSET Flag]
      BY <2>2 DEF Flag
    <3>. QED
      BY <2>1, <3>1, <3>2 DEF PagingIInv, TypeOK, Entries, Directory
  <2>5. OneTable'
    BY <2>1, <2>2, EntriesArePages DEF OneTable
  <2>6. CachedAgrees' /\ UserAsked' /\ RightsLast'
    BY <2>1, <2>2, <2>3 DEF CachedAgrees, UserAsked, RightsLast
  <2>. QED
    BY <2>4, <2>5, <2>6 DEF PagingIInv
<1>2. CASE paging_enable
  <2>1. /\ boot = "tables" /\ boot' = "paging" /\ DOMAIN tlb' = {}
        /\ UNCHANGED <<pd, pt, answer, asked, promised>>
    BY <1>2, NoTlbIsEmpty DEF paging_enable, history
  <2>. QED
    BY <2>1 DEF PagingIInv, TypeOK, OneTable, CachedAgrees, UserAsked, RightsLast
<1>. QED
  BY <1>1, <1>2

\* A flush leaves nothing cached: before paging is on nothing is.
LEMMA FlushFacts ==
    ASSUME PagingIInv, FlushTlb
    PROVE  DOMAIN tlb' = {}
BY NoTlbIsEmpty DEF FlushTlb, PagingIInv, OneTable

\* map_page flushes what it changes.
LEMMA MapKeeps ==
    ASSUME PagingIInv, NEW page \in Page, NEW frame \in Frames,
           NEW flags \in SUBSET {"RW", "US"}, map_page(page, frame, flags)
    PROVE  PagingIInv'
<1>1. CASE ~HasTable(AddressOf(page))
  BY <1>1, NothingChangedKeeps DEF map_page, Fails, history
<1>2. CASE HasTable(AddressOf(page))
  <2>1. page \in Entries /\ boot # "start" /\ pte_index(AddressOf(page)) = page
    BY <1>2, TableFacts
  <2>. DEFINE entry == [frame |-> frame, flags |-> flags \cup {"P"}]
  <2>2. /\ pt' = [pt EXCEPT ![page] = entry]
        /\ OpenDirectory({page}, flags) /\ FlushTlb /\ answer' = 0 /\ boot' = boot
        /\ asked' = IF "US" \in flags THEN asked \cup {page} ELSE asked \ {page}
        /\ promised' = [promised EXCEPT ![page] = flags]
    BY <1>2, <2>1 DEF map_page
  <2>3. DOMAIN tlb' = {}
    BY <2>2, FlushFacts
  <2>4. /\ pd' \in [Directory -> SUBSET Flag]
        /\ \A d \in Directory : "P" \in pd'[d] <=> "P" \in pd[d]
        /\ pd[0] \subseteq pd'[0]
        /\ "US" \in flags => "US" \in pd'[0]
    BY <2>1, <2>2, OpenFacts
  <2>5. pt' \in [Entries -> [frame : Page, flags : SUBSET Flag]]
    <3>1. entry \in [frame : Page, flags : SUBSET Flag]
      BY PagingAssumption DEF Page, Flag
    <3>. HIDE DEF entry
    <3>. QED
      BY <2>2, <3>1, Types DEF PagingIInv
  <2>6. /\ pt'[page] = entry
        /\ \A e \in Entries : e # page => pt'[e] = pt[e]
    <3>. HIDE DEF entry
    <3>. QED
      BY <2>1, <2>2, Types DEF PagingIInv
  <2>7. /\ promised' \in [Page -> SUBSET Flag] /\ promised'[page] = flags
        /\ \A p \in Page : p # page => promised'[p] = promised[p]
    BY <2>2, Types DEF PagingIInv, Flag
  <2>8. TypeOK'
    BY <2>2, <2>3, <2>4, <2>5, <2>7 DEF PagingIInv, TypeOK, Directory, Entries
  <2>9. OneTable'
    BY <2>1, <2>2, <2>3, <2>4, <2>6 DEF PagingIInv, OneTable
  <2>10. UserAsked' /\ CachedAgrees'
    BY <2>2, <2>3, <2>6 DEF PagingIInv, UserAsked, CachedAgrees
  <2>11. RightsLast'
    <3>1. "RW" \in pd'[0]
      BY <2>1, <2>4 DEF PagingIInv, OneTable
    <3>2. flags \subseteq pd'[0]
      BY <2>4, <3>1
    <3>3. ASSUME NEW p \in Page, promised'[p] # {}
          PROVE  p \in Entries /\ "P" \in pt'[p].flags /\ promised'[p] \subseteq pt'[p].flags \cap pd'[0]
      <4>1. CASE p = page
        <5>1. pt'[p].flags = flags \cup {"P"} /\ promised'[p] = flags
          BY <2>6, <2>7, <4>1
        <5>. QED
          BY <2>1, <3>2, <4>1, <5>1
      <4>2. CASE p # page
        <5>1. promised'[p] = promised[p] /\ promised[p] # {}
          BY <2>7, <3>3, <4>2
        <5>2. p \in Entries /\ "P" \in pt[p].flags /\ promised[p] \subseteq pt[p].flags \cap pd[0]
          BY <5>1 DEF PagingIInv, RightsLast
        <5>. QED
          BY <2>4, <2>6, <4>2, <5>1, <5>2
      <4>. QED
        BY <4>1, <4>2
    <3>. QED
      BY <2>3, <3>3 DEF RightsLast
  <2>. QED
    BY <2>8, <2>9, <2>10, <2>11 DEF PagingIInv
<1>. QED
  BY <1>1, <1>2

\* unmap_page leaves at most a translation of the entry that it cleared.
LEMMA UnmapKeeps ==
    ASSUME PagingIInv, NEW page \in Page, unmap_page(page)
    PROVE  PagingIInv'
<1>1. CASE ~HasTable(AddressOf(page))
  BY <1>1, NothingChangedKeeps DEF unmap_page, Fails, history
<1>2. CASE HasTable(AddressOf(page))
  <2>1. page \in Entries /\ boot # "start" /\ pte_index(AddressOf(page)) = page
    BY <1>2, TableFacts
  <2>2. /\ pt' = [pt EXCEPT ![page] = Unmapped] /\ answer' = 0
        /\ promised' = [promised EXCEPT ![page] = {}]
        /\ UNCHANGED <<pd, boot, tlb, asked>>
    BY <1>2, <2>1 DEF unmap_page
  <2>3. pt' \in [Entries -> [frame : Page, flags : SUBSET Flag]]
    <3>1. Unmapped \in [frame : Page, flags : SUBSET Flag]
      BY EntriesArePages DEF Unmapped
    <3>. QED
      BY <2>2, <3>1, Types DEF PagingIInv
  <2>4. /\ pt'[page] = Unmapped
        /\ \A e \in Entries : e # page => pt'[e] = pt[e]
    BY <2>1, <2>2, Types DEF PagingIInv
  <2>5. /\ promised' \in [Page -> SUBSET Flag] /\ promised'[page] = {}
        /\ \A p \in Page : p # page => promised'[p] = promised[p]
    BY <2>2, Types DEF PagingIInv
  <2>6. TypeOK'
    BY <2>2, <2>3, <2>5 DEF PagingIInv, TypeOK, Directory, Entries
  <2>7. OneTable'
    BY <2>2, <2>4 DEF PagingIInv, OneTable
  <2>8. CachedAgrees'
    BY <2>2, <2>4 DEF PagingIInv, CachedAgrees
  <2>9. UserAsked'
    BY <2>2, <2>4 DEF PagingIInv, UserAsked, Unmapped
  <2>10. RightsLast'
    BY <2>2, <2>4, <2>5 DEF PagingIInv, RightsLast
  <2>. QED
    BY <2>6, <2>7, <2>8, <2>9, <2>10 DEF PagingIInv
<1>. QED
  BY <1>1, <1>2

\* A range adds rights to mapped pages only, those that it reaches.
LEMMA RangeKeeps ==
    ASSUME PagingIInv, boot # "start", NEW virt \in Address, NEW size \in RangeSizes,
           NEW flags \in SUBSET {"RW", "US"}, paging_set_range_flags(virt, size, flags)
    PROVE  PagingIInv'
<1>. PICK reached, failed : reached = Reached(virt, size)
                            /\ failed = (reached # Visited(virt, size))
  OBVIOUS
<1>1. CASE size = 0
  BY <1>1, NothingChangedKeeps DEF paging_set_range_flags, history
<1>2. CASE size # 0
  <2>1. /\ OpenDirectory(reached, flags)
        /\ IF failed THEN UNCHANGED tlb ELSE FlushTlb
        /\ answer' = IF failed THEN -1 ELSE 0
        /\ asked' = Asks(Spanned(virt, size), flags)
        /\ promised' = IF failed THEN promised ELSE Promises(virt, size, flags)
        /\ boot' = boot
    BY <1>2 DEF paging_set_range_flags, FlushUnless
  <2>2. /\ reached \subseteq Visited(virt, size) /\ reached \subseteq Spanned(virt, size)
        /\ Spanned(virt, size) \subseteq Page
        /\ virt + size <= Word - PAGE_SIZE => Spanned(virt, size) \subseteq Visited(virt, size)
    <3>1. size \in Nat
      BY PagingAssumption
    <3>. QED
      BY <3>1, VisitedFacts DEF Reached, Spanned
  <2>3. \A p \in reached : p \in Entries /\ "P" \in pt[p].flags
    <3>. SUFFICES ASSUME NEW p \in reached PROVE p \in Entries /\ "P" \in pt[p].flags
      OBVIOUS
    <3>1. p \in Page
      BY <2>2
    <3>2. p \in virt \div PAGE_SIZE .. p
      <4>1. p \in Visited(virt, size) /\ p \in Nat
        BY <2>2, <3>1, PagesAreNumbers
      <4>2. virt \div PAGE_SIZE \in Nat
        BY PagingAssumption, DivisionBelow DEF Address
      <4>. QED
        BY <4>1, <4>2 DEF Visited
    <3>3. IsMapped(AddressOf(p))
      BY <3>2 DEF Reached
    <3>. QED
      BY <3>1, <3>3, TableFacts
  <2>. DEFINE Added(e) == [pt[e] EXCEPT !.flags = @ \cup (flags \cap {"RW", "US"})]
  <2>4. pt' = [e \in Entries |-> IF e \in reached THEN Added(e) ELSE pt[e]]
    <3>1. ASSUME NEW e \in Entries
          PROVE  (\E p \in reached : pte_index(AddressOf(p)) = e) <=> e \in reached
      BY <2>2, <2>3, EntriesArePages, TableFacts
    <3>2. DOMAIN pt = Entries
      BY Types DEF PagingIInv
    <3>3. pt' = [e \in DOMAIN pt |->
                   IF \E p \in reached : pte_index(AddressOf(p)) = e THEN Added(e) ELSE pt[e]]
      BY <1>2 DEF paging_set_range_flags
    <3>. HIDE DEF Added
    <3>. QED
      BY <3>1, <3>2, <3>3
  <2>5. ASSUME NEW e \in Entries
        PROVE  /\ pt'[e] \in [frame : Page, flags : SUBSET Flag]
               /\ pt'[e].frame = pt[e].frame
               /\ e \notin reached => pt'[e] = pt[e]
               /\ e \in reached => pt'[e].flags = pt[e].flags \cup flags
    <3>1. pt[e] \in [frame : Page, flags : SUBSET Flag]
      BY Types DEF PagingIInv
    <3>2. /\ Added(e) \in [frame : Page, flags : SUBSET Flag]
          /\ Added(e).frame = pt[e].frame
          /\ Added(e).flags = pt[e].flags \cup flags
      <4>1. pt[e].flags \cup (flags \cap {"RW", "US"}) \in SUBSET Flag
        BY <3>1 DEF Flag
      <4>2. flags \cap {"RW", "US"} = flags
        OBVIOUS
      <4>. QED
        BY <3>1, <4>1, <4>2
    <3>. HIDE DEF Added
    <3>. QED
      BY <2>4, <3>1, <3>2
  <2>6. /\ pd' \in [Directory -> SUBSET Flag]
        /\ \A d \in Directory : "P" \in pd'[d] <=> "P" \in pd[d]
        /\ pd[0] \subseteq pd'[0]
        /\ ("US" \in flags /\ reached \cap Entries # {}) => "US" \in pd'[0]
    BY <2>1, OpenFacts
  <2>7. asked \subseteq asked' /\ asked' \subseteq Page /\ ("US" \in flags => reached \subseteq asked')
    BY <2>1, <2>2, Types DEF Asks, PagingIInv
  <2>8. /\ promised' \in [Page -> SUBSET Flag]
        /\ failed => promised' = promised
        /\ \A p \in Page : \/ promised'[p] = promised[p]
                           \/ ~failed /\ p \in reached /\ promised'[p] = promised[p] \cup flags
    <3>1. CASE failed
      BY <2>1, <3>1, Types DEF PagingIInv
    <3>2. CASE ~failed
      <4>1. promised \in [Page -> SUBSET Flag] /\ reached = Visited(virt, size)
        BY <3>2, Types DEF PagingIInv
      <4>2. promised' = [p \in Page |->
                IF virt + size <= Word - PAGE_SIZE /\ p \in Spanned(virt, size)
                THEN promised[p] \cup flags ELSE promised[p]]
        BY <2>1, <3>2 DEF Promises
      <4>3. \A p \in Page : promised[p] \cup flags \in SUBSET Flag
        BY <4>1 DEF Flag
      <4>. QED
        BY <2>2, <3>2, <4>1, <4>2, <4>3
    <3>. QED
      BY <3>1, <3>2
  <2>9. (failed => tlb' = tlb) /\ (~failed => DOMAIN tlb' = {})
    BY <2>1, FlushFacts
  <2>10. TypeOK'
    <3>1. pt' \in [Entries -> [frame : Page, flags : SUBSET Flag]]
      <4>. HIDE DEF Added
      <4>. QED
        BY <2>4, <2>5
    <3>2. answer' \in {0, -1}
      BY <2>1
    <3>3. DOMAIN tlb' \subseteq Page /\ \A p \in DOMAIN tlb' : tlb'[p] \in [frame : Page, flags : SUBSET Flag]
      BY <2>9, Types DEF PagingIInv
    <3>. QED
      BY <2>1, <2>6, <2>7, <2>8, <3>1, <3>2, <3>3, Types DEF PagingIInv, TypeOK, Directory, Entries
  <2>11. OneTable'
    <3>1. \A e \in Entries : pt'[e] = Unmapped \/ (boot' # "start" /\ "P" \in pt'[e].flags)
      BY <2>1, <2>3, <2>5 DEF PagingIInv, OneTable
    <3>2. "RW" \in pd'[0] /\ (boot' # "paging" => DOMAIN tlb' = {})
      BY <2>1, <2>6, <2>9 DEF PagingIInv, OneTable
    <3>. QED
      BY <2>1, <2>6, <3>1, <3>2 DEF PagingIInv, OneTable
  <2>12. CachedAgrees'
    <3>. SUFFICES ASSUME failed, NEW p \in DOMAIN tlb
                  PROVE  /\ p \in Entries
                         /\ \/ /\ tlb[p].frame = pt'[p].frame
                               /\ "P" \in pt'[p].flags
                               /\ tlb[p].flags \subseteq pt'[p].flags \cap pd'[0]
                            \/ pt'[p] = Unmapped
      BY <2>9 DEF CachedAgrees
    <3>1. p \in Entries
      BY DEF PagingIInv, CachedAgrees
    <3>2. CASE pt[p] = Unmapped
      BY <2>3, <2>5, <3>1, <3>2 DEF Unmapped
    <3>3. CASE /\ tlb[p].frame = pt[p].frame /\ "P" \in pt[p].flags
               /\ tlb[p].flags \subseteq pt[p].flags \cap pd[0]
      <4>1. pt[p].flags \subseteq pt'[p].flags /\ pt'[p].frame = pt[p].frame
        BY <2>5, <3>1
      <4>. QED
        BY <2>6, <3>1, <3>3, <4>1
    <3>. QED
      BY <3>1, <3>2, <3>3 DEF PagingIInv, CachedAgrees
  <2>13. UserAsked'
    <3>1. \A e \in Entries : "US" \in pt'[e].flags => e \in asked'
      BY <2>5, <2>7 DEF PagingIInv, UserAsked
    <3>2. \A p \in DOMAIN tlb' : "US" \in tlb'[p].flags => p \in asked'
      BY <2>7, <2>9 DEF PagingIInv, UserAsked
    <3>. QED
      BY <3>1, <3>2 DEF UserAsked
  <2>14. RightsLast'
    <3>1. "RW" \in pd'[0]
      BY <2>6 DEF PagingIInv, OneTable
    <3>2. ASSUME NEW p \in Page, promised'[p] = promised[p], promised[p] # {}
          PROVE  /\ p \in Entries /\ "P" \in pt'[p].flags
                 /\ promised'[p] \subseteq pt'[p].flags \cap pd'[0]
                 /\ p \in DOMAIN tlb' => promised'[p] \subseteq tlb'[p].flags
      <4>1. /\ p \in Entries /\ "P" \in pt[p].flags
            /\ promised[p] \subseteq pt[p].flags \cap pd[0]
            /\ p \in DOMAIN tlb => promised[p] \subseteq tlb[p].flags
        BY <3>2 DEF PagingIInv, RightsLast
      <4>2. pt[p].flags \subseteq pt'[p].flags
        BY <2>5, <4>1
      <4>. QED
        BY <2>6, <2>9, <3>2, <4>1, <4>2
    <3>3. ASSUME NEW p \in Page, ~failed, p \in reached, promised'[p] = promised[p] \cup flags
          PROVE  /\ p \in Entries /\ "P" \in pt'[p].flags
                 /\ promised'[p] \subseteq pt'[p].flags \cap pd'[0]
                 /\ p \notin DOMAIN tlb'
      <4>1. p \in Entries /\ "P" \in pt[p].flags /\ pt'[p].flags = pt[p].flags \cup flags
        BY <2>3, <2>5, <3>3
      <4>2. promised[p] \subseteq pt[p].flags \cap pd[0]
        BY DEF PagingIInv, RightsLast
      <4>3. flags \subseteq pd'[0]
        BY <2>6, <3>1, <3>3, <4>1
      <4>. QED
        BY <2>6, <2>9, <3>3, <4>1, <4>2, <4>3
    <3>4. ASSUME NEW p \in Page, promised'[p] # {}
          PROVE  /\ p \in Entries /\ "P" \in pt'[p].flags
                 /\ promised'[p] \subseteq pt'[p].flags \cap pd'[0]
                 /\ p \in DOMAIN tlb' => promised'[p] \subseteq tlb'[p].flags
      BY <2>8, <3>2, <3>3, <3>4
    <3>. QED
      BY <3>4 DEF RightsLast
  <2>. QED
    BY <2>10, <2>11, <2>12, <2>13, <2>14 DEF PagingIInv
<1>. QED
  BY <1>1, <1>2

\* The CPU caches what the tables give, or forgets.
LEMMA CpuKeeps ==
    ASSUME PagingIInv, NEW page \in Page, CpuCaches(page) \/ CpuDrops(page)
    PROVE  PagingIInv'
<1>1. /\ UNCHANGED <<pd, pt, boot, answer, asked, promised>>
      /\ boot # "paging" => DOMAIN tlb' = {}
  BY DEF CpuCaches, CpuDrops, history, PagingIInv, OneTable
<1>2. \A p \in DOMAIN tlb' :
        \/ p \in DOMAIN tlb /\ tlb'[p] = tlb[p]
        \/ /\ p \in Entries /\ "P" \in pt[p].flags
           /\ tlb'[p] = [frame |-> pt[p].frame, flags |-> pt[p].flags \cap pd[0]]
  <2>1. CASE CpuCaches(page)
    <3>1. /\ page \in Entries /\ "P" \in pt[page].flags
          /\ Walk(page) = [frame |-> pt[page].frame, flags |-> pt[page].flags \cap pd[0]]
      BY <2>1, TableFacts DEF CpuCaches
    <3>. QED
      BY <2>1, <3>1 DEF CpuCaches
  <2>2. CASE CpuDrops(page)
    BY <2>2 DEF CpuDrops
  <2>. QED
    BY <2>1, <2>2
<1>3. TypeOK'
  <2>1. \A p \in DOMAIN tlb' : p \in Page /\ tlb'[p] \in [frame : Page, flags : SUBSET Flag]
    <3>. SUFFICES ASSUME NEW p \in DOMAIN tlb'
                  PROVE  p \in Page /\ tlb'[p] \in [frame : Page, flags : SUBSET Flag]
      OBVIOUS
    <3>1. CASE p \in DOMAIN tlb /\ tlb'[p] = tlb[p]
      BY <3>1, Types DEF PagingIInv
    <3>2. CASE /\ p \in Entries
               /\ tlb'[p] = [frame |-> pt[p].frame, flags |-> pt[p].flags \cap pd[0]]
      <4>1. pt[p].frame \in Page /\ pt[p].flags \in SUBSET Flag
        BY <3>2, Types DEF PagingIInv
      <4>. QED
        BY <3>2, <4>1, EntriesArePages
    <3>. QED
      BY <1>2, <3>1, <3>2
  <2>. QED
    BY <1>1, <2>1 DEF PagingIInv, TypeOK
<1>4. OneTable'
  BY <1>1 DEF PagingIInv, OneTable
<1>5. CachedAgrees'
  BY <1>1, <1>2 DEF PagingIInv, CachedAgrees
<1>6. UserAsked'
  BY <1>1, <1>2 DEF PagingIInv, UserAsked
<1>7. RightsLast'
  BY <1>1, <1>2 DEF PagingIInv, RightsLast
<1>. QED
  BY <1>3, <1>4, <1>5, <1>6, <1>7 DEF PagingIInv

\* Every step keeps the invariant.
LEMMA NextPaging == PagingIInv /\ [Next]_vars => PagingIInv'
<1>. SUFFICES ASSUME PagingIInv, [Next]_vars PROVE PagingIInv'
  OBVIOUS
<1>1. CASE UNCHANGED vars
  BY <1>1 DEF vars, history, PagingIInv, TypeOK, OneTable, CachedAgrees, UserAsked, RightsLast
<1>2. CASE Next
  BY <1>2, BootKeeps, MapKeeps, UnmapKeeps, RangeKeeps, CpuKeeps DEF Next, Call
<1>. QED
  BY <1>1, <1>2

\* The invariant holds throughout.
LEMMA PagingAlways == Spec => []PagingIInv
  BY InitPaging, NextPaging, PTL DEF Spec

-----------------------------------------------------------------------------
(* The theorems *)

\* Tables and TLB always hold frames and flags.
THEOREM PagingTypes == Spec => []TypeOK
<1>1. PagingIInv => TypeOK
  BY DEF PagingIInv
<1>. QED
  BY <1>1, PagingAlways, PTL

\* What the CPU has cached agrees with the tables and with virt_to_phys, except
\* for pages that unmap_page has removed.
THEOREM CacheIsSound == Spec => []TlbSound
<1>1. ASSUME PagingIInv PROVE TlbSound
  <2>. SUFFICES ASSUME NEW p \in DOMAIN tlb
                PROVE  \/ /\ AddressOf(tlb[p].frame) = virt_to_phys(AddressOf(p))
                          /\ tlb[p].flags \subseteq Walk(p).flags
                       \/ pt[pte_index(AddressOf(p))] = Unmapped
    BY DEF TlbSound
  <2>1. p \in Entries /\ p \in Page /\ p \in Nat
    BY <1>1, EntriesArePages, PagesAreNumbers DEF PagingIInv, CachedAgrees
  <2>2. pte_index(AddressOf(p)) = p
    BY <2>1, PageFacts
  <2>3. CASE pt[p] = Unmapped
    BY <2>2, <2>3
  <2>4. CASE /\ tlb[p].frame = pt[p].frame /\ "P" \in pt[p].flags
             /\ tlb[p].flags \subseteq pt[p].flags \cap pd[0]
    <3>1. IsMapped(AddressOf(p)) /\ Walk(p).flags = pt[p].flags \cap pd[0]
      BY <1>1, <2>1, <2>4, TableFacts
    <3>2. AddressOf(p) % PAGE_SIZE = 0 /\ AddressOf(pt[p].frame) \in Nat
      BY <1>1, <2>1, PageFacts, PagesAreNumbers, Types DEF PagingIInv
    <3>3. virt_to_phys(AddressOf(p)) = AddressOf(pt[p].frame)
      BY <2>2, <3>1, <3>2 DEF virt_to_phys
    <3>. QED
      BY <2>4, <3>1, <3>3
  <2>. QED
    BY <1>1, <2>3, <2>4 DEF PagingIInv, CachedAgrees
<1>. QED
  BY <1>1, PagingAlways, PTL

\* Ring 3 reaches only pages that it was given.
THEOREM OnlyAskedPagesAreOpen == Spec => []UserPagesAsked
<1>1. ASSUME PagingIInv PROVE UserPagesAsked
  <2>. SUFFICES ASSUME NEW p \in Page, NEW t \in Translations(p), "US" \in t.flags
                PROVE  p \in asked
    BY DEF UserPagesAsked
  <2>1. CASE p \in DOMAIN tlb /\ t = tlb[p]
    BY <1>1, <2>1 DEF PagingIInv, UserAsked
  <2>2. CASE IsMapped(AddressOf(p)) /\ t = Walk(p)
    BY <1>1, <2>2, TableFacts DEF PagingIInv, UserAsked
  <2>. QED
    BY <2>1, <2>2 DEF Translations
<1>. QED
  BY <1>1, PagingAlways, PTL

\* What a call reported as given lasts until the page is mapped anew or unmapped.
THEOREM RightsAreKept == Spec => []PromisesKept
<1>1. ASSUME PagingIInv PROVE PromisesKept
  <2>. SUFFICES ASSUME NEW p \in Page, promised[p] # {}
                PROVE  /\ IsMapped(AddressOf(p))
                       /\ \A t \in Translations(p) : promised[p] \subseteq t.flags
    BY DEF PromisesKept
  <2>1. /\ p \in Entries /\ "P" \in pt[p].flags
        /\ promised[p] \subseteq pt[p].flags \cap pd[0]
        /\ p \in DOMAIN tlb => promised[p] \subseteq tlb[p].flags
    BY <1>1 DEF PagingIInv, RightsLast
  <2>2. IsMapped(AddressOf(p)) /\ Walk(p).flags = pt[p].flags \cap pd[0]
    BY <1>1, <2>1, TableFacts
  <2>. QED
    BY <2>1, <2>2 DEF Translations
<1>. QED
  BY <1>1, PagingAlways, PTL

=============================================================================
