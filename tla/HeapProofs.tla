----------------------------- MODULE HeapProofs -----------------------------
(***************************************************************************)
(* Proofs about the kernel heap, for every size of the heap, of a header   *)
(* and of an alignment, every set of requests that wrap no address, and    *)
(* every pointer that is given to kfree.                                   *)
(***************************************************************************)
EXTENDS HeapRefinement, SequenceTheorems, TLAPS

-----------------------------------------------------------------------------
(* Multiples of HEAP_ALIGN *)

Aligned(x) == x \in Int /\ x % HEAP_ALIGN = 0

\* An aligned number is a multiple.
LEMMA AlignedIsMultiple ==
    ASSUME NEW x, Aligned(x)
    PROVE  x \div HEAP_ALIGN \in Int /\ x = (x \div HEAP_ALIGN) * HEAP_ALIGN
BY HeapAssumption DEF Aligned

\* A multiple is aligned.
LEMMA MultipleIsAligned ==
    ASSUME NEW q \in Int
    PROVE  Aligned(q * HEAP_ALIGN)
BY HeapAssumption DEF Aligned

\* Sums and differences of aligned numbers are aligned.
LEMMA AlignedSums ==
    ASSUME NEW x, NEW y, Aligned(x), Aligned(y)
    PROVE  Aligned(x + y) /\ Aligned(x - y)
<1>. DEFINE q == x \div HEAP_ALIGN
            r == y \div HEAP_ALIGN
<1>1. q \in Int /\ r \in Int /\ x = q * HEAP_ALIGN /\ y = r * HEAP_ALIGN
  BY AlignedIsMultiple
<1>. HIDE DEF q, r
<1>2. HEAP_ALIGN \in Int
  BY HeapAssumption
<1>3. x + y = (q + r) * HEAP_ALIGN /\ x - y = (q - r) * HEAP_ALIGN
  BY <1>1, <1>2
<1>4. q + r \in Int /\ q - r \in Int
  BY <1>1
<1>. QED
  BY <1>3, <1>4, MultipleIsAligned

\* Aligned numbers are not closer than HEAP_ALIGN.
LEMMA AlignedGap ==
    ASSUME NEW x, NEW y, Aligned(x), Aligned(y), x + HEAP_ALIGN > y
    PROVE  x >= y
<1>. DEFINE q == x \div HEAP_ALIGN
            r == y \div HEAP_ALIGN
<1>1. q \in Int /\ r \in Int /\ x = q * HEAP_ALIGN /\ y = r * HEAP_ALIGN
  BY AlignedIsMultiple
<1>. HIDE DEF q, r
<1>2. HEAP_ALIGN \in Nat \ {0}
  BY HeapAssumption
<1>3. (q + 1) * HEAP_ALIGN > r * HEAP_ALIGN
  BY <1>1, <1>2
<1>4. q + 1 > r
  BY <1>1, <1>2, <1>3
<1>5. q >= r
  BY <1>1, <1>4
<1>. QED
  BY <1>1, <1>2, <1>5

\* align_up gives the least aligned number that is not below x, as long as the
\* sum in it does not wrap.
LEMMA AlignUp ==
    ASSUME NEW x \in Nat, x + HEAP_ALIGN - 1 < Word
    PROVE  /\ Aligned(align_up(x)) /\ align_up(x) \in Nat
           /\ x <= align_up(x) /\ align_up(x) < x + HEAP_ALIGN
           /\ Aligned(x) => align_up(x) = x
           /\ x > 0 => align_up(x) >= HEAP_ALIGN
<1>. DEFINE y == x + HEAP_ALIGN - 1
            q == y \div HEAP_ALIGN
<1>1. HEAP_ALIGN \in Nat \ {0} /\ Word \in Nat \ {0}
  BY HeapAssumption
<1>2. y \in Nat /\ y < Word
  BY <1>1
<1>. HIDE DEF y
<1>3. y % Word = y
  BY <1>1, <1>2
<1>4. align_up(x) = q * HEAP_ALIGN
  BY <1>3 DEF align_up, y
<1>5. q \in Nat /\ q * HEAP_ALIGN \in Nat /\ q * HEAP_ALIGN <= y /\ q * HEAP_ALIGN > y - HEAP_ALIGN
  BY <1>1, <1>2
<1>6. Aligned(align_up(x))
  BY <1>4, <1>5, MultipleIsAligned
<1>. HIDE DEF q
<1>7. align_up(x) \in Nat /\ x <= align_up(x) /\ align_up(x) < x + HEAP_ALIGN
  BY <1>1, <1>4, <1>5 DEF y
<1>8. ASSUME Aligned(x) PROVE align_up(x) = x
  <2>1. x + HEAP_ALIGN > align_up(x)
    BY <1>1, <1>7
  <2>2. x >= align_up(x)
    BY <1>6, <1>8, <2>1, AlignedGap
  <2>. QED
    BY <1>7, <2>2
<1>9. ASSUME x > 0 PROVE align_up(x) >= HEAP_ALIGN
  <2>1. Aligned(HEAP_ALIGN)
    <3>1. HEAP_ALIGN = 1 * HEAP_ALIGN
      BY <1>1
    <3>. QED
      BY <3>1, MultipleIsAligned
  <2>2. align_up(x) + HEAP_ALIGN > HEAP_ALIGN
    BY <1>1, <1>7, <1>9
  <2>. QED
    BY <1>6, <2>1, <2>2, AlignedGap
<1>. QED
  BY <1>6, <1>7, <1>8, <1>9

\* The bounds of the heap are numbers.
LEMMA HeapBounds ==
    /\ g_heap_start \in Nat /\ Aligned(g_heap_start)
    /\ g_heap_end \in Nat /\ g_heap_start <= g_heap_end
<1>. DEFINE y == (KernelEnd + HEAP_ALIGN - 1) % Word
            q == y \div HEAP_ALIGN
<1>1. HEAP_ALIGN \in Nat \ {0} /\ Word \in Nat \ {0} /\ HEAP_SIZE \in Nat
      /\ KernelEnd \in Nat
  BY HeapAssumption
<1>2. y \in Nat
  BY <1>1
<1>. HIDE DEF y
<1>3. q \in Nat /\ q * HEAP_ALIGN \in Nat
  BY <1>1, <1>2
<1>4. g_heap_start = q * HEAP_ALIGN
  BY DEF g_heap_start, align_up, y
<1>. HIDE DEF q
<1>5. Aligned(g_heap_start)
  BY <1>3, <1>4, MultipleIsAligned
<1>. QED
  BY <1>1, <1>3, <1>4, <1>5 DEF g_heap_end

\* What a request comes to, as long as the heap's next address is a header's:
\* nothing in alloc_from_bump wraps.
LEMMA RequestFacts ==
    ASSUME NEW n \in Requests, curr \in Nat, Aligned(curr), curr <= g_heap_end
    PROVE  /\ n \in Nat /\ align_up(n) \in Nat /\ Aligned(align_up(n))
           /\ n <= align_up(n)
           /\ align_up(n) < n + HEAP_ALIGN
           /\ n # 0 => align_up(n) > 0
           /\ align_up(curr) = curr
           /\ EndIfBumped(align_up(n)) = curr + HeaderSize + align_up(n)
<1>1. /\ HEAP_ALIGN \in Nat \ {0} /\ Word \in Nat \ {0} /\ HEAP_SIZE \in Nat
      /\ KernelEnd \in Nat /\ HeaderSize \in Nat /\ n \in Nat
      /\ KernelEnd + HEAP_SIZE + HeaderSize + n + 2 * HEAP_ALIGN < Word
  BY HeapAssumption
<1>2. g_heap_start < KernelEnd + HEAP_ALIGN /\ g_heap_end = g_heap_start + HEAP_SIZE
  <2>1. KernelEnd + HEAP_ALIGN - 1 < Word
    BY <1>1
  <2>. QED
    BY <1>1, <2>1, AlignUp DEF g_heap_start, g_heap_end
<1>3. n + HEAP_ALIGN - 1 < Word /\ curr + HEAP_ALIGN - 1 < Word
  BY <1>1, <1>2, HeapBounds
<1>4. /\ align_up(n) \in Nat /\ Aligned(align_up(n))
      /\ n <= align_up(n) /\ align_up(n) < n + HEAP_ALIGN
      /\ n # 0 => align_up(n) > 0
  BY <1>1, <1>3, AlignUp
<1>5. align_up(curr) = curr
  BY <1>3, AlignUp
<1>6. HeaderSize + align_up(n) < Word /\ curr + HeaderSize + align_up(n) < Word
  BY <1>1, <1>2, <1>4, HeapBounds
<1>. DEFINE s == align_up(n)
<1>. HIDE DEF s
<1>7. s \in Nat /\ HeaderSize + s < Word /\ curr + HeaderSize + s < Word
  BY <1>4, <1>6 DEF s
<1>8. (HeaderSize + s) % Word = HeaderSize + s
  BY <1>1, <1>7
<1>9. (curr + (HeaderSize + s)) % Word = curr + HeaderSize + s
  BY <1>1, <1>7
<1>10. EndIfBumped(s) = curr + HeaderSize + s
  BY <1>5, <1>8, <1>9 DEF EndIfBumped
<1>. QED
  BY <1>1, <1>4, <1>5, <1>10 DEF s

-----------------------------------------------------------------------------
(* The free list *)

\* s chains each member of S once, and nothing else.
Chains(s, S) ==
    /\ s \in Seq(S)
    /\ {s[i] : i \in 1 .. Len(s)} = S
    /\ \A i, j \in 1 .. Len(s) : s[i] = s[j] => i = j

\* The parts of Chains, one by one.
LEMMA ChainFacts ==
    ASSUME NEW s, NEW S
    PROVE  Chains(s, S) <=>
             /\ s \in Seq(S) /\ Len(s) \in Nat
             /\ \A i \in 1 .. Len(s) : s[i] \in S
             /\ \A x \in S : \E i \in 1 .. Len(s) : s[i] = x
             /\ \A i, j \in 1 .. Len(s) : s[i] = s[j] => i = j
<1>1. s \in Seq(S) => Len(s) \in Nat /\ \A i \in 1 .. Len(s) : s[i] \in S
  OBVIOUS
<1>2. ASSUME \A i \in 1 .. Len(s) : s[i] \in S
      PROVE  {s[i] : i \in 1 .. Len(s)} = S <=>
                \A x \in S : \E i \in 1 .. Len(s) : s[i] = x
  BY <1>2, Zenon
<1>. QED
  BY <1>1, <1>2, Zenon DEF Chains

\* What unlinking an entry leaves of a list.
LEMMA UnlinkFacts ==
    ASSUME NEW S, NEW s \in Seq(S), NEW i \in 1 .. Len(s)
    PROVE  LET t == SubSeq(s, 1, i - 1) \o SubSeq(s, i + 1, Len(s)) IN
           /\ t \in Seq(S) /\ Len(t) = Len(s) - 1
           /\ \A j \in 1 .. Len(t) : t[j] = IF j < i THEN s[j] ELSE s[j + 1]
<1>. DEFINE p == SubSeq(s, 1, i - 1)
            r == SubSeq(s, i + 1, Len(s))
            n == Len(s)
<1>1. n \in Nat /\ i \in 1 .. n /\ \A j \in 1 .. n : s[j] \in S
  OBVIOUS
<1>2. /\ p \in Seq(S)
      /\ Len(p) = IF 1 <= i - 1 THEN i - 1 - 1 + 1 ELSE 0
      /\ \A j \in 1 .. i - 1 - 1 + 1 : p[j] = s[1 + j - 1]
  <2>1. 1 \in Int /\ i - 1 \in Int /\ \A j \in 1 .. i - 1 : s[j] \in S
    BY <1>1
  <2>. QED
    BY <2>1, SubSeqProperties
<1>3. /\ r \in Seq(S)
      /\ Len(r) = IF i + 1 <= n THEN n - (i + 1) + 1 ELSE 0
      /\ \A j \in 1 .. n - (i + 1) + 1 : r[j] = s[i + 1 + j - 1]
  <2>1. i + 1 \in Int /\ n \in Int /\ \A j \in i + 1 .. n : s[j] \in S
    BY <1>1
  <2>. QED
    BY <2>1, SubSeqProperties
<1>. HIDE DEF p, r, n
<1>4. Len(p) = i - 1 /\ \A j \in 1 .. i - 1 : p[j] = s[j]
  BY <1>1, <1>2
<1>5. Len(r) = n - i /\ \A j \in 1 .. n - i : r[j] = s[i + j]
  BY <1>1, <1>3
<1>. DEFINE t == p \o r
<1>6. /\ t \in Seq(S) /\ Len(t) = Len(p) + Len(r)
      /\ \A j \in 1 .. Len(p) + Len(r) :
            t[j] = IF j <= Len(p) THEN p[j] ELSE r[j - Len(p)]
  BY <1>2, <1>3, ConcatProperties, Zenon
<1>. HIDE DEF t
<1>7. Len(t) = n - 1
  BY <1>1, <1>4, <1>5, <1>6
<1>8. ASSUME NEW j \in 1 .. Len(t)
      PROVE  t[j] = IF j < i THEN s[j] ELSE s[j + 1]
  <2>1. CASE j < i
    BY <1>1, <1>4, <1>5, <1>6, <1>7, <2>1
  <2>2. CASE ~ (j < i)
    <3>1. j - (i - 1) \in 1 .. n - i /\ i + (j - (i - 1)) = j + 1
      BY <1>1, <1>7, <2>2
    <3>. QED
      BY <1>1, <1>4, <1>5, <1>6, <1>7, <2>2, <3>1
  <2>. QED
    BY <2>1, <2>2
<1>. QED
  BY <1>6, <1>7, <1>8 DEF t, p, r, n

\* A list without one of its entries.
LEMMA ChainWithout ==
    ASSUME NEW S, NEW s, Chains(s, S), NEW i \in 1 .. Len(s),
           NEW t \in Seq(S), Len(t) = Len(s) - 1,
           \A j \in 1 .. Len(t) : t[j] = IF j < i THEN s[j] ELSE s[j + 1]
    PROVE  Chains(t, S \ {s[i]})
<1>1. Len(s) \in Nat
  BY ChainFacts, Zenon
<1>r. \A j \in 1 .. Len(s) : s[j] \in S
  BY ChainFacts, Zenon
<1>e. \A x \in S : \E j \in 1 .. Len(s) : s[j] = x
  BY ChainFacts, Zenon
<1>u. \A j, k \in 1 .. Len(s) : s[j] = s[k] => j = k
  BY ChainFacts, Zenon
<1>2. ASSUME NEW j \in 1 .. Len(t)
      PROVE  t[j] \in S \ {s[i]}
  <2>. DEFINE jj == IF j < i THEN j ELSE j + 1
  <2>1. jj \in 1 .. Len(s) /\ jj # i
    BY <1>1
  <2>2. t[j] = s[jj]
    OBVIOUS
  <2>. HIDE DEF jj
  <2>. QED
    BY <1>r, <1>u, <2>1, <2>2, Zenon
<1>3. t \in Seq(S \ {s[i]}) /\ Len(t) \in Nat
  BY <1>2
<1>4. ASSUME NEW x \in S \ {s[i]} PROVE \E j \in 1 .. Len(t) : t[j] = x
  <2>1. PICK k \in 1 .. Len(s) : s[k] = x
    BY <1>e
  <2>2. k # i
    BY <2>1
  <2>3. CASE k < i
    BY <1>1, <2>1, <2>3
  <2>4. CASE k > i
    <3>. DEFINE j == k - 1
    <3>1. j \in 1 .. Len(t) /\ ~ (j < i) /\ j + 1 = k
      BY <1>1, <2>4
    <3>. HIDE DEF j
    <3>2. t[j] = x
      BY <2>1, <3>1
    <3>. QED
      BY <3>1, <3>2
  <2>. QED
    BY <1>1, <2>2, <2>3, <2>4
<1>5. ASSUME NEW j \in 1 .. Len(t), NEW k \in 1 .. Len(t), t[j] = t[k]
      PROVE  j = k
  <2>. DEFINE jj == IF j < i THEN j ELSE j + 1
              kk == IF k < i THEN k ELSE k + 1
  <2>1. /\ jj \in 1 .. Len(s) /\ kk \in 1 .. Len(s) /\ s[jj] = s[kk]
        /\ jj = kk => j = k
    BY <1>1, <1>5
  <2>. HIDE DEF jj, kk
  <2>. QED
    BY <1>u, <2>1, Zenon
<1>. QED
  BY <1>2, <1>3, <1>4, <1>5, ChainFacts, Zenon

\* A list with a new entry at its head.
LEMMA ChainWith ==
    ASSUME NEW S, NEW s, Chains(s, S), NEW x, x \notin S
    PROVE  Chains(<<x>> \o s, S \cup {x})
<1>1. s \in Seq(S) /\ Len(s) \in Nat
  BY ChainFacts, Zenon
<1>r. \A j \in 1 .. Len(s) : s[j] \in S
  BY ChainFacts, Zenon
<1>e. \A y \in S : \E j \in 1 .. Len(s) : s[j] = y
  BY ChainFacts, Zenon
<1>u. \A j, k \in 1 .. Len(s) : s[j] = s[k] => j = k
  BY ChainFacts, Zenon
<1>. DEFINE t == <<x>> \o s
<1>2. /\ t \in Seq(S \cup {x}) /\ Len(t) = Len(s) + 1 /\ t[1] = x
      /\ \A j \in 1 .. Len(s) : t[j + 1] = s[j]
  BY <1>1
<1>. HIDE DEF t
<1>3. ASSUME NEW j \in 1 .. Len(t), j # 1
      PROVE  /\ j - 1 \in 1 .. Len(s) /\ t[j] = s[j - 1]
             /\ t[j] \in S /\ t[j] # x
  <2>1. j - 1 \in 1 .. Len(s) /\ (j - 1) + 1 = j
    BY <1>1, <1>2, <1>3
  <2>2. t[j] = s[j - 1]
    BY <1>2, <2>1
  <2>. QED
    BY <1>r, <2>1, <2>2
<1>4. ASSUME NEW y \in S \cup {x} PROVE \E j \in 1 .. Len(t) : t[j] = y
  <2>1. CASE y = x
    BY <1>1, <1>2, <2>1
  <2>2. CASE y \in S
    <3>1. PICK k \in 1 .. Len(s) : s[k] = y
      BY <1>e, <2>2
    <3>2. k + 1 \in 1 .. Len(t) /\ t[k + 1] = y
      BY <1>1, <1>2, <3>1
    <3>. QED
      BY <3>2
  <2>. QED
    BY <2>1, <2>2
<1>5. ASSUME NEW j \in 1 .. Len(t), NEW k \in 1 .. Len(t), t[j] = t[k]
      PROVE  j = k
  <2>1. CASE j = 1 \/ k = 1
    BY <1>2, <1>3, <1>5, <2>1
  <2>2. CASE j # 1 /\ k # 1
    <3>. DEFINE jj == j - 1
                kk == k - 1
    <3>1. jj \in 1 .. Len(s) /\ kk \in 1 .. Len(s) /\ s[jj] = s[kk]
      BY <1>3, <1>5, <2>2
    <3>2. jj = kk => j = k
      OBVIOUS
    <3>. HIDE DEF jj, kk
    <3>. QED
      BY <1>u, <3>1, <3>2, Zenon
  <2>. QED
    BY <2>1, <2>2
<1>6. Len(t) \in Nat /\ \A j \in 1 .. Len(t) : t[j] \in S \cup {x}
  BY <1>1, <1>2, <1>3
<1>. QED
  BY <1>2, <1>4, <1>5, <1>6, ChainFacts, Zenon DEF t

-----------------------------------------------------------------------------
(* The inductive invariant *)

\* Blocks and the address after the last one are aligned, and no block is empty:
\* so a rounded request that is larger than a block is larger before rounding,
\* and a payload never starts where the heap ends.
Measured ==
    /\ Aligned(curr) /\ g_heap_start <= curr
    /\ \A a \in DOMAIN blocks : Aligned(blocks[a].size) /\ blocks[a].size > 0

HeapIInv == TypeOK /\ HeapIsWhole /\ Measured

Busy == {a \in DOMAIN blocks : ~blocks[a].free}
Free == {a \in DOMAIN blocks : blocks[a].free}

\* What the invariant says of one block.
LEMMA BlockFacts ==
    ASSUME HeapIInv, NEW a \in DOMAIN blocks
    PROVE  /\ a \in Nat /\ Aligned(a) /\ a >= g_heap_start
           /\ blocks[a] \in [size : Nat, free : BOOLEAN]
           /\ blocks[a].size \in Nat /\ blocks[a].size > 0 /\ Aligned(blocks[a].size)
           /\ Follows(a) = a + HeaderSize + blocks[a].size
           /\ Follows(a) \in Nat /\ Follows(a) <= curr
           /\ Follows(a) = curr \/ Follows(a) \in DOMAIN blocks
           /\ \A b \in DOMAIN blocks : a < b => Follows(a) <= b
<1>1. a \in Nat /\ blocks[a] \in [size : Nat, free : BOOLEAN]
  BY DEF HeapIInv, TypeOK
<1>2. /\ a >= g_heap_start /\ a % HEAP_ALIGN = 0 /\ Follows(a) <= curr
      /\ Follows(a) = curr \/ Follows(a) \in DOMAIN blocks
      /\ \A b \in DOMAIN blocks : a < b => Follows(a) <= b
  BY DEF HeapIInv, HeapIsWhole, BlocksTile
<1>3. Aligned(blocks[a].size) /\ blocks[a].size > 0
  BY DEF HeapIInv, Measured
<1>4. HeaderSize \in Nat
  BY HeapAssumption
<1>5. Follows(a) = a + HeaderSize + blocks[a].size /\ Follows(a) \in Nat
  BY <1>1, <1>4 DEF Follows, PayloadOf
<1>. QED
  BY <1>1, <1>2, <1>3, <1>5 DEF Aligned

\* What it says of the whole.
LEMMA HeapFacts ==
    ASSUME HeapIInv
    PROVE  /\ curr \in Nat /\ Aligned(curr) /\ g_heap_start <= curr /\ curr <= g_heap_end
           /\ curr = g_heap_start \/ g_heap_start \in DOMAIN blocks
           /\ DOMAIN blocks \subseteq Nat
           /\ Chains(freeList, Free)
           /\ freeList \in Seq(DOMAIN blocks) /\ Len(freeList) \in Nat
           /\ DOMAIN granted = {PayloadOf(a) : a \in Busy}
           /\ \A a \in Busy : granted[PayloadOf(a)] <= blocks[a].size
           /\ \A p \in DOMAIN granted : granted[p] \in Nat
<1>1. /\ curr \in Nat /\ DOMAIN blocks \subseteq Nat /\ freeList \in Seq(DOMAIN blocks)
      /\ \A p \in DOMAIN granted : granted[p] \in Nat
  BY DEF HeapIInv, TypeOK
<1>2. /\ Aligned(curr) /\ g_heap_start <= curr /\ curr <= g_heap_end
      /\ curr = g_heap_start \/ g_heap_start \in DOMAIN blocks
  BY DEF HeapIInv, HeapIsWhole, Measured, BlocksTile
<1>3. Chains(freeList, Free)
  <2>1. /\ {freeList[i] : i \in 1 .. Len(freeList)} = Free
        /\ \A i, j \in 1 .. Len(freeList) : freeList[i] = freeList[j] => i = j
    BY DEF HeapIInv, HeapIsWhole, FreeListExact, Free
  <2>2. freeList \in Seq(Free)
    <3>1. \A i \in 1 .. Len(freeList) : freeList[i] \in Free
      BY <2>1
    <3>. QED
      BY <1>1, <3>1
  <2>. QED
    BY <2>1, <2>2 DEF Chains
<1>4. /\ DOMAIN granted = {PayloadOf(a) : a \in Busy}
      /\ \A a \in Busy : granted[PayloadOf(a)] <= blocks[a].size
  BY DEF HeapIInv, HeapIsWhole, BusyIsGranted, Busy
<1>5. Len(freeList) \in Nat
  BY <1>1
<1>. QED
  BY <1>1, <1>2, <1>3, <1>4, <1>5

\* A list that chains the free blocks is exact.
LEMMA ChainIsExact ==
    ASSUME NEW l, NEW B, Chains(l, {a \in DOMAIN B : B[a].free})
    PROVE  /\ {l[i] : i \in 1 .. Len(l)} = {a \in DOMAIN B : B[a].free}
           /\ \A i, j \in 1 .. Len(l) : l[i] = l[j] => i = j
           /\ l \in Seq(DOMAIN B)
<1>1. l \in Seq(DOMAIN B)
  BY ChainFacts
<1>. QED
  BY <1>1 DEF Chains

\* The block that a request finds in the list.
LEMMA FoundFacts ==
    ASSUME HeapIInv, NEW size \in Nat, NEW i \in 1 .. Len(freeList), FirstFit(i, size)
    PROVE  /\ freeList[i] \in DOMAIN blocks /\ blocks[freeList[i]].free
           /\ freeList[i] \in Free
           /\ blocks[freeList[i]].size >= size
           /\ Unlinked(i) \in Seq(Free)
           /\ Chains(Unlinked(i), Free \ {freeList[i]})
<1>1. Chains(freeList, Free)
  BY HeapFacts
<1>2. freeList \in Seq(Free)
  BY <1>1, ChainFacts, Zenon
<1>3. freeList[i] \in Free
  BY <1>1, ChainFacts, Zenon
<1>4. blocks[freeList[i]].size >= size
  BY DEF FirstFit, Fits
<1>5. /\ Unlinked(i) \in Seq(Free) /\ Len(Unlinked(i)) = Len(freeList) - 1
      /\ \A j \in 1 .. Len(Unlinked(i)) :
            Unlinked(i)[j] = IF j < i THEN freeList[j] ELSE freeList[j + 1]
  BY <1>2, UnlinkFacts, Zenon DEF Unlinked
<1>6. Chains(Unlinked(i), Free \ {freeList[i]})
  BY <1>1, <1>5, ChainWithout, Zenon
<1>. QED
  BY <1>3, <1>4, <1>5, <1>6 DEF Free

\* What a grant does to what clients hold, when one block becomes busy.
LEMMA GrantFacts ==
    ASSUME HeapIInv, NEW n \in Nat, NEW zero \in BOOLEAN, NEW a \in Nat \ Busy,
           NEW headers \in SUBSET Nat, Grant(n, zero, a, headers),
           Busy' = Busy \cup {a}, blocks'[a].size >= n,
           \A b \in Busy : blocks'[b] = blocks[b]
    PROVE  /\ BusyIsGranted'
           /\ DOMAIN granted' \subseteq Nat
           /\ \A p \in DOMAIN granted' : granted'[p] \in Nat
           /\ answer' \in ({"pointer"} \X Nat) \cup ({"bool"} \X BOOLEAN)
           /\ wrote' \subseteq Nat
<1>1. HeaderSize \in Nat /\ Busy \subseteq Nat
  BY HeapAssumption, HeapFacts DEF Busy
<1>2. /\ DOMAIN granted = {PayloadOf(b) : b \in Busy}
      /\ \A b \in Busy : granted[PayloadOf(b)] <= blocks[b].size
      /\ \A p \in DOMAIN granted : granted[p] \in Nat
  BY HeapFacts
<1>3. /\ DOMAIN granted' = DOMAIN granted \cup {PayloadOf(a)}
      /\ granted'[PayloadOf(a)] = n
      /\ \A p \in DOMAIN granted : p # PayloadOf(a) => granted'[p] = granted[p]
  BY DEF Grant
<1>4. DOMAIN granted' = {PayloadOf(b) : b \in Busy'}
  BY <1>2, <1>3
<1>5. ASSUME NEW b \in Busy' PROVE granted'[PayloadOf(b)] <= blocks'[b].size
  <2>1. CASE b = a
    BY <1>3, <2>1
  <2>2. CASE b # a
    <3>1. b \in Busy /\ PayloadOf(b) # PayloadOf(a) /\ PayloadOf(b) \in DOMAIN granted
      BY <1>1, <1>2, <2>2 DEF PayloadOf
    <3>. QED
      BY <1>2, <1>3, <3>1
  <2>. QED
    BY <2>1, <2>2
<1>6. \A p \in DOMAIN granted' : p \in Nat /\ granted'[p] \in Nat
  <2>1. \A b \in Busy' : PayloadOf(b) \in Nat
    BY <1>1 DEF PayloadOf
  <2>. QED
    BY <1>2, <1>3, <1>4, <2>1
<1>7. answer' \in {"pointer"} \X Nat
  BY <1>1 DEF Grant, Pointer, PayloadOf
<1>8. wrote' \subseteq Nat
  <2>1. Region(PayloadOf(a), n) \subseteq Nat
    BY <1>1 DEF Region, PayloadOf
  <2>. QED
    BY <2>1 DEF Grant
<1>. QED
  BY <1>4, <1>5, <1>6, <1>7, <1>8 DEF BusyIsGranted, Busy

-----------------------------------------------------------------------------
(* The steps *)

\* What has to be shown of a step for the invariant to hold after it, once the
\* blocks are known.
BlocksFine ==
    /\ curr \in Nat
    /\ DOMAIN blocks \subseteq Nat
    /\ \A a \in DOMAIN blocks : blocks[a] \in [size : Nat, free : BOOLEAN]
    /\ BlocksTile
    /\ Measured

\* Headers are written inside the heap's addresses.
LEMMA HeadersAreAddresses ==
    ASSUME HeapIInv, NEW i \in 1 .. Len(freeList)
    PROVE  UnlinkWrites(i) \in SUBSET Nat
<1>1. \A j \in 1 .. Len(freeList) : freeList[j] \in Nat
  BY HeapFacts
<1>2. HeaderSize \in Nat
  BY HeapAssumption
<1>3. Header(freeList[i]) \subseteq Nat
  BY <1>1, <1>2 DEF Header, Region
<1>4. i # 1 => Header(freeList[i - 1]) \subseteq Nat
  <2>1. i # 1 => i - 1 \in 1 .. Len(freeList)
    BY HeapFacts
  <2>. QED
    BY <1>1, <1>2, <2>1 DEF Header, Region
<1>. QED
  BY <1>3, <1>4 DEF UnlinkWrites

\* A block of the list is taken whole: only its free bit changes.
LEMMA TakeWholeKeeps ==
    ASSUME HeapIInv, NEW n \in Requests, n # 0, NEW zero \in BOOLEAN,
           NEW i \in 1 .. Len(freeList), FirstFit(i, align_up(n)),
           TakeWhole(n, zero, i), curr' = curr
    PROVE  HeapIInv'
<1>. DEFINE a == freeList[i]
<1>1. /\ n \in Nat /\ align_up(n) \in Nat /\ n <= align_up(n)
  BY HeapFacts, RequestFacts
<1>2. /\ a \in DOMAIN blocks /\ blocks[a].free /\ a \in Free
      /\ blocks[a].size >= align_up(n)
      /\ Chains(Unlinked(i), Free \ {a})
  BY <1>1, FoundFacts
<1>3. /\ blocks' = [blocks EXCEPT ![a].free = FALSE]
      /\ freeList' = Unlinked(i)
      /\ Grant(n, zero, a, UnlinkWrites(i))
  BY DEF TakeWhole
<1>4. UnlinkWrites(i) \in SUBSET Nat
  BY HeadersAreAddresses
<1>. HIDE DEF a
<1>5. /\ DOMAIN blocks' = DOMAIN blocks
      /\ \A b \in DOMAIN blocks :
            /\ blocks'[b].size = blocks[b].size
            /\ blocks'[b] \in [size : Nat, free : BOOLEAN]
            /\ b # a => blocks'[b] = blocks[b]
      /\ ~blocks'[a].free
  BY <1>2, <1>3, BlockFacts
<1>6. Busy' = Busy \cup {a} /\ Free' = Free \ {a}
  BY <1>2, <1>5 DEF Busy, Free
<1>7. BlocksFine'
  <2>1. curr' \in Nat /\ DOMAIN blocks' \subseteq Nat
        /\ \A b \in DOMAIN blocks' : blocks'[b] \in [size : Nat, free : BOOLEAN]
    BY <1>5, HeapFacts
  <2>2. \A b \in DOMAIN blocks : Follows(b)' = Follows(b)
    BY <1>5 DEF Follows
  <2>3. BlocksTile'
    BY <1>5, <2>2 DEF HeapIInv, HeapIsWhole, BlocksTile
  <2>4. Measured'
    BY <1>5 DEF HeapIInv, Measured
  <2>. QED
    BY <2>1, <2>3, <2>4 DEF BlocksFine
<1>8. FreeListExact' /\ (freeList \in Seq(DOMAIN blocks))'
  <2>1. Chains(freeList', Free')
    BY <1>2, <1>3, <1>6
  <2>. QED
    BY <2>1, ChainIsExact DEF Free, FreeListExact
<1>9. /\ BusyIsGranted'
      /\ DOMAIN granted' \subseteq Nat
      /\ \A p \in DOMAIN granted' : granted'[p] \in Nat
      /\ answer' \in ({"pointer"} \X Nat) \cup ({"bool"} \X BOOLEAN)
      /\ wrote' \subseteq Nat
  <2>1. a \in Nat \ Busy /\ \A b \in Busy : blocks'[b] = blocks[b]
    BY <1>2, <1>5, HeapFacts DEF Busy
  <2>2. blocks'[a].size >= n
    BY <1>1, <1>2, <1>5, BlockFacts
  <2>. QED
    BY <1>1, <1>3, <1>4, <1>6, <2>1, <2>2, GrantFacts
<1>. QED
  BY <1>7, <1>8, <1>9 DEF HeapIInv, TypeOK, HeapIsWhole, BlocksFine

\* Where a block of the list is cut.
LEMMA SplitFacts ==
    ASSUME HeapIInv, NEW a \in DOMAIN blocks, NEW size \in Nat, Aligned(size),
           Splits(a, size),
           NEW rest, rest = PayloadOf(a) + size
    PROVE  /\ rest \in Nat /\ Aligned(rest) /\ rest >= g_heap_start
           /\ a < rest /\ rest = a + HeaderSize + size
           /\ rest \notin DOMAIN blocks
           /\ blocks[a].size - size - HeaderSize \in Nat
           /\ blocks[a].size - size - HeaderSize > 0
           /\ Aligned(blocks[a].size - size - HeaderSize)
           /\ rest + HeaderSize + (blocks[a].size - size - HeaderSize) = Follows(a)
           /\ \A b \in DOMAIN blocks : rest < b => Follows(a) <= b
           /\ \A b \in DOMAIN blocks : b < rest /\ b # a => Follows(b) <= a
<1>1. HeaderSize \in Nat \ {0} /\ HEAP_ALIGN \in Nat \ {0} /\ Aligned(HeaderSize)
  BY HeapAssumption DEF Aligned
<1>2. /\ a \in Nat /\ Aligned(a) /\ a >= g_heap_start
      /\ blocks[a].size \in Nat /\ Aligned(blocks[a].size)
      /\ Follows(a) = a + HeaderSize + blocks[a].size
  BY BlockFacts
<1>3. \A b \in DOMAIN blocks : a < b => Follows(a) <= b
  BY BlockFacts
<1>4. blocks[a].size >= size + HeaderSize + HEAP_ALIGN
  BY DEF Splits
<1>5. rest = a + HeaderSize + size
  BY DEF PayloadOf
<1>. DEFINE s == blocks[a].size
            f == Follows(a)
<1>. HIDE DEF s, f
<1>6. /\ rest \in Nat /\ rest >= g_heap_start /\ a < rest
      /\ s - size - HeaderSize \in Nat /\ s - size - HeaderSize > 0
      /\ rest + HeaderSize + (s - size - HeaderSize) = f
      /\ rest < f /\ f \in Nat
  BY <1>1, <1>2, <1>4, <1>5, HeapBounds DEF s, f
<1>7. Aligned(rest) /\ Aligned(s - size - HeaderSize)
  BY <1>1, <1>2, <1>5, AlignedSums DEF s
<1>8. rest \notin DOMAIN blocks
  BY <1>2, <1>3, <1>6 DEF f
<1>9. \A b \in DOMAIN blocks : rest < b => f <= b
  BY <1>2, <1>3, <1>6, BlockFacts DEF f
<1>10. \A b \in DOMAIN blocks : b < rest /\ b # a => Follows(b) <= a
  <2>. SUFFICES ASSUME NEW b \in DOMAIN blocks, b < rest, b # a PROVE Follows(b) <= a
    OBVIOUS
  <2>1. b \in Nat /\ (b < a => Follows(b) <= a)
    BY BlockFacts
  <2>2. ~ (a < b)
    BY <1>2, <1>3, <1>6, <2>1 DEF f
  <2>. QED
    BY <1>2, <2>1, <2>2
<1>. QED
  BY <1>5, <1>6, <1>7, <1>8, <1>9, <1>10 DEF s, f

\* A block of the list is split: its rest is a free block of its own.
LEMMA TakePartKeeps ==
    ASSUME HeapIInv, NEW n \in Requests, n # 0, NEW zero \in BOOLEAN,
           NEW i \in 1 .. Len(freeList), FirstFit(i, align_up(n)),
           TakePart(n, zero, i), curr' = curr
    PROVE  HeapIInv'
<1>. PICK a, size, rest, left :
        /\ a = freeList[i]
        /\ size = align_up(n)
        /\ rest = PayloadOf(a) + size
        /\ left = blocks[a].size - size - HeaderSize
  OBVIOUS
<1>1. /\ n \in Nat /\ size \in Nat /\ n <= size /\ Aligned(size) /\ size > 0
  BY HeapFacts, RequestFacts
<1>2. /\ a \in DOMAIN blocks /\ blocks[a].free /\ a \in Free
      /\ Chains(Unlinked(i), Free \ {a})
  BY <1>1, FoundFacts
<1>3. /\ blocks' = [b \in DOMAIN blocks \cup {rest} |->
            IF b = rest THEN [size |-> left, free |-> TRUE]
            ELSE IF b = a THEN [size |-> size, free |-> FALSE]
            ELSE blocks[b]]
      /\ freeList' = <<rest>> \o Unlinked(i)
      /\ Grant(n, zero, a, UnlinkWrites(i) \cup Header(rest))
      /\ Splits(a, size)
  BY DEF TakePart
<1>4. /\ rest \in Nat /\ Aligned(rest) /\ rest >= g_heap_start
      /\ a < rest /\ rest = a + HeaderSize + size
      /\ rest \notin DOMAIN blocks
      /\ left \in Nat /\ left > 0 /\ Aligned(left)
      /\ rest + HeaderSize + left = Follows(a)
      /\ \A b \in DOMAIN blocks : rest < b => Follows(a) <= b
      /\ \A b \in DOMAIN blocks : b < rest /\ b # a => Follows(b) <= a
  BY <1>1, <1>2, <1>3, SplitFacts
<1>5. /\ DOMAIN blocks' = DOMAIN blocks \cup {rest}
      /\ blocks'[rest] = [size |-> left, free |-> TRUE]
      /\ blocks'[a] = [size |-> size, free |-> FALSE]
      /\ \A b \in DOMAIN blocks : b # a => blocks'[b] = blocks[b]
  BY <1>2, <1>3, <1>4
<1>6. Busy' = Busy \cup {a} /\ Free' = (Free \ {a}) \cup {rest}
  BY <1>2, <1>4, <1>5 DEF Busy, Free
<1>7. BlocksFine'
  <2>1. HeaderSize \in Nat
    BY HeapAssumption
  <2>2. curr' \in Nat /\ DOMAIN blocks' \subseteq Nat
        /\ \A b \in DOMAIN blocks' : blocks'[b] \in [size : Nat, free : BOOLEAN]
    <3>1. \A b \in DOMAIN blocks : blocks[b] \in [size : Nat, free : BOOLEAN]
      BY BlockFacts
    <3>2. left \in Nat /\ size \in Nat
      BY <1>1, <1>4
    <3>3. /\ blocks'[rest] \in [size : Nat, free : BOOLEAN]
          /\ blocks'[a] \in [size : Nat, free : BOOLEAN]
      BY <1>5, <3>2
    <3>4. \A b \in DOMAIN blocks' : blocks'[b] \in [size : Nat, free : BOOLEAN]
      BY <1>5, <3>1, <3>3, Zenon
    <3>. QED
      BY <1>4, <1>5, <3>4, HeapFacts
  <2>3. /\ Follows(rest)' = Follows(a)
        /\ Follows(a)' = rest
        /\ \A b \in DOMAIN blocks : b # a => Follows(b)' = Follows(b)
    <3>1. blocks'[rest].size = left /\ blocks'[a].size = size
      BY <1>5
    <3>2. Follows(rest)' = rest + HeaderSize + left /\ Follows(a)' = a + HeaderSize + size
      BY <3>1 DEF Follows, PayloadOf
    <3>3. \A b \in DOMAIN blocks : b # a => Follows(b)' = Follows(b)
      BY <1>5 DEF Follows, PayloadOf
    <3>. QED
      BY <1>4, <3>2, <3>3, Zenon
  <2>4. Follows(a) \in Nat /\ Follows(a) <= curr /\ rest <= Follows(a) /\ a \in Nat
    BY <1>2, <1>4, <2>1, BlockFacts
  <2>5. ASSUME NEW b \in DOMAIN blocks'
        PROVE  /\ b >= g_heap_start
               /\ b % HEAP_ALIGN = 0
               /\ Follows(b)' <= curr
               /\ Follows(b)' = curr \/ Follows(b)' \in DOMAIN blocks'
               /\ \A c \in DOMAIN blocks' : b < c => Follows(b)' <= c
    <3>1. CASE b = rest
      <4>1. Follows(a) = curr \/ Follows(a) \in DOMAIN blocks
        BY <1>2, BlockFacts
      <4>2. \A c \in DOMAIN blocks' : rest < c => Follows(a) <= c
        BY <1>4, <1>5
      <4>3. Follows(b)' = Follows(a)
        BY <2>3, <3>1, Zenon
      <4>. QED
        BY <1>4, <1>5, <2>4, <3>1, <4>1, <4>2, <4>3 DEF Aligned
    <3>2. CASE b = a
      <4>1. \A c \in DOMAIN blocks' : a < c => rest <= c
        BY <1>2, <1>4, <1>5, <2>4, BlockFacts, HeapFacts
      <4>2. a >= g_heap_start /\ Aligned(a)
        BY <1>2, BlockFacts
      <4>3. rest <= curr
        BY <1>4, <2>4, HeapFacts
      <4>4. Follows(b)' = rest
        BY <2>3, <3>2, Zenon
      <4>. QED
        BY <1>5, <3>2, <4>1, <4>2, <4>3, <4>4 DEF Aligned
    <3>3. CASE b \in DOMAIN blocks /\ b # a
      <4>1. /\ b >= g_heap_start /\ Aligned(b) /\ Follows(b) <= curr
            /\ Follows(b) = curr \/ Follows(b) \in DOMAIN blocks
            /\ \A c \in DOMAIN blocks : b < c => Follows(b) <= c
            /\ Follows(b) \in Nat
        BY <3>3, BlockFacts
      <4>2. b < rest => Follows(b) <= rest
        BY <1>4, <2>4, <3>3, <4>1
      <4>3. Follows(b)' = Follows(b)
        BY <2>3, <3>3, Zenon
      <4>. QED
        BY <1>5, <3>3, <4>1, <4>2, <4>3 DEF Aligned
    <3>. QED
      BY <1>5, <3>1, <3>2, <3>3
  <2>6. BlocksTile'
    <3>1. (curr = g_heap_start \/ g_heap_start \in DOMAIN blocks') /\ curr <= g_heap_end
      BY <1>5, HeapFacts
    <3>. QED
      BY <2>5, <3>1 DEF BlocksTile
  <2>7. Measured'
    <3>1. \A b \in DOMAIN blocks : Aligned(blocks[b].size) /\ blocks[b].size > 0
      BY BlockFacts
    <3>2. \A b \in DOMAIN blocks' : Aligned(blocks'[b].size) /\ blocks'[b].size > 0
      BY <1>1, <1>4, <1>5, <3>1
    <3>. QED
      BY <3>2, HeapFacts DEF Measured
  <2>. QED
    BY <2>2, <2>6, <2>7 DEF BlocksFine
<1>8. FreeListExact' /\ (freeList \in Seq(DOMAIN blocks))'
  <2>1. rest \notin Free \ {a}
    BY <1>4 DEF Free
  <2>2. Chains(freeList', Free')
    BY <1>2, <1>3, <1>6, <2>1, ChainWith
  <2>. QED
    BY <2>2, ChainIsExact DEF Free, FreeListExact
<1>9. /\ BusyIsGranted'
      /\ DOMAIN granted' \subseteq Nat
      /\ \A p \in DOMAIN granted' : granted'[p] \in Nat
      /\ answer' \in ({"pointer"} \X Nat) \cup ({"bool"} \X BOOLEAN)
      /\ wrote' \subseteq Nat
  <2>1. a \in Nat \ Busy /\ \A b \in Busy : blocks'[b] = blocks[b]
    BY <1>2, <1>5, HeapFacts DEF Busy
  <2>2. blocks'[a].size >= n
    BY <1>1, <1>5
  <2>3. UnlinkWrites(i) \cup Header(rest) \in SUBSET Nat
    <3>1. Header(rest) \subseteq Nat
      BY <1>4, HeapAssumption DEF Header, Region
    <3>. QED
      BY <3>1, HeadersAreAddresses
  <2>. QED
    BY <1>1, <1>3, <1>6, <2>1, <2>2, <2>3, GrantFacts
<1>. QED
  BY <1>7, <1>8, <1>9 DEF HeapIInv, TypeOK, HeapIsWhole, BlocksFine

\* No block starts where the next one will be cut.
LEMMA NoBlockAtCurr ==
    ASSUME HeapIInv
    PROVE  \A b \in DOMAIN blocks : b < curr
<1>. SUFFICES ASSUME NEW b \in DOMAIN blocks PROVE b < curr
  OBVIOUS
<1>1. /\ b \in Nat /\ blocks[b].size \in Nat /\ blocks[b].size > 0
      /\ Follows(b) = b + HeaderSize + blocks[b].size /\ Follows(b) <= curr
  BY BlockFacts
<1>. QED
  BY <1>1, HeapFacts, HeapAssumption

\* A block is cut from fresh memory.
LEMMA BumpKeeps ==
    ASSUME HeapIInv, NEW n \in Requests, n # 0, NEW zero \in BOOLEAN, Bump(n, zero)
    PROVE  HeapIInv'
<1>. PICK size, a : size = align_up(n) /\ a = curr
  OBVIOUS
<1>1. /\ n \in Nat /\ size \in Nat /\ n <= size /\ Aligned(size) /\ size > 0
      /\ align_up(curr) = a /\ EndIfBumped(size) = a + HeaderSize + size
      /\ a \in Nat /\ Aligned(a) /\ g_heap_start <= a /\ g_heap_start \in Nat
  BY HeapFacts, HeapBounds, RequestFacts
<1>2. /\ curr' = a + HeaderSize + size
      /\ curr' <= g_heap_end
      /\ blocks' = [b \in DOMAIN blocks \cup {a} |->
            IF b = a THEN [size |-> size, free |-> FALSE] ELSE blocks[b]]
      /\ freeList' = freeList
      /\ Grant(n, zero, a, Header(a))
  BY <1>1, Zenon DEF Bump
<1>3. \A b \in DOMAIN blocks : b < a
  BY NoBlockAtCurr
<1>4. /\ DOMAIN blocks' = DOMAIN blocks \cup {a}
      /\ blocks'[a] = [size |-> size, free |-> FALSE]
      /\ \A b \in DOMAIN blocks : blocks'[b] = blocks[b]
      /\ a \notin DOMAIN blocks
  BY <1>1, <1>2, <1>3
<1>5. Busy' = Busy \cup {a} /\ Free' = Free
  BY <1>4 DEF Busy, Free
<1>6. HeaderSize \in Nat \ {0} /\ Aligned(HeaderSize)
  BY HeapAssumption DEF Aligned
<1>7. BlocksFine'
  <2>1. curr' \in Nat /\ DOMAIN blocks' \subseteq Nat /\ a < curr'
    BY <1>1, <1>2, <1>4, <1>6, HeapFacts
  <2>2. \A b \in DOMAIN blocks' : blocks'[b] \in [size : Nat, free : BOOLEAN]
    <3>1. \A b \in DOMAIN blocks : blocks[b] \in [size : Nat, free : BOOLEAN]
      BY BlockFacts
    <3>2. blocks'[a] \in [size : Nat, free : BOOLEAN]
      BY <1>1, <1>4
    <3>. QED
      BY <1>4, <3>1, <3>2, Zenon
  <2>3. ASSUME NEW b \in DOMAIN blocks'
        PROVE  /\ b >= g_heap_start
               /\ b % HEAP_ALIGN = 0
               /\ Follows(b)' <= curr'
               /\ Follows(b)' = curr' \/ Follows(b)' \in DOMAIN blocks'
               /\ \A c \in DOMAIN blocks' : b < c => Follows(b)' <= c
    <3>1. CASE b = a
      <4>1. blocks'[b].size = size
        BY <1>4, <3>1
      <4>2. Follows(b)' = curr'
        BY <1>2, <3>1, <4>1 DEF Follows, PayloadOf
      <4>3. \A c \in DOMAIN blocks' : ~ (a < c)
        BY <1>1, <1>3, <1>4, HeapFacts
      <4>. QED
        BY <1>1, <2>1, <3>1, <4>2, <4>3 DEF Aligned
    <3>2. CASE b \in DOMAIN blocks
      <4>1. /\ b >= g_heap_start /\ Aligned(b) /\ Follows(b) <= a
            /\ Follows(b) = a \/ Follows(b) \in DOMAIN blocks
            /\ \A c \in DOMAIN blocks : b < c => Follows(b) <= c
            /\ Follows(b) \in Nat
        BY <3>2, BlockFacts
      <4>2. Follows(b)' = Follows(b)
        BY <1>4, <3>2 DEF Follows, PayloadOf
      <4>3. Follows(b) <= curr'
        BY <1>1, <2>1, <4>1
      <4>. QED
        BY <1>4, <4>1, <4>2, <4>3 DEF Aligned
    <3>. QED
      BY <1>4, <3>1, <3>2
  <2>4. BlocksTile'
    <3>1. g_heap_start \in DOMAIN blocks'
      BY <1>4, HeapFacts
    <3>. QED
      BY <1>2, <2>3, <3>1 DEF BlocksTile
  <2>5. Measured'
    <3>1. \A b \in DOMAIN blocks : Aligned(blocks[b].size) /\ blocks[b].size > 0
      BY BlockFacts
    <3>2. \A b \in DOMAIN blocks' : Aligned(blocks'[b].size) /\ blocks'[b].size > 0
      BY <1>1, <1>4, <3>1
    <3>3. Aligned(curr')
      BY <1>1, <1>2, <1>6, AlignedSums
    <3>4. g_heap_start <= curr'
      BY <1>1, <2>1
    <3>. QED
      BY <3>2, <3>3, <3>4 DEF Measured
  <2>. QED
    BY <2>1, <2>2, <2>4, <2>5 DEF BlocksFine
<1>8. FreeListExact' /\ (freeList \in Seq(DOMAIN blocks))'
  <2>1. Chains(freeList', Free')
    BY <1>2, <1>5, HeapFacts
  <2>. QED
    BY <2>1, ChainIsExact DEF Free, FreeListExact
<1>9. /\ BusyIsGranted'
      /\ DOMAIN granted' \subseteq Nat
      /\ \A p \in DOMAIN granted' : granted'[p] \in Nat
      /\ answer' \in ({"pointer"} \X Nat) \cup ({"bool"} \X BOOLEAN)
      /\ wrote' \subseteq Nat
  <2>1. a \in Nat \ Busy /\ \A b \in Busy : blocks'[b] = blocks[b]
    BY <1>1, <1>4 DEF Busy
  <2>2. blocks'[a].size >= n
    BY <1>1, <1>4
  <2>3. Header(a) \in SUBSET Nat
    BY <1>1, <1>6 DEF Header, Region
  <2>. QED
    BY <1>1, <1>2, <1>5, <2>1, <2>2, <2>3, GrantFacts
<1>. QED
  BY <1>7, <1>8, <1>9 DEF HeapIInv, TypeOK, HeapIsWhole, BlocksFine

\* A block is given back: it goes to the head of the list.
LEMMA FreeKeeps ==
    ASSUME HeapIInv, NEW p \in Pointers, Accepts(p), kfree(p)
    PROVE  HeapIInv'
<1>. PICK a : a = p - HeaderSize
  OBVIOUS
<1>1. /\ a \in DOMAIN blocks /\ ~blocks[a].free /\ p \in Nat
      /\ HeaderSize \in Nat \ {0} /\ p = PayloadOf(a) /\ a \in Nat
  BY HeapAssumption, HeapFacts DEF Accepts, PayloadOf
<1>2. /\ blocks' = [blocks EXCEPT ![a].free = TRUE]
      /\ freeList' = <<a>> \o freeList
      /\ granted' = [q \in DOMAIN granted \ {p} |-> granted[q]]
      /\ answer' = Verdict(TRUE)
      /\ wrote' = Header(a)
      /\ curr' = curr
  BY DEF kfree
<1>3. /\ DOMAIN blocks' = DOMAIN blocks
      /\ \A b \in DOMAIN blocks :
            /\ blocks'[b].size = blocks[b].size
            /\ blocks'[b] \in [size : Nat, free : BOOLEAN]
            /\ b # a => blocks'[b] = blocks[b]
      /\ blocks'[a].free
  BY <1>1, <1>2, BlockFacts
<1>4. Busy' = Busy \ {a} /\ Free' = Free \cup {a} /\ a \in Busy /\ a \notin Free
  BY <1>1, <1>3 DEF Busy, Free
<1>5. BlocksFine'
  <2>1. curr' \in Nat /\ DOMAIN blocks' \subseteq Nat
        /\ \A b \in DOMAIN blocks' : blocks'[b] \in [size : Nat, free : BOOLEAN]
    BY <1>2, <1>3, HeapFacts
  <2>2. \A b \in DOMAIN blocks : Follows(b)' = Follows(b)
    BY <1>3 DEF Follows
  <2>3. BlocksTile'
    BY <1>2, <1>3, <2>2 DEF HeapIInv, HeapIsWhole, BlocksTile
  <2>4. Measured'
    BY <1>2, <1>3 DEF HeapIInv, Measured
  <2>. QED
    BY <2>1, <2>3, <2>4 DEF BlocksFine
<1>6. FreeListExact' /\ (freeList \in Seq(DOMAIN blocks))'
  <2>1. Chains(freeList', Free')
    BY <1>2, <1>4, HeapFacts, ChainWith
  <2>. QED
    BY <2>1, ChainIsExact DEF Free, FreeListExact
<1>7. BusyIsGranted'
  <2>1. /\ DOMAIN granted = {PayloadOf(b) : b \in Busy}
        /\ \A b \in Busy : granted[PayloadOf(b)] <= blocks[b].size
    BY HeapFacts
  <2>2. Busy \subseteq Nat
    BY HeapFacts DEF Busy
  <2>3. \A b \in Busy : b # a => PayloadOf(b) # p
    BY <1>1, <2>2 DEF PayloadOf
  <2>4. DOMAIN granted' = {PayloadOf(b) : b \in Busy'}
    BY <1>1, <1>2, <1>4, <2>1, <2>3
  <2>5. \A b \in Busy' : granted'[PayloadOf(b)] <= blocks'[b].size
    <3>. SUFFICES ASSUME NEW b \in Busy' PROVE granted'[PayloadOf(b)] <= blocks'[b].size
      OBVIOUS
    <3>1. b \in Busy /\ b # a /\ b \in DOMAIN blocks
      BY <1>4 DEF Busy
    <3>2. PayloadOf(b) \in DOMAIN granted \ {p}
      BY <2>1, <2>3, <3>1
    <3>3. granted'[PayloadOf(b)] = granted[PayloadOf(b)] /\ blocks'[b] = blocks[b]
      BY <1>2, <1>3, <3>1, <3>2
    <3>. QED
      BY <2>1, <3>1, <3>3
  <2>. QED
    BY <2>4, <2>5 DEF BusyIsGranted, Busy
<1>8. /\ DOMAIN granted' \subseteq Nat
      /\ \A q \in DOMAIN granted' : granted'[q] \in Nat
      /\ answer' \in ({"pointer"} \X Nat) \cup ({"bool"} \X BOOLEAN)
      /\ wrote' \subseteq Nat
  <2>1. DOMAIN granted \subseteq Nat /\ \A q \in DOMAIN granted : granted[q] \in Nat
    BY DEF HeapIInv, TypeOK
  <2>2. Header(a) \subseteq Nat
    BY <1>1 DEF Header, Region
  <2>. QED
    BY <1>2, <2>1, <2>2 DEF Verdict
<1>. QED
  BY <1>5, <1>6, <1>7, <1>8 DEF HeapIInv, TypeOK, HeapIsWhole, BlocksFine

\* A call that only answers leaves the heap as it is.
LEMMA AnswerKeeps ==
    ASSUME HeapIInv, UNCHANGED <<curr, blocks, freeList, granted>>,
           answer' \in ({"pointer"} \X Nat) \cup ({"bool"} \X BOOLEAN), wrote' \subseteq Nat
    PROVE  HeapIInv'
BY DEF HeapIInv, TypeOK, HeapIsWhole, BlocksTile, FreeListExact, BusyIsGranted,
       Measured, Follows

\* An empty heap satisfies the invariant.
LEMMA InitHeap == Init => HeapIInv
<1>. SUFFICES ASSUME Init PROVE HeapIInv
  OBVIOUS
<1>1. DOMAIN blocks = {} /\ DOMAIN granted = {} /\ Len(freeList) = 0
      /\ freeList \in Seq(DOMAIN blocks) /\ wrote = {} /\ curr = g_heap_start
  BY DEF Init
<1>2. answer \in {"pointer"} \X Nat
  BY DEF Init, Pointer, NULL
<1>3. TypeOK
  BY <1>1, <1>2, HeapBounds DEF TypeOK
<1>4. HeapIsWhole
  BY <1>1, HeapBounds DEF HeapIsWhole, BlocksTile, FreeListExact, BusyIsGranted
<1>5. Measured
  BY <1>1, HeapBounds DEF Measured
<1>. QED
  BY <1>3, <1>4, <1>5 DEF HeapIInv

\* Every step keeps the invariant.
LEMMA NextHeap == HeapIInv /\ [Next]_vars => HeapIInv'
<1>. SUFFICES ASSUME HeapIInv, [Next]_vars PROVE HeapIInv'
  OBVIOUS
<1>1. ASSUME NEW n \in Requests, NEW zero \in BOOLEAN, kmalloc(n, zero)
      PROVE  HeapIInv'
  <2>1. CASE Refuse(n)
    <3>1. answer' \in {"pointer"} \X Nat /\ wrote' = {}
      BY <2>1 DEF Refuse, Pointer, NULL
    <3>. QED
      BY <2>1, <3>1, AnswerKeeps DEF Refuse
  <2>2. CASE n # 0 /\ TakeFree(n, zero)
    BY <2>2, TakeWholeKeeps, TakePartKeeps DEF TakeFree
  <2>3. CASE n # 0 /\ Bump(n, zero)
    BY <2>3, BumpKeeps
  <2>. QED
    BY <1>1, <2>1, <2>2, <2>3 DEF kmalloc
<1>2. ASSUME NEW p \in Pointers, kfree(p)
      PROVE  HeapIInv'
  <2>1. CASE Accepts(p)
    BY <1>2, <2>1, FreeKeeps
  <2>2. CASE ~Accepts(p)
    <3>1. UNCHANGED <<curr, blocks, freeList, granted>> /\ wrote' = {}
          /\ answer' = Verdict(FALSE)
      BY <1>2, <2>2 DEF kfree
    <3>. QED
      BY <3>1, AnswerKeeps DEF Verdict
  <2>. QED
    BY <2>1, <2>2
<1>3. CASE UNCHANGED vars
  BY <1>3, AnswerKeeps DEF vars, HeapIInv, TypeOK
<1>. QED
  BY <1>1, <1>2, <1>3 DEF Next

\* The invariant holds throughout.
LEMMA HeapAlways == Spec => []HeapIInv
  BY InitHeap, NextHeap, PTL DEF Spec

\* The state of the heap always has its types.
THEOREM HeapTypes == Spec => []TypeOK
<1>1. HeapIInv => TypeOK
  BY DEF HeapIInv
<1>. QED
  BY <1>1, HeapAlways, PTL

\* Whatever is asked for and given back, blocks tile the heap, the list holds
\* every free block once, and every other block has exactly one owner.
THEOREM HeapStaysWhole == Spec => []HeapIsWhole
<1>1. HeapIInv => HeapIsWhole
  BY DEF HeapIInv
<1>. QED
  BY <1>1, HeapAlways, PTL

-----------------------------------------------------------------------------
(* What a call writes *)

\* Two blocks do not overlap.
LEMMA BlocksApart ==
    ASSUME HeapIInv, NEW a \in DOMAIN blocks, NEW b \in DOMAIN blocks, a # b
    PROVE  Follows(a) <= b \/ Follows(b) <= a
<1>1. a \in Nat /\ b \in Nat
  BY HeapFacts
<1>2. (a < b => Follows(a) <= b) /\ (b < a => Follows(b) <= a)
  BY BlockFacts
<1>. QED
  BY <1>1, <1>2

\* What a client holds lies in the payload of a busy block.
LEMMA HeldFacts ==
    ASSUME HeapIInv, NEW p \in DOMAIN granted
    PROVE  \E a \in Busy :
              /\ p = PayloadOf(a) /\ p = a + HeaderSize /\ a \in DOMAIN blocks
              /\ granted[p] \in Nat /\ a \in Nat /\ Follows(a) \in Nat
              /\ p + granted[p] <= Follows(a)
<1>1. PICK a \in Busy : p = PayloadOf(a)
  BY HeapFacts
<1>2. a \in DOMAIN blocks
  BY DEF Busy
<1>3. /\ a \in Nat /\ blocks[a].size \in Nat /\ Follows(a) \in Nat
      /\ Follows(a) = a + HeaderSize + blocks[a].size
  BY <1>2, BlockFacts
<1>4. granted[p] <= blocks[a].size /\ granted[p] \in Nat
  BY <1>1, HeapFacts
<1>5. p = a + HeaderSize /\ HeaderSize \in Nat
  BY <1>1, HeapAssumption DEF PayloadOf
<1>6. p + granted[p] <= Follows(a)
  BY <1>3, <1>4, <1>5
<1>. QED
  BY <1>1, <1>2, <1>3, <1>4, <1>5, <1>6

\* A region that ends before the payload of a busy block, or starts after its
\* block, holds nothing of what the client of that block was given.
OutOf(lo, k, a) == lo + k <= PayloadOf(a) \/ Follows(a) <= lo

LEMMA OutOfReach ==
    ASSUME HeapIInv, NEW lo \in Nat, NEW k \in Nat, \A a \in Busy : OutOf(lo, k, a),
           NEW p \in DOMAIN granted
    PROVE  Region(lo, k) \cap Region(p, granted[p]) = {}
<1>1. PICK a \in Busy :
              /\ p = PayloadOf(a) /\ p = a + HeaderSize /\ a \in DOMAIN blocks
              /\ granted[p] \in Nat /\ a \in Nat /\ Follows(a) \in Nat
              /\ p + granted[p] <= Follows(a)
  BY HeldFacts
<1>. DEFINE g == granted[p]
            f == Follows(a)
<1>2. lo + k <= p \/ f <= lo
  <2>1. OutOf(lo, k, a) /\ PayloadOf(a) = p
    BY <1>1
  <2>. QED
    BY <2>1 DEF OutOf
<1>3. g \in Nat /\ f \in Nat /\ p + g <= f
  BY <1>1
<1>4. p \in Nat
  BY <1>1, HeapAssumption
<1>. HIDE DEF g, f
<1>5. Region(lo, k) \cap Region(p, g) = {}
  BY <1>2, <1>3, <1>4 DEF Region
<1>. QED
  BY <1>5 DEF g

\* What lies inside a block that no client holds is out of reach.
LEMMA FreeBlockOutOfReach ==
    ASSUME HeapIInv, NEW b \in Free, NEW lo \in Nat, NEW k \in Nat,
           b <= lo, lo + k <= Follows(b), NEW p \in DOMAIN granted
    PROVE  Region(lo, k) \cap Region(p, granted[p]) = {}
<1>1. HeaderSize \in Nat /\ b \in DOMAIN blocks /\ b \in Nat /\ Follows(b) \in Nat
  BY HeapAssumption, BlockFacts DEF Free
<1>2. ASSUME NEW a \in Busy PROVE OutOf(lo, k, a)
  <2>1. a \in DOMAIN blocks /\ a # b /\ a \in Nat /\ Follows(a) \in Nat
    BY BlockFacts DEF Busy, Free
  <2>2. Follows(a) <= b \/ Follows(b) <= a
    BY <1>1, <2>1, BlocksApart
  <2>. QED
    BY <1>1, <2>1, <2>2 DEF OutOf, PayloadOf
<1>. QED
  BY <1>2, OutOfReach

\* So is fresh memory.
LEMMA FreshOutOfReach ==
    ASSUME HeapIInv, NEW lo \in Nat, NEW k \in Nat, curr <= lo,
           NEW p \in DOMAIN granted
    PROVE  Region(lo, k) \cap Region(p, granted[p]) = {}
<1>1. ASSUME NEW a \in Busy PROVE OutOf(lo, k, a)
  <2>1. Follows(a) <= curr /\ Follows(a) \in Nat
    BY BlockFacts DEF Busy
  <2>. QED
    BY <2>1, HeapFacts DEF OutOf
<1>. QED
  BY <1>1, OutOfReach

\* And so are the headers of all blocks.
LEMMA HeaderOutOfReach ==
    ASSUME HeapIInv, NEW b \in DOMAIN blocks, NEW p \in DOMAIN granted
    PROVE  Header(b) \cap Region(p, granted[p]) = {}
<1>1. HeaderSize \in Nat /\ b \in Nat
  BY HeapAssumption, HeapFacts
<1>2. ASSUME NEW a \in Busy PROVE OutOf(b, HeaderSize, a)
  <2>1. a \in DOMAIN blocks /\ a \in Nat
    BY HeapFacts DEF Busy
  <2>2. CASE a = b
    BY <1>1, <2>2 DEF OutOf, PayloadOf
  <2>3. CASE a # b
    <3>1. Follows(a) <= b \/ Follows(b) <= a
      BY <2>1, <2>3, BlocksApart
    <3>2. /\ Follows(b) = b + HeaderSize + blocks[b].size
          /\ blocks[b].size \in Nat /\ Follows(b) \in Nat
      BY BlockFacts
    <3>3. Follows(b) <= a => b + HeaderSize <= PayloadOf(a)
      BY <1>1, <2>1, <3>2 DEF PayloadOf
    <3>. QED
      BY <3>1, <3>3 DEF OutOf
  <2>. QED
    BY <2>2, <2>3
<1>3. Region(b, HeaderSize) \cap Region(p, granted[p]) = {}
  BY <1>1, <1>2, OutOfReach
<1>. QED
  BY <1>3 DEF Header

\* Unlinking writes headers only.
LEMMA UnlinkOutOfReach ==
    ASSUME HeapIInv, NEW i \in 1 .. Len(freeList), NEW p \in DOMAIN granted
    PROVE  UnlinkWrites(i) \cap Region(p, granted[p]) = {}
<1>1. \A j \in 1 .. Len(freeList) : freeList[j] \in DOMAIN blocks
  BY HeapFacts
<1>2. Header(freeList[i]) \cap Region(p, granted[p]) = {}
  BY <1>1, HeaderOutOfReach
<1>3. i # 1 => Header(freeList[i - 1]) \cap Region(p, granted[p]) = {}
  <2>1. i # 1 => i - 1 \in 1 .. Len(freeList)
    BY HeapFacts
  <2>. QED
    BY <1>1, <2>1, HeaderOutOfReach
<1>. QED
  BY <1>2, <1>3 DEF UnlinkWrites

OwnWrites ==
    \A p \in DOMAIN granted \cap DOMAIN granted' :
        wrote' \cap Region(p, granted[p]) = {}

\* No step writes into what a client keeps.
LEMMA StepWritesOwn ==
    ASSUME HeapIInv, Next
    PROVE  OwnWrites
<1>. USE DEF OwnWrites
<1>0. HeaderSize \in Nat
  BY HeapAssumption
<1>1. ASSUME NEW n \in Requests, n # 0, NEW zero \in BOOLEAN,
             NEW i \in 1 .. Len(freeList), FirstFit(i, align_up(n)),
             TakeWhole(n, zero, i) \/ TakePart(n, zero, i)
      PROVE  OwnWrites
  <2>. PICK a, size, rest, payload :
               /\ a = freeList[i] /\ size = align_up(n)
               /\ rest = PayloadOf(a) + size /\ payload = a + HeaderSize
    OBVIOUS
  <2>. DEFINE was == blocks[a].size
              end == Follows(a)
  <2>1. /\ n \in Nat /\ size \in Nat /\ n <= size /\ Aligned(size)
    BY <1>1, HeapFacts, RequestFacts
  <2>2. a \in Free /\ a \in DOMAIN blocks /\ a \in Nat /\ blocks[a].size >= size
    BY <1>1, <2>1, FoundFacts, HeapFacts
  <2>3. /\ Follows(a) = a + HeaderSize + blocks[a].size /\ Follows(a) \in Nat
        /\ blocks[a].size \in Nat
    BY <2>2, BlockFacts
  <2>. SUFFICES ASSUME NEW p \in DOMAIN granted PROVE wrote' \cap Region(p, granted[p]) = {}
    OBVIOUS
  <2>4. Region(PayloadOf(a), n) \cap Region(p, granted[p]) = {}
    <3>. HIDE DEF was, end
    <3>1. payload \in Nat /\ a <= payload /\ payload + n <= end
      <4>1. end = payload + was /\ n <= was
        BY <1>0, <2>1, <2>2, <2>3 DEF was, end
      <4>. QED
        BY <1>0, <2>1, <2>2, <2>3, <4>1 DEF was
    <3>2. Region(payload, n) \cap Region(p, granted[p]) = {}
      BY <2>1, <2>2, <3>1, FreeBlockOutOfReach DEF end
    <3>. QED
      BY <3>2 DEF PayloadOf
  <2>5. UnlinkWrites(i) \cap Region(p, granted[p]) = {}
    BY UnlinkOutOfReach
  <2>6. CASE TakeWhole(n, zero, i)
    <3>1. Grant(n, zero, a, UnlinkWrites(i))
      BY <2>6 DEF TakeWhole
    <3>. QED
      BY <2>4, <2>5, <3>1 DEF Grant
  <2>7. CASE TakePart(n, zero, i)
    <3>1. Grant(n, zero, a, UnlinkWrites(i) \cup Header(rest)) /\ Splits(a, size)
      BY <2>7 DEF TakePart
    <3>2. /\ rest \in Nat /\ a < rest
          /\ blocks[a].size - size - HeaderSize > 0
          /\ rest + HeaderSize + (blocks[a].size - size - HeaderSize) = Follows(a)
      BY <2>1, <2>2, <3>1, SplitFacts
    <3>. PICK left : left = was - size - HeaderSize
      OBVIOUS
    <3>3. left > 0 /\ rest + HeaderSize + left = end /\ left \in Int
      <4>1. was - size - HeaderSize \in Int
        BY <1>0, <2>1, <2>3
      <4>. QED
        BY <3>2, <4>1
    <3>. HIDE DEF was, end
    <3>4. a <= rest /\ rest + HeaderSize <= end
      BY <1>0, <2>2, <3>2, <3>3
    <3>5. Header(rest) \cap Region(p, granted[p]) = {}
      BY <1>0, <2>2, <3>2, <3>4, FreeBlockOutOfReach DEF end, Header
    <3>. QED
      BY <2>4, <2>5, <3>1, <3>5 DEF Grant
  <2>. QED
    BY <1>1, <2>6, <2>7
<1>2. ASSUME NEW n \in Requests, n # 0, NEW zero \in BOOLEAN, Bump(n, zero)
      PROVE  OwnWrites
  <2>. SUFFICES ASSUME NEW p \in DOMAIN granted PROVE wrote' \cap Region(p, granted[p]) = {}
    OBVIOUS
  <2>1. n \in Nat /\ align_up(curr) = curr /\ curr \in Nat
    BY HeapFacts, RequestFacts
  <2>2. Grant(n, zero, curr, Header(curr))
    BY <1>2, <2>1 DEF Bump
  <2>3. Header(curr) \cap Region(p, granted[p]) = {}
    BY <1>0, <2>1, FreshOutOfReach DEF Header
  <2>. PICK payload : payload = curr + HeaderSize
    OBVIOUS
  <2>4. payload \in Nat /\ curr <= payload
    BY <1>0, <2>1
  <2>5. Region(payload, n) \cap Region(p, granted[p]) = {}
    BY <2>1, <2>4, FreshOutOfReach
  <2>6. Region(PayloadOf(curr), n) \cap Region(p, granted[p]) = {}
    BY <2>5 DEF PayloadOf
  <2>. QED
    BY <2>2, <2>3, <2>6 DEF Grant
<1>3. ASSUME NEW n \in Requests, NEW zero \in BOOLEAN, kmalloc(n, zero)
      PROVE  OwnWrites
  <2>1. CASE Refuse(n)
    BY <2>1 DEF Refuse
  <2>2. CASE n # 0 /\ TakeFree(n, zero)
    BY <1>1, <2>2 DEF TakeFree
  <2>. QED
    BY <1>2, <1>3, <2>1, <2>2 DEF kmalloc
<1>4. ASSUME NEW p \in Pointers, kfree(p)
      PROVE  OwnWrites
  <2>1. CASE ~Accepts(p)
    BY <1>4, <2>1 DEF kfree
  <2>2. CASE Accepts(p)
    <3>1. p - HeaderSize \in DOMAIN blocks /\ wrote' = Header(p - HeaderSize)
      BY <1>4, <2>2 DEF kfree, Accepts
    <3>. QED
      BY <3>1, HeaderOutOfReach
  <2>. QED
    BY <2>1, <2>2
<1>. QED
  BY <1>3, <1>4 DEF Next

\* No call writes into memory that a client held before it and holds after it.
THEOREM CallsWriteTheirOwn == Spec => WritesOwn
<1>1. HeapIInv /\ [Next]_vars => [OwnWrites]_vars
  BY StepWritesOwn
<1>. QED
  BY <1>1, HeapAlways, PTL DEF Spec, WritesOwn, OwnWrites

-----------------------------------------------------------------------------
(* Free blocks first *)

FreeServeFirst ==
    \A n \in Requests \ {0} :
       (\E zero \in BOOLEAN : kmalloc(n, zero)) /\ (answer' = Pointer(NULL) \/ curr' # curr) =>
          /\ \A a \in DOMAIN blocks : blocks[a].free => blocks[a].size < n
          /\ answer' = Pointer(NULL) =>
                heap_bytes_total - heap_bytes_used < HeaderSize + align_up(n)

\* A grant is never the null pointer.
LEMMA GrantIsNotNull ==
    ASSUME NEW a \in Nat, NEW n, NEW zero, NEW headers, Grant(n, zero, a, headers)
    PROVE  answer' # Pointer(NULL)
<1>1. PayloadOf(a) # NULL
  BY HeapAssumption DEF PayloadOf, NULL
<1>. QED
  BY <1>1 DEF Grant, Pointer

\* No free block is large enough when none fits the rounded request: blocks and
\* rounded requests are multiples of HEAP_ALIGN.
LEMMA NoFitIsNone ==
    ASSUME HeapIInv, NEW n \in Requests, NoFit(align_up(n)),
           NEW a \in DOMAIN blocks, blocks[a].free
    PROVE  blocks[a].size < n
<1>. DEFINE size == blocks[a].size
            up == align_up(n)
<1>1. n \in Nat /\ up \in Nat /\ Aligned(up) /\ up < n + HEAP_ALIGN
  BY HeapFacts, RequestFacts
<1>2. size \in Nat /\ Aligned(size)
  BY BlockFacts
<1>3. ~ (size >= up)
  <2>1. Chains(freeList, Free) /\ a \in Free
    BY HeapFacts DEF Free
  <2>2. PICK i \in 1 .. Len(freeList) : freeList[i] = a
    BY <2>1, ChainFacts, Zenon
  <2>. QED
    BY <2>2 DEF NoFit, Fits
<1>. HIDE DEF size, up
<1>4. ~ (size + HEAP_ALIGN > up)
  BY <1>1, <1>2, <1>3, AlignedGap
<1>5. size < n
  BY <1>1, <1>2, <1>4, HeapAssumption
<1>. QED
  BY <1>5 DEF size

\* Every call of kmalloc looks through the whole list before it bumps or refuses.
LEMMA StepServesFreeFirst ==
    ASSUME HeapIInv
    PROVE  FreeServeFirst
<1>. SUFFICES ASSUME NEW n \in Requests \ {0}, NEW zero \in BOOLEAN, kmalloc(n, zero),
                     answer' = Pointer(NULL) \/ curr' # curr
              PROVE  /\ NoFit(align_up(n))
                     /\ answer' = Pointer(NULL) =>
                          heap_bytes_total - heap_bytes_used < HeaderSize + align_up(n)
  BY NoFitIsNone DEF FreeServeFirst
<1>1. /\ align_up(curr) = curr /\ curr \in Nat /\ align_up(n) \in Nat
      /\ EndIfBumped(align_up(n)) = curr + HeaderSize + align_up(n)
  BY HeapFacts, RequestFacts
<1>2. CASE Refuse(n)
  <2>1. NoFit(align_up(n)) /\ EndIfBumped(align_up(n)) > g_heap_end
    BY <1>2 DEF Refuse
  <2>. DEFINE up == align_up(n)
  <2>2. up \in Nat /\ curr + HeaderSize + up > g_heap_end /\ HeaderSize \in Nat
    BY <1>1, <2>1, HeapAssumption
  <2>. HIDE DEF up
  <2>3. (g_heap_end - g_heap_start) - (curr - g_heap_start) < HeaderSize + up
    BY <1>1, <2>2, HeapBounds
  <2>. QED
    BY <2>1, <2>3 DEF up, heap_bytes_total, heap_bytes_used
<1>3. ~TakeFree(n, zero)
  <2>. SUFFICES ASSUME NEW i \in 1 .. Len(freeList),
                       TakeWhole(n, zero, i) \/ TakePart(n, zero, i), UNCHANGED curr
                PROVE  FALSE
    BY DEF TakeFree
  <2>1. freeList[i] \in Nat
    BY HeapFacts
  <2>2. \E headers : Grant(n, zero, freeList[i], headers)
    BY DEF TakeWhole, TakePart
  <2>3. answer' # Pointer(NULL)
    BY <2>1, <2>2, GrantIsNotNull
  <2>. QED
    BY <2>3
<1>4. CASE Bump(n, zero)
  <2>1. NoFit(align_up(n)) /\ Grant(n, zero, curr, Header(curr))
    BY <1>1, <1>4 DEF Bump
  <2>2. answer' # Pointer(NULL)
    BY <1>1, <2>1, GrantIsNotNull
  <2>. QED
    BY <2>1, <2>2
<1>. QED
  BY <1>2, <1>3, <1>4 DEF kmalloc

\* A request is refused, or served from fresh memory, only if no free block is
\* large enough; and refused only if fresh memory is too small as well.
THEOREM FreeBlocksServeFirst == Spec => FreeFirst
<1>1. HeapIInv /\ [Next]_vars => [FreeServeFirst]_vars
  BY StepServesFreeFirst
<1>. QED
  BY <1>1, HeapAlways, PTL DEF Spec, FreeFirst, FreeServeFirst

-----------------------------------------------------------------------------
(* The heap implements Allocator *)

\* What a granted region is: inside the heap, and apart from every region that
\* is held, because its block is free or fresh.
LEMMA GrantIsPromised ==
    ASSUME HeapIInv, NEW n \in Requests, n # 0, NEW zero, NEW headers, NEW a \in Nat,
           Grant(n, zero, a, headers),
           g_heap_start <= a, a + HeaderSize + n <= g_heap_end,
           \A b \in Busy : OutOf(PayloadOf(a), n, b)
    PROVE  Promise!Grant(n)
<1>. PICK p : p = PayloadOf(a)
  OBVIOUS
<1>1. /\ n \in Nat /\ n > 0 /\ HeaderSize \in Nat \ {0} /\ p = a + HeaderSize
      /\ g_heap_start \in Nat /\ g_heap_end \in Nat
  BY HeapAssumption, HeapBounds DEF PayloadOf
<1>2. p \in g_heap_start .. g_heap_end - n /\ p # 0 /\ p \in Nat
  BY <1>1
<1>3. ASSUME NEW q \in DOMAIN granted
      PROVE  p + n <= q \/ q + granted[q] <= p
  <2>1. PICK b \in Busy :
              /\ q = PayloadOf(b) /\ q = b + HeaderSize /\ b \in DOMAIN blocks
              /\ granted[q] \in Nat /\ b \in Nat /\ Follows(b) \in Nat
              /\ q + granted[q] <= Follows(b)
    BY HeldFacts
  <2>. DEFINE g == granted[q]
              f == Follows(b)
  <2>2. p + n <= q \/ f <= p
    BY <2>1 DEF OutOf
  <2>3. g \in Nat /\ f \in Nat /\ q + g <= f /\ q \in Nat
    BY <1>1, <2>1
  <2>. HIDE DEF g, f
  <2>4. p + n <= q \/ q + g <= p
    BY <1>1, <1>2, <2>2, <2>3
  <2>. QED
    BY <2>4 DEF g
<1>4. /\ granted' = [q \in DOMAIN granted \cup {p} |-> IF q = p THEN n ELSE granted[q]]
      /\ answer' = Pointer(p)
  BY DEF Grant
<1>. QED
  BY <1>1, <1>2, <1>3, <1>4 DEF Promise!Grant, Promise!Apart, Promise!NULL,
     Promise!Pointer, Pointer

\* kfree accepts exactly the pointers that clients hold.
LEMMA AcceptsWhatIsHeld ==
    ASSUME HeapIInv, NEW p \in Pointers
    PROVE  Accepts(p) <=> p \in DOMAIN granted
<1>1. HeaderSize \in Nat \ {0} /\ p \in Nat /\ g_heap_start \in Nat /\ g_heap_end \in Nat
  BY HeapAssumption, HeapBounds
<1>2. ASSUME Accepts(p) PROVE p \in DOMAIN granted
  <2>1. p - HeaderSize \in Busy
    BY <1>2 DEF Accepts, Busy
  <2>2. PayloadOf(p - HeaderSize) = p
    BY <1>1 DEF PayloadOf
  <2>. QED
    BY <2>1, <2>2, HeapFacts
<1>3. ASSUME p \in DOMAIN granted PROVE Accepts(p)
  <2>1. PICK b \in Busy : p = PayloadOf(b)
    BY <1>3, HeapFacts
  <2>2. b \in DOMAIN blocks /\ ~blocks[b].free
    BY DEF Busy
  <2>. DEFINE size == blocks[b].size
              f == Follows(b)
  <2>3. /\ b \in Nat /\ b >= g_heap_start /\ f <= curr /\ f \in Nat
        /\ size \in Nat /\ size > 0 /\ f = b + HeaderSize + size
    BY <2>2, BlockFacts
  <2>4. curr \in Nat /\ curr <= g_heap_end
    BY HeapFacts
  <2>5. p = b + HeaderSize
    BY <2>1 DEF PayloadOf
  <2>. HIDE DEF size, f
  <2>6. p # 0 /\ p >= g_heap_start + HeaderSize /\ p < g_heap_end /\ p - HeaderSize = b
    BY <1>1, <2>3, <2>4, <2>5
  <2>. QED
    BY <2>2, <2>6 DEF Accepts, NULL
<1>. QED
  BY <1>2, <1>3

\* Every step of the heap is a step of the promise.
LEMMA StepIsPromised ==
    ASSUME HeapIInv, Next
    PROVE  Promise!Next
<1>0. HeaderSize \in Nat
  BY HeapAssumption
<1>1. ASSUME NEW n \in Requests, n # 0, NEW zero, NEW i \in 1 .. Len(freeList),
             FirstFit(i, align_up(n)), TakeWhole(n, zero, i) \/ TakePart(n, zero, i)
      PROVE  Promise!Grant(n)
  <2>. PICK a, size : a = freeList[i] /\ size = align_up(n)
    OBVIOUS
  <2>. DEFINE was == blocks[a].size
              end == Follows(a)
  <2>1. n \in Nat /\ size \in Nat /\ n <= size
    BY <1>1, HeapFacts, RequestFacts
  <2>2. a \in Free /\ a \in DOMAIN blocks /\ a \in Nat /\ was >= size
    BY <1>1, <2>1, FoundFacts, HeapFacts
  <2>3. /\ end = a + HeaderSize + was /\ end \in Nat /\ was \in Nat /\ end <= curr
        /\ a >= g_heap_start
    BY <2>2, BlockFacts
  <2>4. \E headers : Grant(n, zero, a, headers)
    BY <1>1 DEF TakeWhole, TakePart
  <2>5. ASSUME NEW b \in Busy PROVE OutOf(PayloadOf(a), n, b)
    <3>1. b \in DOMAIN blocks /\ b # a
      BY <2>2 DEF Busy, Free
    <3>2. Follows(b) <= a \/ end <= b
      BY <2>2, <3>1, BlocksApart
    <3>3. b \in Nat /\ Follows(b) \in Nat
      BY <3>1, BlockFacts
    <3>4. a + HeaderSize + n <= end
      <4>. HIDE DEF was, end
      <4>. QED
        BY <1>0, <2>1, <2>2, <2>3
    <3>. DEFINE f == Follows(b)
    <3>. HIDE DEF was, end, f
    <3>5. a + HeaderSize + n <= b + HeaderSize \/ f <= a + HeaderSize
      BY <1>0, <2>1, <2>2, <2>3, <3>2, <3>3, <3>4 DEF f
    <3>. QED
      BY <3>5 DEF OutOf, PayloadOf, f
  <2>6. curr \in Nat /\ curr <= g_heap_end /\ g_heap_end \in Nat
    BY HeapFacts, HeapBounds
  <2>7. a + HeaderSize + n <= g_heap_end
    <3>. HIDE DEF was, end
    <3>. QED
      BY <1>0, <2>1, <2>2, <2>3, <2>6
  <2>. QED
    BY <1>1, <2>2, <2>3, <2>4, <2>5, <2>7, GrantIsPromised
<1>2. ASSUME NEW n \in Requests, n # 0, NEW zero, Bump(n, zero)
      PROVE  Promise!Grant(n)
  <2>. PICK size : size = align_up(n)
    OBVIOUS
  <2>1. /\ n \in Nat /\ size \in Nat /\ n <= size /\ align_up(curr) = curr /\ curr \in Nat
        /\ EndIfBumped(size) = curr + HeaderSize + size /\ g_heap_start <= curr
    BY HeapFacts, RequestFacts
  <2>2. Grant(n, zero, curr, Header(curr)) /\ EndIfBumped(size) <= g_heap_end
    BY <1>2, <2>1 DEF Bump
  <2>3. ASSUME NEW b \in Busy PROVE OutOf(PayloadOf(curr), n, b)
    <3>1. Follows(b) \in Nat /\ Follows(b) <= curr
      BY BlockFacts DEF Busy
    <3>. QED
      BY <1>0, <2>1, <3>1 DEF OutOf, PayloadOf
  <2>4. curr + HeaderSize + n <= g_heap_end
    BY <1>0, <2>1, <2>2, HeapBounds
  <2>. QED
    BY <1>2, <2>1, <2>2, <2>3, <2>4, GrantIsPromised
<1>3. ASSUME NEW n \in Requests, NEW zero \in BOOLEAN, kmalloc(n, zero)
      PROVE  Promise!Next
  <2>1. CASE Refuse(n)
    <3>1. Promise!Refuse
      BY <2>1 DEF Refuse, Promise!Refuse, Pointer, Promise!Pointer, NULL, Promise!NULL
    <3>. QED
      BY <3>1 DEF Promise!Next
  <2>2. CASE n # 0 /\ (TakeFree(n, zero) \/ Bump(n, zero))
    <3>1. Promise!Grant(n)
      BY <1>1, <1>2, <2>2 DEF TakeFree
    <3>. QED
      BY <3>1 DEF Promise!Next
  <2>. QED
    BY <1>3, <2>1, <2>2 DEF kmalloc
<1>4. ASSUME NEW p \in Pointers, kfree(p)
      PROVE  Promise!Next
  <2>1. Promise!Release(p)
    BY <1>4, AcceptsWhatIsHeld DEF kfree, Promise!Release, Verdict, Promise!Verdict
  <2>. QED
    BY <2>1 DEF Promise!Next
<1>. QED
  BY <1>3, <1>4 DEF Next

\* The heap keeps the allocator's promise: what clients hold never overlaps, and
\* kfree succeeds exactly for what was granted and not yet given back.
THEOREM HeapIsAllocator == Spec => AllocatorSpec
<1>1. Init => Promise!Init
  BY DEF Init, Promise!Init, Pointer, Promise!Pointer, NULL, Promise!NULL
<1>2. HeapIInv /\ [Next]_vars => [Promise!Next]_(Promise!allocatorVars)
  BY StepIsPromised DEF vars, Promise!allocatorVars
<1>. QED
  BY <1>1, <1>2, HeapAlways, PTL DEF Spec, AllocatorSpec, Promise!Spec

=============================================================================
