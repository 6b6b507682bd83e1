---------------------------- MODULE DesktopProofs ----------------------------
(***************************************************************************)
(* Proofs about the layers, the windows, the cursor and the drag, for any  *)
(* number of windows of any size, any screen, any threshold at which the   *)
(* layers are numbered anew, and any capacity of the event queue.          *)
(***************************************************************************)
EXTENDS Desktop, FiniteSetTheorems, SequenceTheorems, TLAPS

-----------------------------------------------------------------------------
(* Sorting *)

\* The order in which sort_layers leaves the entries is strict and total.
LEMMA StableOrder ==
    ASSUME NEW m, m.table \in Seq(Layer), m.z \in [Layer -> Nat]
    PROVE  /\ \A i \in DOMAIN m.table : ~ SortedBefore(m, i, i)
           /\ \A i, j, k \in DOMAIN m.table :
                 SortedBefore(m, i, j) /\ SortedBefore(m, j, k) => SortedBefore(m, i, k)
           /\ \A i, j \in DOMAIN m.table :
                 i = j \/ SortedBefore(m, i, j) \/ SortedBefore(m, j, i)
<1>1. \A i \in DOMAIN m.table : i \in Nat /\ m.z[m.table[i]] \in Nat
  OBVIOUS
<1>. QED
  BY <1>1 DEF SortedBefore

\* p tells from where in the table of m each of its n entries comes.
Sorts(p, m, n) ==
    /\ \A k \in 1 .. n : SortedTable(m)[k] = m.table[p[k]]
    /\ \A i, j \in 1 .. n : i < j => SortedBefore(m, p[i], p[j])
    /\ \A j \in 1 .. n : \E k \in 1 .. n : p[k] = j

\* Counting the entries before each one gives every position once.
LEMMA SortFacts ==
    ASSUME NEW m, m.table \in Seq(Layer), m.z \in [Layer -> Nat],
           NEW n, n = Len(m.table)
    PROVE  \E p \in [1 .. n -> 1 .. n] : Sorts(p, m, n)
<1>. DEFINE D == DOMAIN m.table
            Earlier(j) == {i \in D : SortedBefore(m, i, j)}
            rank == [j \in D |-> Cardinality(Earlier(j))]
<1>1. n \in Nat /\ D = 1 .. n
  OBVIOUS
<1>2. /\ \A i \in D : ~ SortedBefore(m, i, i)
      /\ \A i, j, k \in D :
            SortedBefore(m, i, j) /\ SortedBefore(m, j, k) => SortedBefore(m, i, k)
      /\ \A i, j \in D : i = j \/ SortedBefore(m, i, j) \/ SortedBefore(m, j, i)
  BY StableOrder, Zenon
<1>0. SortedTable(m) = [k \in D |-> m.table[CHOOSE j \in D : Cardinality(Earlier(j)) = k - 1]]
  BY DEF SortedTable
<1>. HIDE DEF D
<1>3. IsFiniteSet(D) /\ Cardinality(D) = n
  <2>1. 1 \in Int /\ n \in Int /\ (IF 1 > n THEN 0 ELSE n - 1 + 1) = n
    BY <1>1
  <2>2. IsFiniteSet(1 .. n) /\ Cardinality(1 .. n) = n
    BY <2>1, FS_Interval
  <2>. QED
    BY <1>1, <2>2
<1>4. IsFiniteSet(0 .. n - 1) /\ Cardinality(0 .. n - 1) = n
  <2>1. 0 \in Int /\ n - 1 \in Int /\ (IF 0 > n - 1 THEN 0 ELSE n - 1 - 0 + 1) = n
    BY <1>1
  <2>. QED
    BY <2>1, FS_Interval
<1>5. ASSUME NEW j \in D
      PROVE  IsFiniteSet(Earlier(j)) /\ Cardinality(Earlier(j)) \in 0 .. n - 1
  <2>1. Earlier(j) \in SUBSET (D \ {j})
    BY <1>2
  <2>2. IsFiniteSet(D \ {j}) /\ Cardinality(D \ {j}) = n - 1
    BY <1>3, FS_RemoveElement
  <2>. HIDE DEF Earlier
  <2>3. IsFiniteSet(Earlier(j)) /\ Cardinality(Earlier(j)) <= Cardinality(D \ {j})
    BY <2>1, <2>2, FS_Subset
  <2>4. Cardinality(Earlier(j)) \in Nat
    BY <2>3, FS_CardinalityType
  <2>. QED
    BY <1>1, <2>2, <2>3, <2>4
<1>6. ASSUME NEW j \in D, NEW k \in D, SortedBefore(m, j, k)
      PROVE  Cardinality(Earlier(j)) < Cardinality(Earlier(k))
  <2>1. Earlier(j) \cup {j} \in SUBSET Earlier(k)
    BY <1>2, <1>6
  <2>2. j \notin Earlier(j)
    BY <1>2
  <2>3. /\ IsFiniteSet(Earlier(j)) /\ Cardinality(Earlier(j)) \in 0 .. n - 1
        /\ IsFiniteSet(Earlier(k)) /\ Cardinality(Earlier(k)) \in 0 .. n - 1
    BY <1>5
  <2>. HIDE DEF Earlier
  <2>4. Cardinality(Earlier(j) \cup {j}) = Cardinality(Earlier(j)) + 1
    BY <2>2, <2>3, FS_AddElement
  <2>5. Cardinality(Earlier(j) \cup {j}) <= Cardinality(Earlier(k))
    BY <2>1, <2>3, FS_Subset
  <2>. QED
    BY <1>1, <2>3, <2>4, <2>5
<1>7. /\ rank \in [D -> 0 .. n - 1]
      /\ \A j, k \in D : SortedBefore(m, j, k) => rank[j] < rank[k]
  BY <1>5, <1>6
<1>. HIDE DEF rank
<1>8. \A j, k \in D : rank[j] = rank[k] => j = k
  <2>1. ASSUME NEW j \in D, NEW k \in D, rank[j] = rank[k] PROVE j = k
    <3>1. ~ (rank[j] < rank[k]) /\ ~ (rank[k] < rank[j])
      BY <1>1, <1>7, <2>1
    <3>. QED
      BY <1>2, <1>7, <3>1
  <2>. QED
    BY <2>1
<1>9. \A t \in 0 .. n - 1 : \E j \in D : rank[j] = t
  <2>1. rank \in Injection(D, 0 .. n - 1)
    BY <1>7, <1>8, Zenon DEF Injection, IsInjective
  <2>2. rank \in Surjection(D, 0 .. n - 1)
    BY <1>3, <1>4, <2>1, FS_Injection
  <2>. QED
    BY <2>2 DEF Surjection
<1>. DEFINE p == [k \in D |-> CHOOSE j \in D : Cardinality(Earlier(j)) = k - 1]
<1>10. ASSUME NEW k \in D PROVE p[k] \in D /\ rank[p[k]] = k - 1
  <2>1. k - 1 \in 0 .. n - 1
    BY <1>1
  <2>2. PICK j \in D : rank[j] = k - 1
    BY <1>9, <2>1
  <2>3. \A i \in D : rank[i] = Cardinality(Earlier(i))
    BY DEF rank
  <2>4. Cardinality(Earlier(j)) = k - 1
    BY <2>2, <2>3
  <2>5. p[k] \in D /\ Cardinality(Earlier(p[k])) = k - 1
    <3>1. p[k] = CHOOSE i \in D : Cardinality(Earlier(i)) = k - 1
      OBVIOUS
    <3>. QED
      BY <2>4, <3>1, Zenon
  <2>. QED
    BY <2>3, <2>5
<1>11. p \in [D -> D]
  BY <1>10
<1>12. \A k \in D : SortedTable(m)[k] = m.table[p[k]]
  <2>1. SortedTable(m) = [k \in D |-> m.table[p[k]]]
    BY <1>0, Zenon
  <2>. HIDE DEF p
  <2>. QED
    BY <2>1
<1>. HIDE DEF p
<1>13. ASSUME NEW i \in D, NEW j \in D, i < j PROVE SortedBefore(m, p[i], p[j])
  <2>1. rank[p[i]] < rank[p[j]]
    BY <1>1, <1>10, <1>13
  <2>2. p[i] \in D /\ p[j] \in D /\ rank[p[i]] \in 0 .. n - 1 /\ rank[p[j]] \in 0 .. n - 1
    BY <1>7, <1>10
  <2>3. ~ (rank[p[j]] < rank[p[i]]) /\ p[i] # p[j]
    BY <1>1, <2>1, <2>2
  <2>. QED
    BY <1>2, <1>7, <2>2, <2>3
<1>14. ASSUME NEW j \in D PROVE \E k \in D : p[k] = j
  <2>1. rank[j] \in 0 .. n - 1
    BY <1>7
  <2>2. rank[j] + 1 \in D /\ (rank[j] + 1) - 1 = rank[j]
    BY <1>1, <2>1
  <2>3. rank[p[rank[j] + 1]] = rank[j] /\ p[rank[j] + 1] \in D
    BY <1>10, <2>2
  <2>. QED
    BY <1>8, <2>2, <2>3
<1>15. /\ \A i, j \in D : i < j => SortedBefore(m, p[i], p[j])
       /\ \A j \in D : \E k \in D : p[k] = j
  BY <1>13, <1>14
<1>. QED
  <2>1. p \in [1 .. n -> 1 .. n]
    BY <1>1, <1>11
  <2>2. \A k \in 1 .. n : SortedTable(m)[k] = m.table[p[k]]
    BY <1>1, <1>12
  <2>3. /\ \A i, j \in 1 .. n : i < j => SortedBefore(m, p[i], p[j])
        /\ \A j \in 1 .. n : \E k \in 1 .. n : p[k] = j
    BY <1>1, <1>15
  <2>. QED
    BY <2>1, <2>2, <2>3, Zenon DEF Sorts

\* With different heights the order is that of z, and the entries stay.
LEMMA StrictSort ==
    ASSUME NEW m, m.table \in Seq(Layer), m.z \in [Layer -> Nat],
           NEW n, n = Len(m.table),
           \A i, j \in 1 .. n : m.z[m.table[i]] = m.z[m.table[j]] => i = j
    PROVE  /\ SortedTable(m) \in Seq(Layer) /\ Len(SortedTable(m)) = n
           /\ \A k \in 1 .. n : SortedTable(m)[k] \in Layer
           /\ \A i, j \in 1 .. n :
                 i < j => m.z[SortedTable(m)[i]] < m.z[SortedTable(m)[j]]
           /\ \A j \in 1 .. n : \E k \in 1 .. n : SortedTable(m)[k] = m.table[j]
           /\ \A k \in 1 .. n : \E j \in 1 .. n : SortedTable(m)[k] = m.table[j]
<1>w. PICK d : d = n
  OBVIOUS
<1>. DEFINE s == SortedTable(m)
            D == 1 .. d
<1>1. d \in Nat /\ DOMAIN m.table = D /\ \A i \in D : m.table[i] \in Layer
  BY <1>w
<1>7. \A i, j \in D : m.z[m.table[i]] = m.z[m.table[j]] => i = j
  BY <1>w
<1>0. PICK p \in [D -> D] : Sorts(p, m, d)
  BY <1>w, SortFacts
<1>2. /\ \A k \in D : s[k] = m.table[p[k]]
      /\ \A i, j \in D : i < j => SortedBefore(m, p[i], p[j])
      /\ \A j \in D : \E k \in D : p[k] = j
  BY <1>0 DEF Sorts
<1>3. s \in Seq(Layer) /\ Len(s) = d /\ \A k \in D : s[k] \in Layer
  <2>1. \E e : s = [k \in D |-> e[k]]
    <3>1. s = [k \in D |-> s[k]]
      BY <1>1 DEF SortedTable
    <3>. QED
      BY <3>1
  <2>2. \A k \in D : s[k] \in Layer
    BY <1>1, <1>2
  <2>. HIDE DEF s
  <2>. QED
    BY <1>1, <2>1, <2>2
<1>. HIDE DEF s
<1>4. ASSUME NEW i \in D, NEW j \in D, i < j PROVE m.z[s[i]] < m.z[s[j]]
  <2>. PICK a, b : a = s[i] /\ b = s[j]
    OBVIOUS
  <2>1. /\ p[i] \in D /\ p[j] \in D /\ a = m.table[p[i]] /\ b = m.table[p[j]]
        /\ SortedBefore(m, p[i], p[j])
    BY <1>2, <1>4
  <2>2. p[i] # p[j]
    BY <1>1, <2>1, StableOrder
  <2>3. m.z[a] # m.z[b]
    BY <1>7, <2>1, <2>2
  <2>. QED
    BY <2>1, <2>3 DEF SortedBefore
<1>5. ASSUME NEW j \in D PROVE \E k \in D : s[k] = m.table[j]
  <2>1. PICK k \in D : p[k] = j
    BY <1>2
  <2>2. s[k] = m.table[j]
    BY <1>2, <2>1
  <2>. QED
    BY <2>2
<1>6. \A k \in D : \E j \in D : s[k] = m.table[j]
  BY <1>2
<1>. QED
  <2>1. s \in Seq(Layer) /\ Len(s) = n /\ \A k \in 1 .. n : s[k] \in Layer
    BY <1>w, <1>3
  <2>2. \A i, j \in 1 .. n : i < j => m.z[s[i]] < m.z[s[j]]
    BY <1>w, <1>4
  <2>3. /\ \A j \in 1 .. n : \E k \in 1 .. n : s[k] = m.table[j]
        /\ \A k \in 1 .. n : \E j \in 1 .. n : s[k] = m.table[j]
    BY <1>w, <1>5, <1>6
  <2>. QED
    BY <2>1, <2>2, <2>3, Zenon DEF s

-----------------------------------------------------------------------------
(* The layer manager *)

N == Cardinality(Window)

\* What the assumptions say of the numbers.
LEMMA Numbers ==
    /\ N \in Nat /\ Window = 1 .. N /\ Cursor = 0 /\ Cursor \notin Window
    /\ Layer = Window \cup {Cursor} /\ Layer \subseteq Nat
    /\ N + 1 <= MAX_LAYERS /\ MAX_LAYERS \in Nat
    /\ Z_RESET_THRESHOLD \in Nat /\ Z_RESET_THRESHOLD >= 1 /\ Z_RESET_THRESHOLD >= 2 * N
    /\ CURSOR_Z \in Nat /\ CURSOR_Z > Z_RESET_THRESHOLD /\ CURSOR_Z > MAX_LAYERS
<1>1. IsFiniteSet(Window) /\ Window \subseteq Nat \ {0}
  BY LayersAssumption
<1>2. N \in Nat /\ Window = 1 .. N
  BY <1>1, FS_CardinalityType, DesktopAssumption DEF N
<1>3. Cursor = 0 /\ Cursor \notin Window /\ Layer = Window \cup {Cursor} /\ Layer \subseteq Nat
  BY <1>1 DEF Cursor, Layer
<1>4. Cardinality(Layer) = N + 1
  <2>1. Cardinality(Window \cup {Cursor}) = IF Cursor \in Window THEN N ELSE N + 1
    BY <1>1, FS_AddElement DEF N
  <2>. QED
    BY <1>3, <2>1
<1>5. /\ Cardinality(Layer) <= MAX_LAYERS /\ MAX_LAYERS \in Nat
      /\ Z_RESET_THRESHOLD \in Nat /\ Z_RESET_THRESHOLD >= 1
      /\ CURSOR_Z \in Nat /\ CURSOR_Z > Z_RESET_THRESHOLD /\ CURSOR_Z > MAX_LAYERS
  BY LayersAssumption, DesktopAssumption
<1>6. Z_RESET_THRESHOLD >= 2 * N
  BY DesktopAssumption DEF N
<1>. QED
  BY <1>2, <1>3, <1>4, <1>5, <1>6

\* A manager whose table has every layer once, with the cursor above all windows
\* and no two windows at the same height.
Manager == [table : Seq(Layer), z : [Layer -> Nat], top : Nat]

Exact(m) ==
    /\ Len(m.table) = N + 1
    /\ \A i, j \in 1 .. N + 1 : m.table[i] = m.table[j] => i = j
    /\ \A l \in Layer : \E i \in 1 .. N + 1 : m.table[i] = l

Heights(m, S) ==
    /\ \A w \in S : m.z[w] \in 1 .. m.top
    /\ \A v, w \in S : m.z[v] = m.z[w] => v = w
    /\ m.top < CURSOR_Z

Full(m) ==
    /\ m \in Manager /\ Exact(m)
    /\ m.z[Cursor] = CURSOR_Z /\ Heights(m, Window)

SameOrder(m, r, S) == \A v, w \in S : (m.z[v] < m.z[w]) = (r.z[v] < r.z[w])

\* Layers of a full manager never have the same z.
LEMMA DistinctHeights ==
    ASSUME NEW m, Full(m), NEW k \in Layer, NEW l \in Layer, m.z[k] = m.z[l]
    PROVE  k = l
<1>1. \A w \in Window : m.z[w] # CURSOR_Z
  BY Numbers DEF Full, Heights, Manager
<1>. QED
  BY <1>1, Numbers DEF Full, Heights

\* Sorting orders the table by z and puts the cursor last; nothing else changes.
LEMMA SortedFull ==
    ASSUME NEW m, Full(m)
    PROVE  LET r == layer_get_all(m) IN
           /\ Full(r) /\ r.z = m.z /\ r.top = m.top
           /\ \A i, j \in 1 .. N + 1 : i < j => m.z[r.table[i]] < m.z[r.table[j]]
           /\ r.table[N + 1] = Cursor
<1>. DEFINE r == layer_get_all(m)
            s == SortedTable(m)
            D == 1 .. N + 1
<1>1. /\ m \in Manager /\ m.table \in Seq(Layer) /\ m.z \in [Layer -> Nat] /\ m.top \in Nat
      /\ N + 1 = Len(m.table) /\ N \in Nat
      /\ \A i \in D : m.table[i] \in Layer
  BY Numbers DEF Full, Exact, Manager
<1>2. \A i, j \in D : m.z[m.table[i]] = m.z[m.table[j]] => i = j
  <2>1. ASSUME NEW i \in D, NEW j \in D, m.z[m.table[i]] = m.z[m.table[j]] PROVE i = j
    <3>1. m.table[i] = m.table[j]
      BY <1>1, <2>1, DistinctHeights
    <3>. QED
      BY <3>1 DEF Full, Exact
  <2>. QED
    BY <2>1
<1>3. /\ s \in Seq(Layer) /\ Len(s) = N + 1 /\ \A k \in D : s[k] \in Layer
      /\ \A i, j \in D : i < j => m.z[s[i]] < m.z[s[j]]
      /\ \A j \in D : \E k \in D : s[k] = m.table[j]
  BY <1>1, <1>2, StrictSort
<1>. HIDE DEF s
<1>4. r = [m EXCEPT !.table = s]
  BY DEF layer_get_all, s
<1>. HIDE DEF r
<1>5. r \in Manager /\ r.table = s /\ r.z = m.z /\ r.top = m.top
  BY <1>1, <1>3, <1>4 DEF Manager
<1>6. ASSUME NEW i \in D, NEW j \in D, i < j PROVE m.z[s[i]] < m.z[s[j]]
  BY <1>3, <1>6
<1>7. \A i, j \in D : s[i] = s[j] => i = j
  <2>1. ASSUME NEW i \in D, NEW j \in D, s[i] = s[j] PROVE i = j
    <3>1. s[i] \in Layer /\ s[j] \in Layer /\ m.z[s[i]] \in Nat /\ m.z[s[i]] = m.z[s[j]]
      BY <1>1, <1>3, <2>1
    <3>2. ~ (i < j) /\ ~ (j < i)
      BY <1>6, <3>1
    <3>. QED
      BY <1>1, <3>2
  <2>. QED
    BY <2>1
<1>8. \A l \in Layer : \E i \in D : s[i] = l
  <2>1. ASSUME NEW l \in Layer PROVE \E i \in D : s[i] = l
    <3>1. PICK j \in D : m.table[j] = l
      BY DEF Full, Exact
    <3>. QED
      BY <1>3, <3>1
  <2>. QED
    BY <2>1
<1>9. Full(r)
  BY <1>3, <1>5, <1>7, <1>8 DEF Full, Exact, Heights
<1>10. s[N + 1] = Cursor
  <2>1. PICK c \in D : s[c] = Cursor
    BY <1>8, Numbers
  <2>2. CASE c < N + 1
    <3>1. N + 1 \in D /\ s[N + 1] \in Layer
      BY <1>1, <1>3
    <3>2. CURSOR_Z < m.z[s[N + 1]]
      BY <1>6, <2>1, <2>2, <3>1 DEF Full
    <3>3. m.z[s[N + 1]] <= CURSOR_Z
      <4>1. \A l \in Layer : m.z[l] <= CURSOR_Z
        BY <1>1, Numbers DEF Full, Heights
      <4>. QED
        BY <3>1, <4>1
    <3>. QED
      BY <1>1, <3>1, <3>2, <3>3, Numbers
  <2>. QED
    BY <1>1, <2>1, <2>2
<1>. QED
  BY <1>5, <1>6, <1>9, <1>10 DEF r

\* Numbering anew gives the windows the heights 1 to N, in the order they have.
LEMMA Renumbered ==
    ASSUME NEW m, Full(m)
    PROVE  LET r == layer_rebase_z(m) IN
           Full(r) /\ r.top = N /\ SameOrder(m, r, Window)
<1>. PICK t : t = layer_get_all(m)
  OBVIOUS
<1>. DEFINE r == layer_rebase_z(m)
            D == 1 .. N
            Pos(l) == CHOOSE i \in D : t.table[i] = l
            z == [l \in Layer |-> IF \E i \in D : t.table[i] = l THEN Pos(l) ELSE t.z[l]]
<1>1. /\ Full(t) /\ t.z = m.z /\ t.top = m.top /\ t.table[N + 1] = Cursor
      /\ \A i, j \in 1 .. N + 1 : i < j => m.z[t.table[i]] < m.z[t.table[j]]
  BY SortedFull
<1>2. /\ N \in Nat /\ Len(t.table) = N + 1 /\ Len(t.table) - 1 = N
      /\ t \in Manager /\ t.z \in [Layer -> Nat] /\ t.table \in Seq(Layer)
  BY <1>1, Numbers DEF Full, Exact, Manager
<1>3. r = [t EXCEPT !.z = z, !.top = N]
  BY <1>2 DEF layer_rebase_z, Numbered
<1>. HIDE DEF r
<1>4. ASSUME NEW w \in Window PROVE Pos(w) \in D /\ t.table[Pos(w)] = w /\ z[w] = Pos(w)
  <2>1. PICK i \in 1 .. N + 1 : t.table[i] = w
    BY <1>1, Numbers DEF Full, Exact
  <2>2. i # N + 1
    BY <1>1, <2>1, Numbers
  <2>3. i \in D
    BY <1>2, <2>1, <2>2
  <2>. QED
    BY <2>1, <2>3, Numbers
<1>5. z[Cursor] = CURSOR_Z
  <2>1. ASSUME NEW i \in D, t.table[i] = Cursor PROVE FALSE
    <3>1. i \in 1 .. N + 1 /\ N + 1 \in 1 .. N + 1 /\ i # N + 1
      BY <1>2
    <3>. QED
      BY <1>1, <2>1, <3>1 DEF Full, Exact
  <2>. QED
    BY <1>1, <2>1, Numbers DEF Full
<1>6. z \in [Layer -> Nat]
  <2>1. \A l \in Layer : z[l] \in Nat
    BY <1>2, <1>4, <1>5, Numbers
  <2>. QED
    BY <2>1
<1>. HIDE DEF z
<1>7. r \in Manager /\ r.z = z /\ r.top = N /\ r.table = t.table
  BY <1>2, <1>3, <1>6 DEF Manager
<1>8. ASSUME NEW v \in Window, NEW w \in Window
      PROVE  /\ z[v] = z[w] => v = w
             /\ z[v] < z[w] => m.z[v] < m.z[w]
  <2>1. Pos(v) \in D /\ t.table[Pos(v)] = v /\ z[v] = Pos(v)
    BY <1>4
  <2>2. Pos(w) \in D /\ t.table[Pos(w)] = w /\ z[w] = Pos(w)
    BY <1>4
  <2>. HIDE DEF Pos
  <2>3. Pos(v) \in 1 .. N + 1 /\ Pos(w) \in 1 .. N + 1
    BY <1>2, <2>1, <2>2
  <2>. QED
    BY <1>1, <2>1, <2>2, <2>3
<1>9. Heights(r, Window)
  <2>1. \A w \in Window : r.z[w] \in 1 .. r.top
    BY <1>4, <1>7
  <2>2. r.top < CURSOR_Z
    BY <1>7, Numbers
  <2>. QED
    BY <1>7, <1>8, <2>1, <2>2 DEF Heights
<1>10. SameOrder(m, r, Window)
  <2>1. ASSUME NEW v \in Window, NEW w \in Window
        PROVE  (m.z[v] < m.z[w]) = (z[v] < z[w])
    <3>1. z[v] \in Nat /\ z[w] \in Nat /\ m.z[v] \in Nat /\ m.z[w] \in Nat
      BY <1>1, <1>2, <1>6, Numbers
    <3>2. CASE z[v] < z[w]
      BY <1>8, <3>1, <3>2
    <3>3. CASE z[w] < z[v]
      <4>1. m.z[w] < m.z[v]
        BY <1>8, <3>3
      <4>. QED
        BY <3>1, <3>3, <4>1
    <3>4. CASE v = w
      BY <3>1, <3>4
    <3>. QED
      BY <1>8, <3>1, <3>2, <3>3, <3>4
  <2>. QED
    BY <1>7, <2>1 DEF SameOrder
<1>11. Full(r)
  BY <1>1, <1>5, <1>7, <1>9 DEF Full, Exact
<1>. QED
  BY <1>7, <1>10, <1>11 DEF r

\* A raised window gets a new height above all others, which keep their order.
LEMMA Raised ==
    ASSUME NEW m, Full(m), NEW l \in Window
    PROVE  LET r == layer_bring_to_front(m, l) IN
           Full(r) /\ r.z[l] = r.top /\ SameOrder(m, r, Window \ {l})
<1>. DEFINE b == IF m.top >= Z_RESET_THRESHOLD THEN layer_rebase_z(m) ELSE m
            a == [b EXCEPT !.top = @ + 1]
            r == layer_bring_to_front(m, l)
<1>1. Full(b) /\ SameOrder(m, b, Window) /\ b.top + 1 < CURSOR_Z
  <2>1. CASE m.top >= Z_RESET_THRESHOLD
    BY <2>1, Renumbered, Numbers
  <2>2. CASE ~ (m.top >= Z_RESET_THRESHOLD)
    <3>1. b = m
      BY <2>2
    <3>2. m.top \in Nat
      BY DEF Full, Manager
    <3>3. m.top + 1 < CURSOR_Z
      BY <2>2, <3>2, Numbers
    <3>4. SameOrder(m, m, Window)
      BY Zenon DEF SameOrder
    <3>. HIDE DEF b
    <3>. QED
      BY <3>1, <3>3, <3>4
  <2>. QED
    BY <2>1, <2>2
<1>. HIDE DEF b
<1>2. /\ b \in Manager /\ b.top \in Nat /\ b.z \in [Layer -> Nat]
      /\ \A w \in Window : b.z[w] \in 1 .. b.top
  BY <1>1 DEF Full, Manager, Heights
<1>3. a = [b EXCEPT !.top = b.top + 1] /\ a \in Manager /\ a.top = b.top + 1 /\ a.z = b.z
      /\ a.table = b.table
  <2>1. b = [table |-> b.table, z |-> b.z, top |-> b.top]
        /\ b.table \in Seq(Layer) /\ b.top + 1 \in Nat
    BY <1>2 DEF Manager
  <2>. HIDE DEF b
  <2>2. a = [table |-> b.table, z |-> b.z, top |-> b.top + 1]
    BY <2>1
  <2>3. a \in Manager
    BY <1>2, <2>1, <2>2 DEF Manager
  <2>. QED
    BY <2>2, <2>3
<1>. HIDE DEF a
<1>4. r = [a EXCEPT !.z[l] = a.top]
  BY DEF layer_bring_to_front, allocate_z, a, b
<1>. HIDE DEF r
<1>. DEFINE y == [b.z EXCEPT ![l] = b.top + 1]
<1>0. l \in Layer /\ l # Cursor /\ b.top + 1 \in Nat
  BY <1>2, Numbers
<1>5. /\ y \in [Layer -> Nat] /\ y[l] = b.top + 1 /\ \A k \in Layer : k # l => y[k] = b.z[k]
      /\ l \in Layer /\ l # Cursor
  BY <1>0, <1>2
<1>. HIDE DEF y
<1>6. r \in Manager /\ r.z = y /\ r.top = b.top + 1 /\ r.table = b.table
  BY <1>3, <1>4, <1>5 DEF Manager, y
<1>7. Heights(r, Window)
  <2>1. ASSUME NEW w \in Window PROVE y[w] \in 1 .. b.top + 1 /\ (w # l => y[w] # y[l])
    <3>1. w \in Layer /\ b.z[w] \in 1 .. b.top /\ b.top \in Nat
      BY <1>2, Numbers
    <3>. QED
      BY <1>5, <3>1
  <2>2. ASSUME NEW v \in Window, NEW w \in Window, y[v] = y[w] PROVE v = w
    <3>1. CASE v = l \/ w = l
      BY <2>1, <2>2, <3>1
    <3>2. CASE v # l /\ w # l
      BY <1>1, <1>5, <2>2, <3>2, Numbers DEF Full, Heights
    <3>. QED
      BY <3>1, <3>2
  <2>. QED
    BY <1>1, <1>6, <2>1, <2>2 DEF Heights
<1>8. Full(r)
  BY <1>1, <1>5, <1>6, <1>7, Numbers DEF Full, Exact
<1>9. SameOrder(m, r, Window \ {l})
  BY <1>1, <1>5, <1>6, Numbers DEF SameOrder
<1>. QED
  BY <1>5, <1>6, <1>8, <1>9 DEF r


\* Before the counter has reached the threshold nothing is numbered anew.
LEMMA RaisedLow ==
    ASSUME NEW m \in Manager, m.top < Z_RESET_THRESHOLD, NEW l \in Window
    PROVE  LET r == layer_bring_to_front(m, l) IN
           /\ r \in Manager /\ r.table = m.table /\ r.top = m.top + 1
           /\ r.z[l] = m.top + 1 /\ \A k \in Layer : k # l => r.z[k] = m.z[k]
<1>. DEFINE a == [m EXCEPT !.top = @ + 1]
            r == layer_bring_to_front(m, l)
            y == [m.z EXCEPT ![l] = m.top + 1]
<1>1. m.top \in Nat /\ m.z \in [Layer -> Nat] /\ l \in Layer /\ ~ (m.top >= Z_RESET_THRESHOLD)
  BY Numbers DEF Manager
<1>2. a \in Manager /\ a.top = m.top + 1 /\ a.z = m.z /\ a.table = m.table
  BY DEF Manager
<1>3. r = [a EXCEPT !.z[l] = a.top]
  BY <1>1 DEF layer_bring_to_front, allocate_z
<1>. HIDE DEF r, a
<1>4. m.top + 1 \in Nat
  BY <1>1
<1>5. y \in [Layer -> Nat] /\ y[l] = m.top + 1 /\ \A k \in Layer : k # l => y[k] = m.z[k]
  BY <1>1, <1>4
<1>. HIDE DEF y
<1>6. r \in Manager /\ r.z = y /\ r.top = m.top + 1 /\ r.table = m.table
  BY <1>2, <1>3, <1>5 DEF Manager, y
<1>. QED
  BY <1>5, <1>6 DEF r

\* While kernel_main creates the windows, each is entered behind those before it.
Booting(m, c) ==
    /\ m \in Manager /\ Len(m.table) = c /\ m.top = 2 * c
    /\ \A i \in 1 .. c : m.table[i] = i
    /\ Heights(m, 1 .. c)

\* Adding the next window and focusing it raises it twice, above all others.
LEMMA WindowAdded ==
    ASSUME NEW m, NEW w \in Window, Booting(m, w - 1)
    PROVE  LET r == wm_focus(layer_add(m, w), w) IN
           Booting(r, w) /\ r.z[w] = r.top /\ SameOrder(m, r, 1 .. w - 1)
<1>. DEFINE c == w - 1
            a == layer_bring_to_front(m, w)
            b == [a EXCEPT !.table = Append(@, w)]
            r == layer_bring_to_front(b, w)
<1>1. /\ w \in Nat /\ w >= 1 /\ w <= N /\ N \in Nat /\ w # Cursor /\ c \in Nat /\ w \in Layer
      /\ 1 .. c \subseteq Layer /\ w \notin 1 .. c
  BY Numbers
<1>2. /\ m \in Manager /\ Len(m.table) = c /\ m.top = 2 * c /\ m.top + 2 <= Z_RESET_THRESHOLD
      /\ m.table \in Seq(Layer) /\ m.z \in [Layer -> Nat]
      /\ \A i \in 1 .. c : m.table[i] = i /\ m.z[i] \in 1 .. m.top
  BY <1>1, Numbers DEF Booting, Manager, Heights
<1>3. /\ a \in Manager /\ a.table = m.table /\ a.top = m.top + 1
      /\ \A k \in Layer : k # w => a.z[k] = m.z[k]
  BY <1>2, RaisedLow, Numbers
<1>. HIDE DEF a
<1>. DEFINE t == Append(m.table, w)
<1>4. t \in Seq(Layer) /\ Len(t) = c + 1 /\ t[c + 1] = w /\ \A i \in 1 .. c : t[i] = m.table[i]
  BY <1>1, <1>2
<1>. HIDE DEF t
<1>5. b \in Manager /\ b.table = t /\ b.top = m.top + 1 /\ b.z = a.z
  BY <1>3, <1>4 DEF Manager, t
<1>6. wm_focus(layer_add(m, w), w) = r
  BY <1>1 DEF wm_focus, layer_add, a
<1>. HIDE DEF b
<1>7. b.top < Z_RESET_THRESHOLD
  BY <1>1, <1>2, <1>5, Numbers
<1>8. /\ r \in Manager /\ r.table = t /\ r.top = m.top + 2 /\ r.z[w] = m.top + 2
      /\ \A k \in Layer : k # w => r.z[k] = m.z[k]
  <2>1. (m.top + 1) + 1 = m.top + 2
    BY <1>1, <1>2
  <2>2. /\ r \in Manager /\ r.table = b.table /\ r.top = b.top + 1 /\ r.z[w] = b.top + 1
        /\ \A k \in Layer : k # w => r.z[k] = b.z[k]
    BY <1>5, <1>7, RaisedLow
  <2>. QED
    BY <1>3, <1>5, <2>1, <2>2
<1>. HIDE DEF r
<1>9. \A k \in 1 .. c : r.z[k] = m.z[k] /\ r.z[k] \in 1 .. m.top
  BY <1>1, <1>2, <1>8
<1>10. Len(r.table) = w /\ r.top = 2 * w
  BY <1>1, <1>2, <1>4, <1>8
<1>11. ASSUME NEW i \in 1 .. w PROVE r.table[i] = i
  BY <1>1, <1>2, <1>4, <1>8
<1>12. Heights(r, 1 .. w)
  <2>1. ASSUME NEW k \in 1 .. w PROVE r.z[k] \in 1 .. r.top /\ (k # w => r.z[k] # r.z[w])
    <3>1. CASE k = w
      <4>1. m.top \in Nat /\ m.top + 2 \in 1 .. m.top + 2
        BY <1>1, <1>2
      <4>. QED
        BY <1>8, <3>1, <4>1
    <3>2. CASE k # w
      <4>1. k \in 1 .. c /\ m.top \in Nat
        BY <1>1, <1>2, <3>2
      <4>. QED
        BY <1>8, <1>9, <4>1
    <3>. QED
      BY <3>1, <3>2
  <2>2. ASSUME NEW j \in 1 .. w, NEW k \in 1 .. w, r.z[j] = r.z[k] PROVE j = k
    <3>1. CASE j = w \/ k = w
      BY <2>1, <2>2, <3>1
    <3>2. CASE j # w /\ k # w
      <4>1. j \in 1 .. c /\ k \in 1 .. c
        BY <1>1, <3>2
      <4>2. m.z[j] = m.z[k]
        BY <1>9, <2>2, <4>1
      <4>. QED
        BY <4>1, <4>2 DEF Booting, Heights
    <3>. QED
      BY <3>1, <3>2
  <2>3. r.top < CURSOR_Z
    BY <1>1, <1>2, <1>8, Numbers
  <2>. QED
    BY <2>1, <2>2, <2>3 DEF Heights
<1>13. SameOrder(m, r, 1 .. c)
  BY <1>9 DEF SameOrder
<1>14. Booting(r, w)
  BY <1>8, <1>10, <1>11, <1>12 DEF Booting
<1>. QED
  BY <1>6, <1>8, <1>13, <1>14

\* With the cursor, which comes last, the table is complete.
LEMMA CursorAdded ==
    ASSUME NEW m, Booting(m, N)
    PROVE  LET r == layer_add(m, Cursor) IN
           Full(r) /\ r.top = m.top /\ \A w \in Window : r.z[w] = m.z[w]
<1>. DEFINE y == [m.z EXCEPT ![Cursor] = CURSOR_Z]
            t == Append(m.table, Cursor)
            r == layer_add(m, Cursor)
<1>1. /\ m \in Manager /\ m.table \in Seq(Layer) /\ m.z \in [Layer -> Nat] /\ m.top \in Nat
      /\ Len(m.table) = N /\ \A i \in 1 .. N : m.table[i] = i
  BY DEF Booting, Manager
<1>2. Cursor \in Layer /\ CURSOR_Z \in Nat /\ N \in Nat /\ Cursor \notin 1 .. N
  BY Numbers
<1>3. /\ y \in [Layer -> Nat] /\ y[Cursor] = CURSOR_Z
      /\ \A k \in Layer : k # Cursor => y[k] = m.z[k]
  BY <1>1, <1>2
<1>4. t \in Seq(Layer) /\ Len(t) = N + 1 /\ t[N + 1] = Cursor /\ \A i \in 1 .. N : t[i] = i
  BY <1>1, <1>2
<1>. HIDE DEF t, y
<1>5. r \in Manager /\ r.table = t /\ r.z = y /\ r.top = m.top
  <2>1. r = [[m EXCEPT !.z[Cursor] = CURSOR_Z] EXCEPT !.table = Append(@, Cursor)]
    BY DEF layer_add
  <2>. QED
    BY <1>1, <1>3, <1>4, <2>1 DEF Manager, t, y
<1>. HIDE DEF r
<1>6. Exact(r)
  <2>1. ASSUME NEW i \in 1 .. N + 1, NEW j \in 1 .. N + 1, t[i] = t[j] PROVE i = j
    BY <1>2, <1>4, <2>1
  <2>2. ASSUME NEW l \in Layer PROVE \E i \in 1 .. N + 1 : t[i] = l
    <3>1. CASE l = Cursor
      BY <1>2, <1>4, <3>1
    <3>2. CASE l # Cursor
      <4>1. l \in 1 .. N
        BY <3>2, Numbers
      <4>2. l \in 1 .. N + 1
        BY <1>2, <4>1
      <4>. QED
        BY <1>4, <4>1, <4>2
    <3>. QED
      BY <3>1, <3>2
  <2>. QED
    BY <1>4, <1>5, <2>1, <2>2 DEF Exact
<1>7. \A w \in Window : r.z[w] = m.z[w]
  BY <1>3, <1>5, Numbers
<1>8. Heights(r, Window)
  BY <1>5, <1>7, Numbers DEF Booting, Heights
<1>. QED
  BY <1>3, <1>5, <1>6, <1>7, <1>8 DEF Full, r


-----------------------------------------------------------------------------
(* The inductive invariant *)

LayersKnown ==
    /\ created \in SUBSET Window
    /\ ui \in {"create", "cursor", "run"}
    /\ ui # "create" => created = Window
    /\ ui # "run" => created = 1 .. Len(lm.table) /\ Booting(lm, Len(lm.table))
    /\ ui = "run" => Full(lm)
    /\ created = {} => active = NoWindow
    /\ created # {} => active \in created /\ lm.z[active] = lm.top

MouseTypes ==
    /\ pointer \in Place /\ cursor \in Place
    /\ held \in SUBSET Button
    /\ queue \in Seq(Event) /\ Len(queue) <= Capacity
    /\ lost \in BOOLEAN

\* A place is never off the near edges; these are the far ones.
FarEdges ==
    \A w \in created : /\ win[w].place.x + Geometry[w].w <= WIDTH
                       /\ win[w].place.y + Geometry[w].h <= HEIGHT

WindowsShown ==
    /\ win \in [Window -> [place : Place, drawn : Place]]
    /\ FarEdges
    /\ \A w \in created : win[w].drawn = win[w].place

Dragging ==
    /\ drag \in [on : BOOLEAN, win : Window \cup {NoWindow}, x : Xs, y : Ys]
    /\ drag.on => drag.win \in created
    /\ drag.win # NoWindow => drag.on
    /\ ui # "run" => ~ drag.on

\* What the events in a queue lead to.
IsMove(e) == e.type = "move"
IsLeft(e) == e.type = "button" /\ e.button = Left
IsKey(e) == e.type = "key"
At(e, p) == IsKey(e) \/ (e.x = p.x /\ e.y = p.y)
NoMove(q, i) == \A j \in DOMAIN q : i < j => ~ IsMove(q[j])
NoLeft(q, i, k) == \A j \in DOMAIN q : i < j /\ j < k => ~ IsLeft(q[j])
End(q) == Len(q) + 1

\* All that the mouse did after its last movement it did where it is now.
PlacesLead(q, p) ==
    \A i \in DOMAIN q : NoMove(q, i) => At(q[i], p)

\* Presses and releases alternate, and the last one left the button as it is.
ButtonsLead(q, down) ==
    /\ \A i \in DOMAIN q : IsLeft(q[i]) /\ NoLeft(q, i, End(q)) => (q[i].pressed <=> down)
    /\ \A i, j \in DOMAIN q :
          i < j /\ IsLeft(q[i]) /\ IsLeft(q[j]) /\ NoLeft(q, i, j) =>
             ~ (q[i].pressed <=> q[j].pressed)

\* The left button has been pressed and not released.
ReleaseNext(q, down) ==
    /\ NoLeft(q, 0, End(q)) => down
    /\ \A i \in DOMAIN q : IsLeft(q[i]) /\ NoLeft(q, 0, i) => ~ q[i].pressed

EventsLead ==
    /\ PlacesLead(queue, pointer)
    /\ ButtonsLead(queue, Left \in held)
    /\ ui = "cursor" /\ NoMove(queue, 0) => cursor.x = pointer.x
    /\ ui = "run" /\ NoMove(queue, 0) => cursor = pointer

DragLeads ==
    drag.on =>
        /\ ReleaseNext(queue, Left \in held)
        /\ drag.win = active
        /\ NoMove(queue, 0) =>
              win[drag.win].place = Placed(drag.win, pointer.x - drag.x, pointer.y - drag.y)

DesktopIInv ==
    /\ LayersKnown /\ MouseTypes /\ WindowsShown /\ Dragging
    /\ ~ lost => EventsLead /\ DragLeads

-----------------------------------------------------------------------------
(* The windows under a point *)

\* The natural numbers are well-ordered.
LEMMA Lowest ==
    ASSUME NEW T \in SUBSET Nat, T # {}
    PROVE  \E x \in T : \A y \in T : x <= y
<1>. DEFINE Q == {ss \in Nat \X Nat : ss[1] < ss[2]}
<1>1. IsWellFoundedOn(Q, Nat)
  BY NatLessThanWellFounded, Zenon DEF OpToRel
<1>2. \A x, y \in Nat : <<y, x>> \in Q <=> y < x
  OBVIOUS
<1>. HIDE DEF Q
<1>3. T \subseteq Nat
  OBVIOUS
<1>4. PICK x \in T : \A y \in T : ~ (<<y, x>> \in Q)
  BY <1>1, <1>3, WFMin, Zenon
<1>5. ASSUME NEW y \in T PROVE x <= y
  <2>1. x \in Nat /\ y \in Nat /\ ~ (<<y, x>> \in Q)
    BY <1>4
  <2>2. ~ (y < x)
    BY <1>2, <2>1, Zenon
  <2>. QED
    BY <2>1, <2>2
<1>. QED
  BY <1>5

\* What is known of the layers in every state.
LEMMA LayerFacts ==
    ASSUME LayersKnown
    PROVE  /\ lm \in Manager /\ lm.z \in [Layer -> Nat] /\ lm.top \in Nat
           /\ lm.table \in Seq(Layer)
           /\ Heights(lm, created) /\ created \subseteq Layer /\ NoWindow \notin created
<1>1. created \subseteq Layer /\ NoWindow \notin created
  BY Numbers DEF LayersKnown, NoWindow
<1>2. lm \in Manager /\ Heights(lm, created)
  <2>1. CASE ui = "run"
    BY <2>1 DEF LayersKnown, Full
  <2>2. CASE ui # "run"
    BY <2>2 DEF LayersKnown, Booting
  <2>. QED
    BY <2>1, <2>2
<1>. QED
  BY <1>1, <1>2 DEF Manager

\* The window that a press reaches is the highest of those under the point, and
\* no other is the highest.
LEMMA TopmostFacts ==
    ASSUME LayersKnown, NEW x, NEW y, HitAt(x, y) # {}
    PROVE  LET w == wm_topmost_window(x, y) IN
           /\ w \in HitAt(x, y) /\ w \in created /\ w # NoWindow
           /\ \A v \in HitAt(x, y) : v # w => lm.z[v] < lm.z[w]
<1>. DEFINE H == HitAt(x, y)
            P(w) == \A v \in H \ {w} : lm.z[v] < lm.z[w] \/ (lm.z[v] = lm.z[w] /\ w < v)
<1>1. H \subseteq created /\ H # {}
  BY DEF HitAt
<1>. HIDE DEF H
<1>2. /\ lm.top \in Nat /\ NoWindow \notin created
      /\ \A w \in H : lm.z[w] \in 1 .. lm.top
      /\ \A v, w \in H : lm.z[v] = lm.z[w] => v = w
  BY <1>1, LayerFacts DEF Heights
<1>3. PICK w \in H : \A v \in H : lm.z[v] <= lm.z[w]
  <2>. DEFINE T == {lm.top - lm.z[v] : v \in H}
  <2>1. T \in SUBSET Nat /\ T # {}
    BY <1>1, <1>2
  <2>2. PICK t \in T : \A u \in T : t <= u
    BY <2>1, Lowest
  <2>3. PICK w \in H : t = lm.top - lm.z[w]
    BY <2>2
  <2>4. \A v \in H : lm.top - lm.z[w] <= lm.top - lm.z[v]
    BY <2>2, <2>3
  <2>. QED
    BY <1>2, <2>4
<1>4. P(w)
  BY <1>2, <1>3
<1>5. \A u \in H : P(u) => u = w
  BY <1>2, <1>3
<1>6. wm_topmost_window(x, y) = CHOOSE u \in H : P(u)
  BY <1>1 DEF wm_topmost_window, H
<1>. HIDE DEF P
<1>7. wm_topmost_window(x, y) = w
  <2>1. \E u \in H : P(u)
    BY <1>4
  <2>. QED
    BY <1>5, <1>6, <2>1, Zenon
<1>8. \A v \in H : v # w => lm.z[v] < lm.z[w]
  BY <1>2, <1>3
<1>. QED
  BY <1>1, <1>2, <1>7, <1>8 DEF H


\* The table has an entry for every window, and no two at the same height.
LEMMA TableFacts ==
    ASSUME LayersKnown, NEW n, n = Len(lm.table)
    PROVE  /\ \A i, j \in 1 .. n : lm.z[lm.table[i]] = lm.z[lm.table[j]] => i = j
           /\ \A w \in created : \E i \in 1 .. n : lm.table[i] = w
<1>w. PICK d : d = n
  OBVIOUS
<1>1. CASE ui = "run"
  <2>1. Full(lm) /\ created \subseteq Layer
    BY <1>1, LayerFacts DEF LayersKnown
  <2>2. d = N + 1
    BY <1>w, <2>1 DEF Full, Exact
  <2>3. \A i \in 1 .. d : lm.table[i] \in Layer
    BY <1>w, LayerFacts
  <2>4. ASSUME NEW i \in 1 .. d, NEW j \in 1 .. d, lm.z[lm.table[i]] = lm.z[lm.table[j]]
        PROVE  i = j
    <3>1. lm.table[i] = lm.table[j]
      BY <2>1, <2>3, <2>4, DistinctHeights
    <3>. QED
      BY <2>1, <2>2, <3>1 DEF Full, Exact
  <2>5. \A w \in created : \E i \in 1 .. d : lm.table[i] = w
    BY <2>1, <2>2 DEF Full, Exact
  <2>. QED
    BY <1>w, <2>4, <2>5
<1>2. CASE ui # "run"
  <2>1. created = 1 .. d /\ \A i \in 1 .. d : lm.table[i] = i
    BY <1>2, <1>w DEF LayersKnown, Booting
  <2>2. \A v, w \in created : lm.z[v] = lm.z[w] => v = w
    BY LayerFacts DEF Heights
  <2>. QED
    BY <1>w, <2>1, <2>2
<1>. QED
  BY <1>1, <1>2

\* The window that a press reaches is the one drawn last.
LEMMA TopmostIsDrawn ==
    ASSUME LayersKnown, WindowsShown, NEW x, NEW y
    PROVE  wm_topmost_window(x, y) = DrawnAt(x, y)
<1>. PICK n : n = Len(lm.table)
  OBVIOUS
<1>. DEFINE s == SortedTable(lm)
            H == HitAt(x, y)
            D == {i \in DOMAIN s : s[i] \in {w \in created : Covers(w, win[w].drawn, x, y)}}
<1>1. /\ lm.table \in Seq(Layer) /\ lm.z \in [Layer -> Nat] /\ n \in Nat
      /\ \A i, j \in 1 .. n : lm.z[lm.table[i]] = lm.z[lm.table[j]] => i = j
      /\ \A w \in created : \E i \in 1 .. n : lm.table[i] = w
  BY LayerFacts, TableFacts
<1>2. /\ s \in Seq(Layer) /\ Len(s) = n /\ \A k \in 1 .. n : s[k] \in Layer
      /\ \A i, j \in 1 .. n : i < j => lm.z[s[i]] < lm.z[s[j]]
      /\ \A j \in 1 .. n : \E k \in 1 .. n : s[k] = lm.table[j]
  BY <1>1, StrictSort
<1>3. DrawnAt(x, y) = IF D = {} THEN NoWindow
                      ELSE s[CHOOSE i \in D : \A j \in D : j <= i]
  BY DEF DrawnAt
<1>. HIDE DEF s
<1>4. \A i : i \in D <=> i \in 1 .. n /\ s[i] \in H
  <2>1. DOMAIN s = 1 .. n
    BY <1>2
  <2>2. \A w \in created : win[w].drawn = win[w].place
    BY DEF WindowsShown
  <2>. QED
    BY <2>1, <2>2 DEF HitAt
<1>. HIDE DEF H, D
<1>5. CASE H = {}
  <2>1. D = {}
    BY <1>4, <1>5
  <2>2. wm_topmost_window(x, y) = NoWindow
    BY <1>5 DEF wm_topmost_window, H
  <2>. QED
    BY <1>3, <2>1, <2>2
<1>6. CASE H # {}
  <2>. PICK w : w = wm_topmost_window(x, y)
    OBVIOUS
  <2>1. w \in H /\ w \in created /\ \A v \in H : v # w => lm.z[v] < lm.z[w]
    BY <1>6, TopmostFacts DEF H
  <2>2. PICK i \in 1 .. n : s[i] = w
    <3>1. PICK j \in 1 .. n : lm.table[j] = w
      BY <1>1, <2>1
    <3>. QED
      BY <1>2, <3>1
  <2>3. i \in D
    BY <1>4, <2>1, <2>2
  <2>4. ASSUME NEW j \in D PROVE j <= i
    <3>1. j \in 1 .. n /\ s[j] \in H /\ s[j] \in Layer
      BY <1>2, <1>4
    <3>2. SUFFICES ASSUME i < j PROVE FALSE
      BY <2>2, <3>1
    <3>3. lm.z[w] < lm.z[s[j]] /\ lm.z[w] \in Nat /\ lm.z[s[j]] \in Nat
      BY <1>1, <1>2, <2>2, <3>1, <3>2
    <3>4. s[j] # w
      BY <3>3
    <3>. QED
      BY <2>1, <3>1, <3>3, <3>4
  <2>5. D \subseteq Nat
    BY <1>4
  <2>6. (CHOOSE k \in D : \A j \in D : j <= k) = i
    <3>1. ASSUME NEW k \in D, \A j \in D : j <= k PROVE k = i
      <4>1. k \in Nat /\ i \in Nat /\ i <= k /\ k <= i
        BY <2>3, <2>4, <2>5, <3>1
      <4>. QED
        BY <4>1
    <3>. QED
      BY <2>3, <2>4, <3>1, Zenon
  <2>. QED
    BY <1>3, <2>2, <2>3, <2>6
<1>. QED
  BY <1>5, <1>6

-----------------------------------------------------------------------------
(* Steps of the layers *)

Untouched == UNCHANGED <<lm, created, active>>

\* Booting is over a number of layers that the set of windows tells.
LEMMA BootFacts ==
    ASSUME LayersKnown, ui # "run", NEW c \in Nat, created = 1 .. c
    PROVE  Booting(lm, c)
<1>. PICK n : n = Len(lm.table)
  OBVIOUS
<1>1. created = 1 .. n /\ Booting(lm, n) /\ n \in Nat
  BY LayerFacts DEF LayersKnown
<1>2. n = c
  <2>1. \A k \in Nat : k \in 1 .. n <=> k \in 1 .. c
    BY <1>1
  <2>2. n >= 1 => n <= c
    BY <1>1, <2>1
  <2>3. c >= 1 => c <= n
    BY <1>1, <2>1
  <2>. QED
    BY <1>1, <2>2, <2>3
<1>. QED
  BY <1>1, <1>2

\* The order of the windows other than the one that becomes active.
OrderStep ==
    \A v, w \in created \ {active'} : (lm.z[v] < lm.z[w]) = (lm'.z[v] < lm'.z[w])

\* kernel_main creates a window.
LEMMA CreateKeepsLayers ==
    ASSUME LayersKnown, NEW w \in Window, wm_create_window(w)
    PROVE  LayersKnown' /\ OrderStep /\ created' = created \cup {w} /\ w \notin created
<1>1. /\ ui = "create" /\ ui' = ui /\ created = 1 .. w - 1 /\ created' = created \cup {w}
      /\ lm' = wm_focus(layer_add(lm, w), w) /\ active' = w
  BY DEF wm_create_window
<1>2. w \in Nat /\ w >= 1 /\ w - 1 \in Nat /\ w \notin 1 .. w - 1
  BY Numbers
<1>3. Booting(lm, w - 1)
  BY <1>1, <1>2, BootFacts
<1>4. Booting(lm', w) /\ lm'.z[w] = lm'.top /\ SameOrder(lm, lm', 1 .. w - 1)
  BY <1>1, <1>3, WindowAdded
<1>5. created' = 1 .. w /\ Len(lm'.table) = w
  BY <1>1, <1>2, <1>4 DEF Booting
<1>6. OrderStep
  BY <1>1, <1>4 DEF OrderStep, SameOrder
<1>7. LayersKnown'
  <2>1. created' \in SUBSET Window
    BY <1>1 DEF LayersKnown
  <2>. QED
    BY <1>1, <1>4, <1>5, <2>1 DEF LayersKnown
<1>. QED
  BY <1>1, <1>2, <1>6, <1>7

\* Then the cursor's layer comes on top.
LEMMA CursorKeepsLayers ==
    ASSUME LayersKnown, GetMouseX \/ cursor_init
    PROVE  LayersKnown' /\ OrderStep
<1>1. CASE GetMouseX
  BY <1>1 DEF GetMouseX, windows, LayersKnown, OrderStep
<1>2. CASE cursor_init
  <2>1. /\ ui = "cursor" /\ ui' = "run" /\ lm' = layer_add(lm, Cursor)
        /\ UNCHANGED <<created, active>>
    BY <1>2 DEF cursor_init
  <2>2. created = Window /\ Window = 1 .. N /\ N \in Nat
    BY <2>1, Numbers DEF LayersKnown
  <2>3. Booting(lm, N)
    BY <2>1, <2>2, BootFacts
  <2>4. Full(lm') /\ lm'.top = lm.top /\ \A w \in Window : lm'.z[w] = lm.z[w]
    BY <2>1, <2>3, CursorAdded
  <2>5. OrderStep
    BY <2>2, <2>4 DEF OrderStep
  <2>6. LayersKnown'
    BY <2>1, <2>2, <2>4 DEF LayersKnown
  <2>. QED
    BY <2>5, <2>6
<1>. QED
  BY <1>1, <1>2

\* A press raises the window that it reaches, twice if that is by its title bar.
LEMMA PressKeepsLayers ==
    ASSUME LayersKnown, ui = "run", ui' = ui, NEW e, LeftPressed(e)
    PROVE  /\ LayersKnown' /\ OrderStep /\ created' = created
           /\ LET w == wm_topmost_window(e.x, e.y) IN
              w # NoWindow => active' = w /\ w \in HitAt(e.x, e.y) /\ w \in created
<1>. PICK w : w = wm_topmost_window(e.x, e.y)
  OBVIOUS
<1>. DEFINE onTitle == w # NoWindow /\ wm_is_on_titlebar(w, e.x, e.y)
<1>1. /\ active' = IF w = NoWindow THEN active ELSE w
      /\ lm' = CASE w = NoWindow -> lm
                 [] onTitle -> layer_bring_to_front(wm_focus(lm, w), w)
                 [] OTHER -> wm_focus(lm, w)
      /\ created' = created
  BY DEF LeftPressed
<1>. HIDE DEF onTitle
<1>2. Full(lm) /\ created = Window
  BY DEF LayersKnown
<1>3. CASE w = NoWindow
  <2>1. ~ onTitle
    BY <1>3 DEF onTitle
  <2>2. lm' = lm /\ active' = active
    BY <1>1, <1>3, <2>1
  <2>. QED
    BY <1>1, <1>3, <2>2 DEF LayersKnown, OrderStep
<1>4. CASE w # NoWindow
  <2>1. w \in HitAt(e.x, e.y) /\ w \in created
    <3>1. HitAt(e.x, e.y) # {}
      BY <1>4 DEF wm_topmost_window
    <3>. QED
      BY <3>1, TopmostFacts
  <2>. PICK a : a = layer_bring_to_front(lm, w)
    OBVIOUS
  <2>2. Full(a) /\ a.z[w] = a.top /\ SameOrder(lm, a, Window \ {w})
    BY <1>2, <2>1, Raised
  <2>3. /\ Full(lm') /\ lm'.z[w] = lm'.top /\ SameOrder(lm, lm', Window \ {w})
        /\ active' = w
    <3>1. CASE onTitle
      <4>1. lm' = layer_bring_to_front(a, w) /\ active' = w
        BY <1>1, <1>4, <3>1 DEF wm_focus
      <4>2. Full(lm') /\ lm'.z[w] = lm'.top /\ SameOrder(a, lm', Window \ {w})
        BY <1>2, <2>1, <2>2, <4>1, Raised
      <4>3. SameOrder(lm, lm', Window \ {w})
        BY <2>2, <4>2 DEF SameOrder
      <4>. QED
        BY <4>1, <4>2, <4>3
    <3>2. CASE ~ onTitle
      BY <1>1, <1>4, <2>2, <3>2 DEF wm_focus
    <3>. QED
      BY <3>1, <3>2
  <2>4. OrderStep
    BY <1>2, <2>3 DEF OrderStep, SameOrder
  <2>5. LayersKnown'
    BY <1>1, <1>2, <2>1, <2>3 DEF LayersKnown
  <2>. QED
    BY <1>1, <2>1, <2>3, <2>4, <2>5
<1>. QED
  BY <1>3, <1>4

\* Composing sorts the table and changes no height.
LEMMA ComposeKeepsLayers ==
    ASSUME LayersKnown, compositor_compose
    PROVE  LayersKnown' /\ OrderStep
<1>1. /\ ui = "run" /\ lm' = layer_get_all(lm) /\ UNCHANGED <<created, active, ui>>
  BY DEF compositor_compose
<1>2. Full(lm') /\ lm'.z = lm.z /\ lm'.top = lm.top
  BY <1>1, SortedFull DEF LayersKnown
<1>3. OrderStep
  BY <1>2 DEF OrderStep
<1>4. LayersKnown'
  BY <1>1, <1>2 DEF LayersKnown
<1>. QED
  BY <1>3, <1>4

\* Nothing else touches the layers.
LEMMA UntouchedLayers ==
    ASSUME LayersKnown, Untouched, ui' = ui
    PROVE  LayersKnown' /\ OrderStep
BY DEF LayersKnown, Untouched, OrderStep


-----------------------------------------------------------------------------
(* Places *)

\* What the assumptions say of the screen and the windows.
LEMMA Sizes ==
    /\ WIDTH \in Nat /\ WIDTH >= 1 /\ HEIGHT \in Nat /\ HEIGHT >= 1 /\ TITLE_HEIGHT \in Nat
    /\ Capacity \in Nat
    /\ \A w \in Window :
          /\ Geometry[w].x \in Nat /\ Geometry[w].y \in Nat
          /\ Geometry[w].w \in Nat /\ Geometry[w].h \in Nat
          /\ Geometry[w].w >= 1 /\ Geometry[w].h >= 1
          /\ Geometry[w].x + Geometry[w].w <= WIDTH
          /\ Geometry[w].y + Geometry[w].h <= HEIGHT
<1>1. \A w \in Window : Geometry[w] \in [x : Nat, y : Nat, w : Nat \ {0}, h : Nat \ {0}]
  BY DesktopAssumption
<1>. QED
  BY <1>1, DesktopAssumption

\* A value is kept within its limits, and one that is within them stays.
LEMMA WithinFacts ==
    ASSUME NEW v \in Int, NEW max \in Nat
    PROVE  Within(v, max) \in 0 .. max /\ (v \in 0 .. max => Within(v, max) = v)
BY DEF Within

\* The place that a dragged window gets is on the screen, and its own is kept.
LEMMA PlacedFacts ==
    ASSUME NEW w \in Window, NEW x \in Int, NEW y \in Int
    PROVE  /\ Placed(w, x, y) \in Place
           /\ Placed(w, x, y).x + Geometry[w].w <= WIDTH
           /\ Placed(w, x, y).y + Geometry[w].h <= HEIGHT
           /\ x >= 0 /\ x + Geometry[w].w <= WIDTH => Placed(w, x, y).x = x
           /\ y >= 0 /\ y + Geometry[w].h <= HEIGHT => Placed(w, x, y).y = y
<1>a. PICK a, b : a = WIDTH - Geometry[w].w /\ b = HEIGHT - Geometry[w].h
  OBVIOUS
<1>c. PICK c, d : c = Within(x, a) /\ d = Within(y, b)
  OBVIOUS
<1>1. /\ a \in Nat /\ a <= WIDTH - 1 /\ a + Geometry[w].w = WIDTH
      /\ b \in Nat /\ b <= HEIGHT - 1 /\ b + Geometry[w].h = HEIGHT
      /\ WIDTH \in Nat /\ HEIGHT \in Nat /\ Geometry[w].w \in Nat /\ Geometry[w].h \in Nat
  BY <1>a, Sizes
<1>2. /\ c \in 0 .. a /\ (x \in 0 .. a => c = x)
      /\ d \in 0 .. b /\ (y \in 0 .. b => d = y)
  <2>1. \A v \in Int, max \in Nat :
           Within(v, max) \in 0 .. max /\ (v \in 0 .. max => Within(v, max) = v)
    BY WithinFacts
  <2>2. a \in Nat /\ b \in Nat
    BY <1>1
  <2>3. c \in 0 .. a /\ (x \in 0 .. a => c = x)
    BY <1>c, <2>1, <2>2
  <2>4. d \in 0 .. b /\ (y \in 0 .. b => d = y)
    BY <1>c, <2>1, <2>2
  <2>. QED
    BY <2>3, <2>4
<1>3. Placed(w, x, y) = [x |-> c, y |-> d]
  BY <1>a, <1>c DEF Placed
<1>4. Placed(w, x, y).x = c /\ Placed(w, x, y).y = d
  BY <1>3
<1>5. c \in Xs /\ d \in Ys
  BY <1>1, <1>2 DEF Xs, Ys
<1>6. Placed(w, x, y) \in Place
  BY <1>3, <1>5 DEF Place
<1>7. c + Geometry[w].w <= WIDTH /\ d + Geometry[w].h <= HEIGHT
  BY <1>1, <1>2
<1>8. x >= 0 /\ x + Geometry[w].w <= WIDTH => c = x
  BY <1>1, <1>2
<1>9. y >= 0 /\ y + Geometry[w].h <= HEIGHT => d = y
  BY <1>1, <1>2
<1>. QED
  BY <1>4, <1>6, <1>7, <1>8, <1>9

\* An event of the mouse has a place on the screen.
LEMMA EventFacts ==
    ASSUME NEW e \in Event, ~ IsKey(e)
    PROVE  /\ e.x \in Xs /\ e.y \in Ys /\ e.x \in Int /\ e.y \in Int
           /\ [x |-> e.x, y |-> e.y] \in Place
           /\ e.type = "move" \/ e.type = "button"
           /\ IsLeft(e) => e.pressed \in BOOLEAN
<1>1. /\ e.x \in Xs /\ e.y \in Ys /\ (e.type = "move" \/ e.type = "button")
      /\ IsLeft(e) => e.pressed \in BOOLEAN
  BY DEF Event, IsLeft, IsKey, KeyEvent
<1>2. Xs \subseteq Int /\ Ys \subseteq Int
  BY DEF Xs, Ys
<1>. QED
  BY <1>1, <1>2 DEF Place

-----------------------------------------------------------------------------
(* Steps of the windows and the drag *)

\* A window is created where its geometry says, which is on the screen.
LEMMA CreateKeepsWindows ==
    ASSUME LayersKnown, WindowsShown, Dragging, NEW w \in Window, wm_create_window(w)
    PROVE  WindowsShown' /\ Dragging'
<1>. DEFINE p == [x |-> Geometry[w].x, y |-> Geometry[w].y]
<1>1. /\ ui = "create" /\ ui' = ui /\ created' = created \cup {w} /\ drag' = drag
      /\ win' = [win EXCEPT ![w] = [place |-> p, drawn |-> p]]
  BY DEF wm_create_window
<1>2. /\ p \in Place /\ p.x = Geometry[w].x /\ p.y = Geometry[w].y
      /\ p.x + Geometry[w].w <= WIDTH /\ p.y + Geometry[w].h <= HEIGHT
  <2>1. Geometry[w].x \in Xs /\ Geometry[w].y \in Ys
    BY Sizes DEF Xs, Ys
  <2>. QED
    BY <2>1, Sizes DEF Place
<1>. HIDE DEF p
<1>3. /\ win' \in [Window -> [place : Place, drawn : Place]]
      /\ win'[w].place = p /\ win'[w].drawn = p
      /\ \A v \in Window : v # w => win'[v] = win[v]
  BY <1>1, <1>2 DEF WindowsShown
<1>4. created \subseteq Window
  BY DEF LayersKnown
<1>5. WindowsShown'
  BY <1>1, <1>2, <1>3, <1>4 DEF WindowsShown, FarEdges
<1>6. Dragging'
  BY <1>1 DEF Dragging
<1>. QED
  BY <1>5, <1>6

\* A movement puts the dragged window where it is kept on the screen.
LEMMA MoveKeepsWindows ==
    ASSUME LayersKnown, WindowsShown, Dragging, NEW e \in Event, ~ IsKey(e), MouseMove(e),
           ui' = ui
    PROVE  /\ WindowsShown' /\ Dragging'
           /\ drag.on => win'[drag.win].place = Placed(drag.win, e.x - drag.x, e.y - drag.y)
<1>1. created' = created /\ drag' = drag /\ created \subseteq Window
  BY DEF MouseMove, LayersKnown
<1>2. Dragging'
  BY <1>1 DEF Dragging
<1>3. CASE drag.on
  <2>w. PICK w : w = drag.win
    OBVIOUS
  <2>p. PICK p : p = Placed(w, e.x - drag.x, e.y - drag.y)
    OBVIOUS
  <2>1. w \in created /\ w \in Window /\ w # NoWindow
    BY <1>1, <1>3, <2>w, LayerFacts DEF Dragging
  <2>2. e.x - drag.x \in Int /\ e.y - drag.y \in Int
    <3>1. drag.x \in Xs /\ drag.y \in Ys
      BY DEF Dragging
    <3>2. drag.x \in Int /\ drag.y \in Int
      BY <3>1 DEF Xs, Ys
    <3>3. e.x \in Int /\ e.y \in Int
      BY EventFacts, Zenon
    <3>. QED
      BY <3>2, <3>3
  <2>3. /\ p \in Place /\ p.x + Geometry[w].w <= WIDTH /\ p.y + Geometry[w].h <= HEIGHT
    BY <2>1, <2>2, <2>p, PlacedFacts
  <2>4. win' = [win EXCEPT ![w] = [place |-> p, drawn |-> p]]
    BY <1>3, <2>1, <2>w, <2>p DEF MouseMove, wm_move_window
  <2>5. /\ win' \in [Window -> [place : Place, drawn : Place]]
        /\ win'[w].place = p /\ win'[w].drawn = p
        /\ \A v \in Window : v # w => win'[v] = win[v]
    BY <2>1, <2>3, <2>4 DEF WindowsShown
  <2>6. WindowsShown'
    BY <1>1, <2>3, <2>5 DEF WindowsShown, FarEdges
  <2>. QED
    BY <1>2, <2>5, <2>6, <2>w, <2>p
<1>4. CASE ~ drag.on
  BY <1>1, <1>2, <1>4 DEF MouseMove, WindowsShown, FarEdges
<1>. QED
  BY <1>3, <1>4

\* A press in a title bar grabs the window at a point inside it.
LEMMA PressKeepsWindows ==
    ASSUME LayersKnown, WindowsShown, Dragging, NEW e \in Event, ~ IsKey(e), LeftPressed(e),
           ui = "run", ui' = ui
    PROVE  /\ WindowsShown' /\ Dragging'
           /\ \/ drag' = drag
              \/ /\ drag'.on /\ drag'.win = active' /\ drag'.win \in created
                 /\ win[drag'.win].place =
                       Placed(drag'.win, e.x - drag'.x, e.y - drag'.y)
<1>w. PICK w : w = wm_topmost_window(e.x, e.y)
  OBVIOUS
<1>. DEFINE onTitle == w # NoWindow /\ wm_is_on_titlebar(w, e.x, e.y)
<1>1. /\ drag' = (IF onTitle THEN Grab(w, e) ELSE drag)
      /\ win' = win /\ created' = created /\ created \subseteq Window
  BY <1>w DEF LeftPressed, LayersKnown
<1>2. WindowsShown'
  BY <1>1 DEF WindowsShown, FarEdges
<1>3. CASE ~ onTitle
  BY <1>1, <1>2, <1>3 DEF Dragging
<1>4. CASE onTitle
  <2>1. active' = w /\ w \in created /\ w \in Window /\ w # NoWindow
    BY <1>w, <1>1, <1>4, PressKeepsLayers
  <2>p. PICK p : p = win[w].place
    OBVIOUS
  <2>x. PICK px, py : px = p.x /\ py = p.y
    OBVIOUS
  <2>e. PICK ex, ey : ex = e.x /\ ey = e.y
    OBVIOUS
  <2>2. /\ p \in Place /\ px \in Xs /\ py \in Ys
        /\ px + Geometry[w].w <= WIDTH /\ py + Geometry[w].h <= HEIGHT
    BY <2>1, <2>p, <2>x DEF WindowsShown, FarEdges, Place
  <2>3. px \in Nat /\ py \in Nat /\ ex \in Xs /\ ey \in Ys /\ ex \in Nat /\ ey \in Nat
    <3>1. e.x \in Xs /\ e.y \in Ys
      BY EventFacts, Zenon
    <3>. QED
      BY <2>2, <2>e, <3>1 DEF Xs, Ys
  <2>4. px <= ex /\ py + 1 <= ey
    BY <1>4, <2>p, <2>x, <2>e DEF wm_is_on_titlebar
  <2>5. ex - px \in Xs /\ ey - py \in Ys
    BY <2>3, <2>4, Sizes DEF Xs, Ys
  <2>6. drag' = [on |-> TRUE, win |-> w, x |-> ex - px, y |-> ey - py]
    BY <1>1, <1>4, <2>p, <2>x, <2>e DEF Grab
  <2>7. Dragging'
    <3>1. drag'.win \in created' /\ drag'.on /\ ui' # "create" /\ ui' = "run"
      BY <1>1, <2>1, <2>6
    <3>2. drag' \in [on : BOOLEAN, win : Window \cup {NoWindow}, x : Xs, y : Ys]
      BY <2>1, <2>5, <2>6
    <3>. QED
      BY <3>1, <3>2 DEF Dragging
  <2>8. /\ drag'.on /\ drag'.win = w /\ ex - drag'.x = px /\ ey - drag'.y = py
    BY <2>3, <2>6
  <2>9. Placed(w, px, py) = p
    <3>1. Placed(w, px, py) \in Place /\ Placed(w, px, py).x = px /\ Placed(w, px, py).y = py
      BY <2>1, <2>2, <2>3, PlacedFacts
    <3>. QED
      BY <2>2, <2>x, <3>1 DEF Place
  <2>. QED
    BY <1>2, <2>1, <2>7, <2>8, <2>9, <2>e, <2>p
<1>. QED
  BY <1>3, <1>4

\* A release ends the drag.
LEMMA ReleaseKeepsWindows ==
    ASSUME LayersKnown, WindowsShown, Dragging, NEW e, LeftReleased(e), ui' = ui
    PROVE  WindowsShown' /\ Dragging' /\ ~ drag'.on
<1>1. /\ drag' = [drag EXCEPT !.on = FALSE, !.win = NoWindow]
      /\ UNCHANGED <<win, created>>
  BY DEF LeftReleased, windows
<1>2. WindowsShown'
  BY <1>1 DEF WindowsShown, FarEdges
<1>3. /\ drag' \in [on : BOOLEAN, win : Window \cup {NoWindow}, x : Xs, y : Ys]
      /\ drag'.on = FALSE /\ drag'.win = NoWindow
  BY <1>1 DEF Dragging
<1>. QED
  BY <1>2, <1>3 DEF Dragging



-----------------------------------------------------------------------------
(* The events of a packet *)

\* t, a sequence over S, is q followed by u.
IsJoined(t, S, q, u) ==
    /\ t \in Seq(S) /\ Len(t) = Len(q) + Len(u)
    /\ \A i \in 1 .. Len(q) : t[i] = q[i]
    /\ \A i \in 1 .. Len(u) : t[Len(q) + i] = u[i]

\* That is what joining two sequences does.
LEMMA Joined ==
    ASSUME NEW S, NEW q \in Seq(S), NEW u \in Seq(S)
    PROVE  IsJoined(q \o u, S, q, u)
<1>1. /\ q \o u \in Seq(S) /\ Len(q \o u) = Len(q) + Len(u)
      /\ \A i \in 1 .. Len(q) + Len(u) :
            (q \o u)[i] = IF i <= Len(q) THEN q[i] ELSE u[i - Len(q)]
  BY ConcatProperties, Zenon
<1>2. Len(q) \in Nat /\ Len(u) \in Nat
  OBVIOUS
<1>. DEFINE t == q \o u
<1>. HIDE DEF t
<1>w. PICK m, n : m = Len(q) /\ n = Len(u)
  OBVIOUS
<1>3. ASSUME NEW i \in 1 .. m PROVE t[i] = q[i]
  BY <1>1, <1>2, <1>w, <1>3 DEF t
<1>4. ASSUME NEW i \in 1 .. n PROVE t[m + i] = u[i]
  <2>1. m + i \in 1 .. m + n /\ ~ (m + i <= m) /\ (m + i) - m = i
    BY <1>2, <1>w, <1>4
  <2>2. t[m + i] = IF m + i <= m THEN q[m + i] ELSE u[(m + i) - m]
    BY <1>1, <1>w, <2>1, Zenon DEF t
  <2>. QED
    BY <2>1, <2>2
<1>5. t \in Seq(S) /\ Len(t) = m + n
  BY <1>1, <1>w, Zenon DEF t
<1>. QED
  BY <1>3, <1>4, <1>5, <1>w, Zenon DEF t, IsJoined

\* Events at p without one of the left button.
Plain(s, p) ==
    /\ s \in Seq(Event)
    /\ \A i \in DOMAIN s : At(s[i], p) /\ ~ IsLeft(s[i])

\* Events at p with the one of the left button, if it changed to down.
Packed(s, p, changed, down) ==
    /\ s \in Seq(Event)
    /\ \A i \in DOMAIN s : At(s[i], p)
    /\ \A i \in DOMAIN s : IsLeft(s[i]) => changed /\ (s[i].pressed <=> down)
    /\ \A i, j \in DOMAIN s : IsLeft(s[i]) /\ IsLeft(s[j]) => i = j
    /\ changed => \E i \in DOMAIN s : IsLeft(s[i])

\* Events of other kinds may follow the one of the left button.
LEMMA PackedPlain ==
    ASSUME NEW s, NEW r, NEW p, NEW c, NEW d, Packed(s, p, c, d), Plain(r, p)
    PROVE  Packed(s \o r, p, c, d)
<1>. DEFINE t == s \o r
<1>w. PICK m, n : m = Len(s) /\ n = Len(r)
  OBVIOUS
<1>1. /\ t \in Seq(Event) /\ Len(t) = m + n /\ m \in Nat /\ n \in Nat
      /\ \A i \in 1 .. m : t[i] = s[i]
      /\ \A i \in 1 .. n : t[m + i] = r[i]
  <2>1. s \in Seq(Event) /\ r \in Seq(Event)
    BY DEF Packed, Plain
  <2>2. m \in Nat /\ n \in Nat
    BY <2>1, <1>w
  <2>3. IsJoined(t, Event, s, r)
    BY <2>1, Joined, Zenon
  <2>. HIDE DEF t
  <2>. QED
    BY <2>2, <2>3, <1>w DEF IsJoined
<1>. HIDE DEF t
<1>2. DOMAIN s = 1 .. m /\ DOMAIN r = 1 .. n /\ DOMAIN t = 1 .. m + n
  BY <1>1, <1>w DEF Packed, Plain
<1>3. ASSUME NEW i \in DOMAIN t
      PROVE  \/ i \in DOMAIN s /\ t[i] = s[i]
             \/ At(t[i], p) /\ ~ IsLeft(t[i])
  <2>1. CASE i <= m
    BY <1>1, <1>2, <2>1
  <2>2. CASE ~ (i <= m)
    <3>w. PICK k : k = i - m
      OBVIOUS
    <3>1. k \in DOMAIN r /\ i = m + k
      BY <1>1, <1>2, <2>2, <3>w
    <3>2. t[i] = r[k]
      BY <1>1, <1>2, <3>1
    <3>. QED
      BY <3>1, <3>2 DEF Plain
  <2>. QED
    BY <2>1, <2>2
<1>4. \A i \in DOMAIN s : i \in DOMAIN t /\ t[i] = s[i]
  BY <1>1, <1>2
<1>. QED
  BY <1>1, <1>3, <1>4 DEF Packed, t

\* Events of other kinds may come before it.
LEMMA PlainPacked ==
    ASSUME NEW r, NEW s, NEW p, NEW c, NEW d, Plain(r, p), Packed(s, p, c, d)
    PROVE  Packed(r \o s, p, c, d)
<1>. DEFINE t == r \o s
<1>w. PICK m, n : m = Len(r) /\ n = Len(s)
  OBVIOUS
<1>1. /\ t \in Seq(Event) /\ Len(t) = m + n /\ m \in Nat /\ n \in Nat
      /\ \A i \in 1 .. m : t[i] = r[i]
      /\ \A i \in 1 .. n : t[m + i] = s[i]
  <2>1. s \in Seq(Event) /\ r \in Seq(Event)
    BY DEF Packed, Plain
  <2>2. m \in Nat /\ n \in Nat
    BY <2>1, <1>w
  <2>3. IsJoined(t, Event, r, s)
    BY <2>1, Joined, Zenon
  <2>. HIDE DEF t
  <2>. QED
    BY <2>2, <2>3, <1>w DEF IsJoined
<1>. HIDE DEF t
<1>2. DOMAIN r = 1 .. m /\ DOMAIN s = 1 .. n /\ DOMAIN t = 1 .. m + n
  BY <1>1, <1>w DEF Packed, Plain
<1>3. ASSUME NEW i \in DOMAIN t
      PROVE  \/ i - m \in DOMAIN s /\ t[i] = s[i - m]
             \/ At(t[i], p) /\ ~ IsLeft(t[i])
  <2>1. CASE i <= m
    BY <1>1, <1>2, <2>1 DEF Plain
  <2>2. CASE ~ (i <= m)
    <3>w. PICK k : k = i - m
      OBVIOUS
    <3>1. k \in DOMAIN s /\ i = m + k
      BY <1>1, <1>2, <2>2, <3>w
    <3>. QED
      BY <1>1, <1>2, <3>1, <3>w
  <2>. QED
    BY <2>1, <2>2
<1>4. \A i \in DOMAIN s : m + i \in DOMAIN t /\ t[m + i] = s[i]
  BY <1>1, <1>2
<1>5. ASSUME NEW i \in DOMAIN t PROVE At(t[i], p)
  BY <1>3 DEF Packed
<1>6. ASSUME NEW i \in DOMAIN t, IsLeft(t[i]) PROVE c /\ (t[i].pressed <=> d)
  BY <1>3, <1>6 DEF Packed
<1>7. ASSUME NEW i \in DOMAIN t, NEW j \in DOMAIN t, IsLeft(t[i]), IsLeft(t[j]) PROVE i = j
  <2>1. /\ i - m \in DOMAIN s /\ IsLeft(s[i - m])
        /\ j - m \in DOMAIN s /\ IsLeft(s[j - m])
    BY <1>3, <1>7
  <2>2. i - m = j - m
    BY <2>1 DEF Packed
  <2>. QED
    BY <1>1, <1>2, <2>2
<1>8. ASSUME c PROVE \E i \in DOMAIN t : IsLeft(t[i])
  BY <1>4, <1>8 DEF Packed
<1>. QED
  BY <1>1, <1>5, <1>6, <1>7, <1>8 DEF Packed, t


\* The event of one button.
ButtonEvent(b, before, after, p) ==
    IF (b \in before) # (b \in after)
    THEN <<[type |-> "button", button |-> b, pressed |-> b \in after, x |-> p.x, y |-> p.y]>>
    ELSE << >>

\* A sequence of one event has that event and no other.
LEMMA OneEvent ==
    ASSUME NEW e \in Event
    PROVE  /\ <<e>> \in Seq(Event) /\ DOMAIN <<e>> = {1} /\ <<e>>[1] = e
           /\ << >> \in Seq(Event) /\ DOMAIN << >> = {}
OBVIOUS

\* The left button has its event exactly if it changed.
LEMMA LeftEvent ==
    ASSUME NEW before \in SUBSET Button, NEW after \in SUBSET Button, NEW p \in Place
    PROVE  Packed(ButtonEvent("left", before, after, p), p,
                  ~ (Left \in before <=> Left \in after), Left \in after)
<1>. DEFINE s == ButtonEvent("left", before, after, p)
            c == ~ (Left \in before <=> Left \in after)
            d == Left \in after
<1>w. PICK e : e = [type |-> "button", button |-> "left", pressed |-> d, x |-> p.x, y |-> p.y]
  OBVIOUS
<1>1. ASSUME c PROVE Packed(s, p, c, d)
  <2>1. "left" \in Button
    BY <1>1 DEF Left
  <2>2. p.x \in Xs /\ p.y \in Ys
    BY DEF Place
  <2>3. /\ e \in Event /\ IsLeft(e) /\ At(e, p) /\ (e.pressed <=> d)
    <3>1. d \in BOOLEAN
      OBVIOUS
    <3>. HIDE DEF d
    <3>2. e.pressed = d
      BY <1>w
    <3>3. e \in Event
      BY <1>w, <2>1, <2>2, <3>1 DEF Event
    <3>4. IsLeft(e) /\ At(e, p)
      BY <1>w DEF IsLeft, Left, At
    <3>. QED
      BY <3>2, <3>3, <3>4
  <2>4. s = <<e>>
    BY <1>1, <1>w, Zenon DEF ButtonEvent, Left
  <2>5. s \in Seq(Event) /\ DOMAIN s = {1} /\ s[1] = e
    BY <2>3, <2>4, OneEvent
  <2>. HIDE DEF s, d
  <2>. QED
    BY <1>1, <2>3, <2>5, Zenon DEF Packed
<1>2. ASSUME ~ c PROVE Packed(s, p, c, d)
  <2>1. s = << >>
    <3>1. ("left" \in before) = ("left" \in after)
      BY <1>2 DEF Left
    <3>. QED
      BY <3>1, Zenon DEF ButtonEvent
  <2>2. s \in Seq(Event) /\ DOMAIN s = {}
    <3>. HIDE DEF s
    <3>. QED
      BY <2>1
  <2>. HIDE DEF s, c, d
  <2>. QED
    BY <1>2, <2>2 DEF Packed
<1>. QED
  BY <1>1, <1>2, Zenon

\* Another button has an event that is not one of the left button.
LEMMA OtherEvent ==
    ASSUME NEW before \in SUBSET Button, NEW after \in SUBSET Button, NEW p \in Place,
           NEW b, b # Left
    PROVE  Plain(ButtonEvent(b, before, after, p), p)
<1>. DEFINE s == ButtonEvent(b, before, after, p)
            c == ~ (b \in before <=> b \in after)
            d == b \in after
<1>w. PICK e : e = [type |-> "button", button |-> b, pressed |-> d, x |-> p.x, y |-> p.y]
  OBVIOUS
<1>1. ASSUME c PROVE Plain(s, p)
  <2>1. b \in Button
    BY <1>1
  <2>2. p.x \in Xs /\ p.y \in Ys
    BY DEF Place
  <2>3. e \in Event /\ ~ IsLeft(e) /\ At(e, p)
    BY <1>w, <2>1, <2>2 DEF Event, IsLeft, At
  <2>4. s = <<e>>
    BY <1>1, <1>w, Zenon DEF ButtonEvent
  <2>5. s \in Seq(Event) /\ DOMAIN s = {1} /\ s[1] = e
    BY <2>3, <2>4, OneEvent
  <2>. HIDE DEF s
  <2>. QED
    BY <2>3, <2>5 DEF Plain
<1>2. ASSUME ~ c PROVE Plain(s, p)
  <2>1. s = << >>
    <3>1. (b \in before) = (b \in after)
      BY <1>2
    <3>. QED
      BY <3>1, Zenon DEF ButtonEvent
  <2>2. s \in Seq(Event) /\ DOMAIN s = {}
    <3>. HIDE DEF s
    <3>. QED
      BY <2>1
  <2>. HIDE DEF s
  <2>. QED
    BY <2>2 DEF Plain
<1>. QED
  BY <1>1, <1>2, Zenon

\* The events of a packet are at its place: a movement if it moved, and the one
\* of the left button if that changed.
LEMMA PacketFacts ==
    ASSUME NEW before \in SUBSET Button, NEW after \in SUBSET Button, NEW p \in Place,
           NEW dx \in Int, NEW dy \in Int
    PROVE  LET ev == MoveEvents(dx, dy, p) \o ButtonEvents(before, after, p) IN
           /\ Packed(ev, p, ~ (Left \in before <=> Left \in after), Left \in after)
           /\ dx # 0 \/ dy # 0 => ~ NoMove(ev, 0)
<1>. DEFINE l == ButtonEvent("left", before, after, p)
            r == ButtonEvent("right", before, after, p)
            m == ButtonEvent("middle", before, after, p)
            mv == MoveEvents(dx, dy, p)
            bt == (l \o r) \o m
            c == ~ (Left \in before <=> Left \in after)
            d == Left \in after
<1>1. ButtonEvents(before, after, p) = bt
  BY Zenon DEF ButtonEvents, ButtonEvent
<1>2. Packed(bt, p, c, d)
  <2>1. Packed(l, p, c, d)
    BY LeftEvent
  <2>2. Plain(r, p) /\ Plain(m, p)
    <3>1. "right" # Left /\ "middle" # Left
      BY DEF Left
    <3>. QED
      BY <3>1, OtherEvent
  <2>. HIDE DEF l, r, m, c, d
  <2>3. Packed(l \o r, p, c, d)
    BY <2>1, <2>2, PackedPlain, Zenon
  <2>. QED
    BY <2>2, <2>3, PackedPlain, Zenon
<1>w. PICK e : e = [type |-> "move", x |-> p.x, y |-> p.y]
  OBVIOUS
<1>3. e \in Event /\ IsMove(e) /\ ~ IsLeft(e) /\ At(e, p)
  BY <1>w DEF Place, Event, IsMove, IsLeft, At
<1>4. /\ Plain(mv, p)
      /\ dx # 0 \/ dy # 0 => DOMAIN mv = {1} /\ Len(mv) = 1 /\ IsMove(mv[1])
  <2>1. CASE dx # 0 \/ dy # 0
    <3>1. mv = <<e>>
      BY <2>1, <1>w, Zenon DEF MoveEvents
    <3>2. mv \in Seq(Event) /\ DOMAIN mv = {1} /\ Len(mv) = 1 /\ mv[1] = e
      BY <1>3, <3>1, OneEvent
    <3>. HIDE DEF mv
    <3>. QED
      BY <1>3, <3>2 DEF Plain
  <2>2. CASE ~ (dx # 0 \/ dy # 0)
    <3>1. mv = << >>
      BY <2>2, Zenon DEF MoveEvents
    <3>2. mv \in Seq(Event) /\ DOMAIN mv = {}
      BY <3>1
    <3>. HIDE DEF mv
    <3>. QED
      BY <2>2, <3>2 DEF Plain
  <2>. QED
    BY <2>1, <2>2
<1>. HIDE DEF l, r, m, mv, bt, c, d
<1>5. Packed(mv \o bt, p, c, d)
  BY <1>2, <1>4, PlainPacked, Zenon
<1>6. ASSUME dx # 0 \/ dy # 0 PROVE ~ NoMove(mv \o bt, 0)
  <2>1. mv \in Seq(Event) /\ bt \in Seq(Event) /\ Len(mv) = 1 /\ IsMove(mv[1])
    BY <1>2, <1>4, <1>6 DEF Plain, Packed
  <2>2. PICK t : t = mv \o bt
    OBVIOUS
  <2>3. t \in Seq(Event) /\ Len(t) = 1 + Len(bt) /\ t[1] = mv[1]
    <3>1. IsJoined(t, Event, mv, bt)
      BY <2>1, <2>2, Joined, Zenon
    <3>. QED
      BY <2>1, <3>1 DEF IsJoined
  <2>4. 1 \in DOMAIN t /\ IsMove(t[1])
    BY <2>1, <2>3
  <2>. QED
    BY <2>2, <2>4 DEF NoMove
<1>. QED
  BY <1>1, <1>5, <1>6, Zenon DEF mv, c, d


-----------------------------------------------------------------------------
(* What a packet does to the events that wait *)

\* The events of a packet behind those that wait.
Appended(t, q, ev) == q \in Seq(Event) /\ ev \in Seq(Event) /\ IsJoined(t, Event, q, ev)

\* The positions of a sequence to which another was appended.
LEMMA AppendedFacts ==
    ASSUME NEW t, NEW q, NEW ev, Appended(t, q, ev)
    PROVE  /\ Len(q) \in Nat /\ Len(ev) \in Nat /\ Len(t) = Len(q) + Len(ev)
           /\ DOMAIN q = 1 .. Len(q) /\ DOMAIN ev = 1 .. Len(ev)
           /\ DOMAIN t = 1 .. Len(q) + Len(ev)
           /\ \A i \in DOMAIN q : i \in DOMAIN t /\ i <= Len(q) /\ t[i] = q[i]
           /\ \A i \in DOMAIN ev : Len(q) + i \in DOMAIN t /\ t[Len(q) + i] = ev[i]
           /\ \A i \in DOMAIN t :
                 \/ i \in DOMAIN q
                 \/ /\ i > Len(q) /\ i - Len(q) \in DOMAIN ev /\ t[i] = ev[i - Len(q)]
<1>w. PICK m, n : m = Len(q) /\ n = Len(ev)
  OBVIOUS
<1>1. /\ t \in Seq(Event) /\ q \in Seq(Event) /\ ev \in Seq(Event) /\ Len(t) = m + n
      /\ m \in Nat /\ n \in Nat
      /\ \A i \in 1 .. m : t[i] = q[i]
      /\ \A i \in 1 .. n : t[m + i] = ev[i]
  BY <1>w DEF Appended, IsJoined
<1>2. DOMAIN q = 1 .. m /\ DOMAIN ev = 1 .. n /\ DOMAIN t = 1 .. m + n
  BY <1>1, <1>w
<1>3. ASSUME NEW i \in DOMAIN q PROVE i \in DOMAIN t /\ i <= m /\ t[i] = q[i]
  BY <1>1, <1>2
<1>4. ASSUME NEW i \in DOMAIN ev PROVE m + i \in DOMAIN t /\ t[m + i] = ev[i]
  BY <1>1, <1>2
<1>5. ASSUME NEW i \in DOMAIN t, i \notin DOMAIN q
      PROVE  i > m /\ i - m \in DOMAIN ev /\ t[i] = ev[i - m]
  <2>w. PICK k : k = i - m
    OBVIOUS
  <2>1. i > m /\ k \in DOMAIN ev /\ m + k = i
    BY <1>1, <1>2, <1>5, <2>w
  <2>. QED
    BY <1>4, <2>1, <2>w
<1>6. \A i \in DOMAIN t :
         \/ i \in DOMAIN q
         \/ i > m /\ i - m \in DOMAIN ev /\ t[i] = ev[i - m]
  BY <1>5
<1>. QED
  BY <1>1, <1>2, <1>3, <1>4, <1>6, <1>w

\* No movement follows in the whole if none follows in either part.
LEMMA AppendedMoves ==
    ASSUME NEW t, NEW q, NEW ev, Appended(t, q, ev)
    PROVE  /\ NoMove(t, 0) => NoMove(q, 0) /\ NoMove(ev, 0)
           /\ \A i \in DOMAIN q : NoMove(t, i) => NoMove(q, i) /\ NoMove(ev, 0)
<1>1. ASSUME NEW i \in DOMAIN q \cup {0}, NoMove(t, i) PROVE NoMove(q, i) /\ NoMove(ev, 0)
  <2>1. NoMove(q, i)
    BY <1>1, AppendedFacts DEF NoMove
  <2>2. ASSUME NEW j \in DOMAIN ev PROVE ~ IsMove(ev[j])
    <3>w. PICK k : k = Len(q) + j
      OBVIOUS
    <3>1. k \in DOMAIN t /\ t[k] = ev[j]
      BY <3>w, AppendedFacts
    <3>2. i < k
      BY <3>w, AppendedFacts
    <3>. QED
      BY <1>1, <3>1, <3>2 DEF NoMove
  <2>. QED
    BY <2>1, <2>2 DEF NoMove
<1>. QED
  BY <1>1

\* Everything after the last movement is at the new place.
LEMMA AppendedPlaces ==
    ASSUME NEW t, NEW q, NEW ev, Appended(t, q, ev), NEW p, NEW p0, NEW c, NEW d,
           PlacesLead(q, p0), Packed(ev, p, c, d), NoMove(ev, 0) => p = p0
    PROVE  PlacesLead(t, p)
<1>1. ASSUME NEW i \in DOMAIN q, NoMove(t, i) PROVE At(t[i], p)
  BY <1>1, AppendedFacts, AppendedMoves DEF PlacesLead
<1>2. ASSUME NEW i \in DOMAIN t, i \notin DOMAIN q PROVE At(t[i], p)
  <2>1. i - Len(q) \in DOMAIN ev /\ t[i] = ev[i - Len(q)]
    BY <1>2, AppendedFacts
  <2>. QED
    BY <2>1 DEF Packed
<1>. QED
  BY <1>1, <1>2 DEF PlacesLead

\* The left button's events of the whole, if none follows in it.
LEMMA AppendedLefts ==
    ASSUME NEW t, NEW q, NEW ev, Appended(t, q, ev),
           NEW i \in DOMAIN q \cup {0}, NEW k \in Int, k > Len(q), NoLeft(t, i, k)
    PROVE  /\ NoLeft(q, i, End(q))
           /\ k = End(t) => \A j \in DOMAIN ev : ~ IsLeft(ev[j])
<1>1. ASSUME NEW j \in DOMAIN q, i < j PROVE ~ IsLeft(q[j])
  BY <1>1, AppendedFacts DEF NoLeft
<1>2. ASSUME k = End(t), NEW j \in DOMAIN ev PROVE ~ IsLeft(ev[j])
  <2>w. PICK l : l = Len(q) + j
    OBVIOUS
  <2>1. l \in DOMAIN t /\ t[l] = ev[j]
    BY <2>w, AppendedFacts
  <2>2. i < l /\ l < k
    BY <1>2, <2>w, AppendedFacts DEF End
  <2>. QED
    BY <2>1, <2>2 DEF NoLeft
<1>. QED
  BY <1>1, <1>2 DEF NoLeft

\* Presses and releases go on alternating.
LEMMA AppendedButtons ==
    ASSUME NEW t, NEW q, NEW ev, Appended(t, q, ev), NEW p,
           NEW before \in BOOLEAN, NEW after \in BOOLEAN,
           ButtonsLead(q, before), Packed(ev, p, ~ (before <=> after), after)
    PROVE  ButtonsLead(t, after)
<1>w. PICK n : n = Len(q)
  OBVIOUS
<1>0. /\ n \in Nat /\ Len(t) \in Nat /\ End(t) = Len(t) + 1 /\ n <= Len(t) /\ End(q) = n + 1
      /\ DOMAIN q = 1 .. n /\ DOMAIN t = 1 .. Len(t)
      /\ \A i \in DOMAIN q : i \in DOMAIN t /\ t[i] = q[i]
      /\ \A i \in DOMAIN t : i \in DOMAIN q \/ (i > n /\ i - n \in DOMAIN ev /\ t[i] = ev[i - n])
  BY <1>w, AppendedFacts DEF End
<1>1. ASSUME NEW i \in DOMAIN q, NEW k \in Int, k > n, NoLeft(t, i, k)
      PROVE  /\ NoLeft(q, i, End(q))
             /\ k = End(t) => \A j \in DOMAIN ev : ~ IsLeft(ev[j])
  BY <1>1, <1>w, AppendedLefts
<1>2. ASSUME NEW i \in DOMAIN t, IsLeft(t[i]), NoLeft(t, i, End(t))
      PROVE  t[i].pressed <=> after
  <2>1. CASE i \in DOMAIN q
    <3>1. NoLeft(q, i, End(q)) /\ \A j \in DOMAIN ev : ~ IsLeft(ev[j])
      BY <1>0, <1>1, <1>2, <2>1
    <3>2. before <=> after
      BY <3>1 DEF Packed
    <3>3. q[i].pressed <=> before
      BY <1>0, <1>2, <2>1, <3>1 DEF ButtonsLead
    <3>. QED
      BY <1>0, <2>1, <3>2, <3>3
  <2>2. CASE i \notin DOMAIN q
    BY <1>0, <1>2, <2>2 DEF Packed
  <2>. QED
    BY <2>1, <2>2
<1>3. ASSUME NEW i \in DOMAIN t, NEW j \in DOMAIN t, i < j, IsLeft(t[i]), IsLeft(t[j]),
             NoLeft(t, i, j)
      PROVE  ~ (t[i].pressed <=> t[j].pressed)
  <2>1. CASE j \in DOMAIN q
    <3>1. i \in DOMAIN q
      BY <1>0, <1>3, <2>1
    <3>2. NoLeft(q, i, j)
      BY <1>0, <1>3 DEF NoLeft
    <3>. QED
      BY <1>0, <1>3, <2>1, <3>1, <3>2 DEF ButtonsLead
  <2>2. CASE j \notin DOMAIN q
    <3>1. j > n /\ j \in Int /\ j - n \in DOMAIN ev /\ t[j] = ev[j - n] /\ IsLeft(ev[j - n])
      BY <1>0, <1>3, <2>2
    <3>2. (t[j].pressed <=> after) /\ ~ (before <=> after)
      BY <3>1 DEF Packed
    <3>3. CASE i \in DOMAIN q
      <4>1. NoLeft(q, i, End(q))
        BY <1>1, <1>3, <3>1, <3>3
      <4>2. q[i].pressed <=> before
        BY <1>0, <1>3, <3>3, <4>1 DEF ButtonsLead
      <4>. QED
        BY <1>0, <3>2, <3>3, <4>2
    <3>4. CASE i \notin DOMAIN q
      <4>1. i - n \in DOMAIN ev /\ IsLeft(ev[i - n])
        BY <1>0, <1>3, <3>4
      <4>2. i - n = j - n
        BY <3>1, <4>1 DEF Packed
      <4>. QED
        BY <1>0, <1>3, <4>2
    <3>. QED
      BY <3>3, <3>4
  <2>. QED
    BY <2>1, <2>2
<1>. QED
  BY <1>2, <1>3 DEF ButtonsLead

\* A pressed button stays pressed until its release is in the queue.
LEMMA AppendedRelease ==
    ASSUME NEW t, NEW q, NEW ev, Appended(t, q, ev), NEW p,
           NEW before \in BOOLEAN, NEW after \in BOOLEAN,
           ReleaseNext(q, before), Packed(ev, p, ~ (before <=> after), after)
    PROVE  ReleaseNext(t, after)
<1>w. PICK n : n = Len(q)
  OBVIOUS
<1>0. /\ n \in Nat /\ Len(t) \in Nat /\ End(t) = Len(t) + 1 /\ n <= Len(t) /\ End(q) = n + 1
      /\ DOMAIN q = 1 .. n /\ DOMAIN t = 1 .. Len(t)
      /\ \A i \in DOMAIN q : i \in DOMAIN t /\ t[i] = q[i]
      /\ \A i \in DOMAIN t : i \in DOMAIN q \/ (i > n /\ i - n \in DOMAIN ev /\ t[i] = ev[i - n])
  BY <1>w, AppendedFacts DEF End
<1>1. ASSUME NEW k \in Int, k > n, NoLeft(t, 0, k)
      PROVE  /\ NoLeft(q, 0, End(q))
             /\ k = End(t) => \A j \in DOMAIN ev : ~ IsLeft(ev[j])
  BY <1>1, <1>w, AppendedLefts
<1>2. ASSUME NoLeft(t, 0, End(t)) PROVE after
  <2>1. NoLeft(q, 0, End(q)) /\ \A j \in DOMAIN ev : ~ IsLeft(ev[j])
    BY <1>0, <1>1, <1>2
  <2>2. before /\ (before <=> after)
    BY <2>1 DEF Packed, ReleaseNext
  <2>. QED
    BY <2>2
<1>3. ASSUME NEW i \in DOMAIN t, IsLeft(t[i]), NoLeft(t, 0, i) PROVE ~ t[i].pressed
  <2>1. CASE i \in DOMAIN q
    <3>1. NoLeft(q, 0, i)
      BY <1>0, <1>3 DEF NoLeft
    <3>. QED
      BY <1>0, <1>3, <2>1, <3>1 DEF ReleaseNext
  <2>2. CASE i \notin DOMAIN q
    <3>1. i > n /\ i \in Int /\ i - n \in DOMAIN ev /\ t[i] = ev[i - n] /\ IsLeft(ev[i - n])
      BY <1>0, <1>3, <2>2
    <3>2. (t[i].pressed <=> after) /\ ~ (before <=> after)
      BY <3>1 DEF Packed
    <3>3. NoLeft(q, 0, End(q))
      BY <1>1, <1>3, <3>1
    <3>4. before
      BY <3>3 DEF ReleaseNext
    <3>. QED
      BY <3>2, <3>4
  <2>. QED
    BY <2>1, <2>2
<1>. QED
  BY <1>2, <1>3 DEF ReleaseNext


-----------------------------------------------------------------------------
(* What taking the first event does to those that follow *)

\* The positions of the rest of a queue.
LEMMA TailFacts ==
    ASSUME NEW q \in Seq(Event), q # << >>
    PROVE  LET t == Tail(q) IN
           /\ t \in Seq(Event) /\ Len(q) \in Nat /\ Len(q) >= 1 /\ Len(t) = Len(q) - 1
           /\ 1 \in DOMAIN q /\ q[1] = Head(q) /\ q[1] \in Event
           /\ DOMAIN q = 1 .. Len(q) /\ DOMAIN t = 1 .. Len(q) - 1
           /\ End(q) = Len(q) + 1 /\ End(t) = Len(q)
           /\ \A i \in DOMAIN t : i + 1 \in DOMAIN q /\ t[i] = q[i + 1]
           /\ \A i \in DOMAIN q : i = 1 \/ (i > 1 /\ i - 1 \in DOMAIN t /\ t[i - 1] = q[i])
<1>. DEFINE t == Tail(q)
<1>w. PICK n : n = Len(q)
  OBVIOUS
<1>1. /\ t \in Seq(Event) /\ n \in Nat /\ n >= 1 /\ Len(t) = n - 1
      /\ q[1] = Head(q) /\ q[1] \in Event
      /\ \A i \in 1 .. n - 1 : t[i] = q[i + 1]
  BY <1>w
<1>. HIDE DEF t
<1>2. DOMAIN q = 1 .. n /\ DOMAIN t = 1 .. n - 1
  BY <1>1, <1>w
<1>3. ASSUME NEW i \in DOMAIN q, i # 1 PROVE i > 1 /\ i - 1 \in DOMAIN t /\ t[i - 1] = q[i]
  <2>w. PICK k : k = i - 1
    OBVIOUS
  <2>1. k \in DOMAIN t /\ k + 1 = i /\ i > 1
    BY <1>1, <1>2, <1>3, <2>w
  <2>. QED
    BY <1>1, <1>2, <2>1, <2>w
<1>4. ASSUME NEW i \in DOMAIN t PROVE i + 1 \in DOMAIN q /\ t[i] = q[i + 1]
  BY <1>1, <1>2
<1>5. End(q) = n + 1 /\ End(t) = n
  BY <1>1, <1>w DEF End
<1>6. /\ 1 \in DOMAIN q
      /\ \A i \in DOMAIN q : i = 1 \/ (i > 1 /\ i - 1 \in DOMAIN t /\ t[i - 1] = q[i])
  BY <1>1, <1>2, <1>3
<1>. QED
  BY <1>1, <1>2, <1>4, <1>5, <1>6, <1>w DEF t

\* What follows in the rest followed in the whole.
LEMMA TailKinds ==
    ASSUME NEW q \in Seq(Event), q # << >>
    PROVE  /\ \A i \in Nat : NoMove(Tail(q), i) => NoMove(q, i + 1)
           /\ ~ IsMove(q[1]) /\ NoMove(Tail(q), 0) => NoMove(q, 0)
           /\ \A i \in Nat, k \in Int :
                 NoLeft(Tail(q), i, k) => NoLeft(q, i + 1, k + 1)
           /\ \A k \in Int :
                 ~ IsLeft(q[1]) /\ NoLeft(Tail(q), 0, k) => NoLeft(q, 0, k + 1)
<1>w. PICK t : t = Tail(q)
  OBVIOUS
<1>0. /\ DOMAIN q \subseteq Nat /\ DOMAIN t \subseteq Nat
      /\ \A i \in DOMAIN q : i = 1 \/ (i > 1 /\ i - 1 \in DOMAIN t /\ t[i - 1] = q[i])
  <2>1. /\ DOMAIN q = 1 .. Len(q) /\ DOMAIN t = 1 .. Len(q) - 1 /\ Len(q) \in Nat
        /\ \A i \in DOMAIN q : i = 1 \/ (i > 1 /\ i - 1 \in DOMAIN t /\ t[i - 1] = q[i])
    BY <1>w, TailFacts
  <2>. QED
    BY <2>1
<1>1. ASSUME NEW i \in Nat, NoMove(t, i) PROVE NoMove(q, i + 1)
  <2>1. ASSUME NEW j \in DOMAIN q, i + 1 < j PROVE ~ IsMove(q[j])
    <3>1. j - 1 \in DOMAIN t /\ t[j - 1] = q[j] /\ i < j - 1
      BY <1>0, <2>1
    <3>. QED
      BY <1>1, <3>1 DEF NoMove
  <2>. QED
    BY <2>1 DEF NoMove
<1>2. ASSUME ~ IsMove(q[1]), NoMove(t, 0) PROVE NoMove(q, 0)
  <2>1. NoMove(q, 1)
    BY <1>1, <1>2
  <2>2. ASSUME NEW j \in DOMAIN q PROVE ~ IsMove(q[j])
    BY <1>0, <1>2, <2>1 DEF NoMove
  <2>. QED
    BY <2>2 DEF NoMove
<1>3. ASSUME NEW i \in Nat, NEW k \in Int, NoLeft(t, i, k) PROVE NoLeft(q, i + 1, k + 1)
  <2>1. ASSUME NEW j \in DOMAIN q, i + 1 < j, j < k + 1 PROVE ~ IsLeft(q[j])
    <3>1. j - 1 \in DOMAIN t /\ t[j - 1] = q[j] /\ i < j - 1 /\ j - 1 < k
      BY <1>0, <2>1
    <3>. QED
      BY <1>3, <3>1 DEF NoLeft
  <2>. QED
    BY <2>1 DEF NoLeft
<1>4. ASSUME NEW k \in Int, ~ IsLeft(q[1]), NoLeft(t, 0, k) PROVE NoLeft(q, 0, k + 1)
  <2>1. NoLeft(q, 1, k + 1)
    BY <1>3, <1>4
  <2>2. ASSUME NEW j \in DOMAIN q, j < k + 1 PROVE ~ IsLeft(q[j])
    BY <1>0, <1>4, <2>1, <2>2 DEF NoLeft
  <2>. QED
    BY <2>2 DEF NoLeft
<1>. QED
  BY <1>1, <1>2, <1>3, <1>4, <1>w

\* The rest leads to the same place and to the same state of the button; if no
\* movement is left in it then the event taken was at that place.
LEMMA TailLeads ==
    ASSUME NEW q \in Seq(Event), q # << >>, NEW p, PlacesLead(q, p),
           NEW d \in BOOLEAN, ButtonsLead(q, d)
    PROVE  /\ PlacesLead(Tail(q), p) /\ ButtonsLead(Tail(q), d)
           /\ NoMove(Tail(q), 0) => At(q[1], p)
<1>w. PICK t : t = Tail(q)
  OBVIOUS
<1>w2. PICK n : n = Len(q)
  OBVIOUS
<1>0. /\ n \in Nat /\ n >= 1 /\ 1 \in DOMAIN q /\ DOMAIN t = 1 .. n - 1
      /\ End(q) = n + 1 /\ End(t) = n
      /\ \A i \in DOMAIN t : i + 1 \in DOMAIN q /\ t[i] = q[i + 1]
  BY <1>w, <1>w2, TailFacts
<1>1. /\ \A i \in Nat : NoMove(t, i) => NoMove(q, i + 1)
      /\ \A i \in Nat, k \in Int : NoLeft(t, i, k) => NoLeft(q, i + 1, k + 1)
  BY <1>w, TailKinds
<1>2. ASSUME NEW i \in DOMAIN t, NoMove(t, i) PROVE At(t[i], p)
  <2>1. NoMove(q, i + 1)
    BY <1>0, <1>1, <1>2
  <2>. QED
    BY <1>0, <2>1 DEF PlacesLead
<1>3. ASSUME NoMove(t, 0) PROVE At(q[1], p)
  <2>1. NoMove(q, 0 + 1)
    BY <1>1, <1>3
  <2>2. NoMove(q, 1)
    BY <2>1
  <2>. QED
    BY <1>0, <2>2 DEF PlacesLead
<1>4. ASSUME NEW i \in DOMAIN t, IsLeft(t[i]), NoLeft(t, i, End(t)) PROVE t[i].pressed <=> d
  <2>1. NoLeft(q, i + 1, End(q))
    <3>1. i \in Nat /\ n \in Int
      BY <1>0
    <3>2. NoLeft(t, i, n)
      BY <1>0, <1>4
    <3>. QED
      BY <1>0, <1>1, <3>1, <3>2
  <2>. QED
    BY <1>0, <1>4, <2>1 DEF ButtonsLead
<1>5. ASSUME NEW i \in DOMAIN t, NEW j \in DOMAIN t, i < j, IsLeft(t[i]), IsLeft(t[j]),
             NoLeft(t, i, j)
      PROVE  ~ (t[i].pressed <=> t[j].pressed)
  <2>1. i \in Nat /\ j \in Int /\ i + 1 < j + 1
    BY <1>0, <1>5
  <2>2. NoLeft(q, i + 1, j + 1)
    BY <1>1, <1>5, <2>1
  <2>. QED
    BY <1>0, <1>5, <2>1, <2>2 DEF ButtonsLead
<1>6. PlacesLead(t, p)
  BY <1>2 DEF PlacesLead
<1>7. ButtonsLead(t, d)
  BY <1>4, <1>5 DEF ButtonsLead
<1>. QED
  BY <1>3, <1>6, <1>7, <1>w

\* After a press the release comes next; after another event it comes next if
\* it did before.
LEMMA TailRelease ==
    ASSUME NEW q \in Seq(Event), q # << >>, NEW d \in BOOLEAN, ButtonsLead(q, d)
    PROVE  /\ IsLeft(q[1]) /\ q[1].pressed => ReleaseNext(Tail(q), d)
           /\ ~ IsLeft(q[1]) /\ ReleaseNext(q, d) => ReleaseNext(Tail(q), d)
<1>w. PICK t : t = Tail(q)
  OBVIOUS
<1>w2. PICK n : n = Len(q)
  OBVIOUS
<1>0. /\ n \in Nat /\ n >= 1 /\ 1 \in DOMAIN q /\ DOMAIN t = 1 .. n - 1
      /\ End(q) = n + 1 /\ End(t) = n
      /\ \A i \in DOMAIN t : i + 1 \in DOMAIN q /\ t[i] = q[i + 1]
  BY <1>w, <1>w2, TailFacts
<1>1. ASSUME NEW k \in Nat, NoLeft(t, 0, k)
      PROVE  NoLeft(q, 1, k + 1) /\ (~ IsLeft(q[1]) => NoLeft(q, 0, k + 1))
  <2>1. k \in Int /\ 0 \in Nat /\ 0 + 1 = 1
    OBVIOUS
  <2>2. NoLeft(q, 0 + 1, k + 1)
    BY <1>1, <1>w, <2>1, TailKinds
  <2>3. ~ IsLeft(q[1]) => NoLeft(q, 0, k + 1)
    BY <1>1, <1>w, <2>1, TailKinds
  <2>. QED
    BY <2>2, <2>3
<1>2. ASSUME IsLeft(q[1]), q[1].pressed PROVE ReleaseNext(t, d)
  <2>1. ASSUME NoLeft(t, 0, End(t)) PROVE d
    <3>1. NoLeft(q, 1, End(q))
      BY <1>0, <1>1, <2>1
    <3>. QED
      BY <1>0, <1>2, <3>1 DEF ButtonsLead
  <2>2. ASSUME NEW i \in DOMAIN t, IsLeft(t[i]), NoLeft(t, 0, i) PROVE ~ t[i].pressed
    <3>1. i \in Nat /\ i + 1 \in DOMAIN q /\ t[i] = q[i + 1] /\ 1 < i + 1
      BY <1>0
    <3>2. NoLeft(q, 1, i + 1)
      BY <1>1, <2>2, <3>1
    <3>3. ~ (q[1].pressed <=> q[i + 1].pressed)
      BY <1>0, <1>2, <2>2, <3>1, <3>2 DEF ButtonsLead
    <3>. QED
      BY <1>2, <3>1, <3>3
  <2>. QED
    BY <2>1, <2>2 DEF ReleaseNext
<1>3. ASSUME ~ IsLeft(q[1]), ReleaseNext(q, d) PROVE ReleaseNext(t, d)
  <2>1. ASSUME NoLeft(t, 0, End(t)) PROVE d
    <3>1. NoLeft(q, 0, End(q))
      BY <1>0, <1>1, <1>3, <2>1
    <3>. QED
      BY <1>3, <3>1 DEF ReleaseNext
  <2>2. ASSUME NEW i \in DOMAIN t, IsLeft(t[i]), NoLeft(t, 0, i) PROVE ~ t[i].pressed
    <3>1. i \in Nat /\ i + 1 \in DOMAIN q /\ t[i] = q[i + 1]
      BY <1>0
    <3>2. NoLeft(q, 0, i + 1)
      BY <1>1, <1>3, <2>2, <3>1
    <3>. QED
      BY <1>3, <2>2, <3>1, <3>2 DEF ReleaseNext
  <2>. QED
    BY <2>1, <2>2 DEF ReleaseNext
<1>. QED
  BY <1>2, <1>3, <1>w


-----------------------------------------------------------------------------
(* Steps of the events *)

\* Windows and drag stay as they are.
LEMMA WindowsStay ==
    ASSUME WindowsShown, Dragging, UNCHANGED <<win, created, drag>>,
           ui' # "run" => ui # "run"
    PROVE  WindowsShown' /\ Dragging'
BY DEF WindowsShown, FarEdges, Dragging

\* What the queue lets in still leaves it within its capacity.
LEMMA AcceptedFacts ==
    ASSUME queue \in Seq(Event), Len(queue) <= Capacity, NEW ev \in Seq(Event)
    PROVE  queue \o Accepted(ev) \in Seq(Event) /\ Len(queue \o Accepted(ev)) <= Capacity
<1>w. PICK m, n : m = Len(queue) /\ n = Len(ev)
  OBVIOUS
<1>a. PICK a : a = Accepted(ev)
  OBVIOUS
<1>0. m \in Nat /\ n \in Nat /\ Capacity \in Nat /\ m <= Capacity
  BY <1>w, DesktopAssumption
<1>1. a \in Seq(Event) /\ Len(a) \in Nat /\ m + Len(a) <= Capacity
  <2>1. CASE m + n <= Capacity
    <3>1. a = ev
      BY <2>1, <1>a, <1>w, Zenon DEF Accepted
    <3>. QED
      BY <1>0, <1>w, <2>1, <3>1
  <2>2. CASE ~ (m + n <= Capacity)
    <3>. DEFINE k == Capacity - m
    <3>1. a = SubSeq(ev, 1, k)
      BY <2>2, <1>a, <1>w, Zenon DEF Accepted
    <3>2. k \in Nat /\ k < n /\ m + k = Capacity
      BY <1>0, <2>2
    <3>. HIDE DEF k
    <3>3. \A i \in 1 .. k : ev[i] \in Event
      BY <1>0, <1>w, <3>2
    <3>4. a \in Seq(Event) /\ Len(a) = IF 1 <= k THEN k - 1 + 1 ELSE 0
      BY <3>1, <3>2, <3>3, SubSeqProperties
    <3>. QED
      BY <1>0, <3>2, <3>4
  <2>. QED
    BY <2>1, <2>2
<1>2. IsJoined(queue \o a, Event, queue, a)
  BY <1>1, Joined, Zenon
<1>. QED
  BY <1>0, <1>1, <1>2, <1>a, <1>w DEF IsJoined

\* A packet, with the events that it adds.
LEMMA PacketKeeps ==
    ASSUME DesktopIInv, NEW dx \in Int, NEW dy \in Int, NEW bs \in SUBSET Button,
           mouse_on_packet(dx, dy, bs)
    PROVE  DesktopIInv'
<1>w. PICK p : p = [x |-> Within(pointer.x + dx, WIDTH - 1),
                    y |-> Within(pointer.y - dy, HEIGHT - 1)]
  OBVIOUS
<1>e. PICK ev : ev = MoveEvents(dx, dy, p) \o ButtonEvents(held, bs, p)
  OBVIOUS
<1>1. /\ pointer' = p /\ queue' = queue \o Accepted(ev) /\ held' = bs
      /\ lost' = (lost \/ Accepted(ev) # ev)
      /\ UNCHANGED <<lm, win, created, active, cursor, ui, drag>>
  BY <1>w, <1>e, Zenon DEF mouse_on_packet, windows
<1>2. LayersKnown /\ MouseTypes /\ WindowsShown /\ Dragging
  BY DEF DesktopIInv
<1>3. p \in Place /\ (dx = 0 /\ dy = 0 => p = pointer)
  <2>a. PICK a, b : a = Within(pointer.x + dx, WIDTH - 1)
                    /\ b = Within(pointer.y - dy, HEIGHT - 1)
    OBVIOUS
  <2>1. pointer \in Place /\ pointer.x \in Xs /\ pointer.y \in Ys
    BY <1>2 DEF MouseTypes, Place
  <2>2. /\ WIDTH - 1 \in Nat /\ HEIGHT - 1 \in Nat
        /\ pointer.x \in 0 .. WIDTH - 1 /\ pointer.y \in 0 .. HEIGHT - 1
        /\ pointer.x + dx \in Int /\ pointer.y - dy \in Int
    BY <2>1, Sizes DEF Xs, Ys
  <2>3. a \in Xs /\ b \in Ys
    BY <2>a, <2>2, WithinFacts DEF Xs, Ys
  <2>4. p = [x |-> a, y |-> b]
    BY <1>w, <2>a
  <2>5. ASSUME dx = 0, dy = 0 PROVE a = pointer.x /\ b = pointer.y
    <3>1. pointer.x + dx = pointer.x /\ pointer.y - dy = pointer.y
      BY <2>2, <2>5
    <3>2. a = Within(pointer.x, WIDTH - 1) /\ b = Within(pointer.y, HEIGHT - 1)
      BY <2>a, <3>1
    <3>3. pointer.x \in Int /\ pointer.y \in Int
      BY <2>2
    <3>. QED
      BY <2>2, <3>2, <3>3, WithinFacts
  <2>. QED
    BY <2>1, <2>3, <2>4, <2>5 DEF Place
<1>. DEFINE b == Left \in held
            d == Left \in bs
<1>b. b \in BOOLEAN /\ d \in BOOLEAN
  OBVIOUS
<1>4. Packed(ev, p, ~ (b <=> d), d) /\ (dx # 0 \/ dy # 0 => ~ NoMove(ev, 0))
  <2>1. held \in SUBSET Button
    BY <1>2 DEF MouseTypes
  <2>. QED
    BY <1>e, <1>3, <2>1, PacketFacts, Zenon
<1>5. ev \in Seq(Event) /\ (NoMove(ev, 0) => p = pointer)
  BY <1>3, <1>4 DEF Packed
<1>6. MouseTypes'
  <2>1. queue' \in Seq(Event) /\ Len(queue') <= Capacity
    BY <1>1, <1>2, <1>5, AcceptedFacts, Zenon DEF MouseTypes
  <2>2. lost' \in BOOLEAN
    BY <1>1
  <2>. QED
    BY <1>1, <1>2, <1>3, <2>1, <2>2 DEF MouseTypes
<1>7. LayersKnown'
  BY <1>1, <1>2, UntouchedLayers DEF Untouched
<1>8. WindowsShown' /\ Dragging'
  BY <1>1, <1>2, WindowsStay
<1>9. ASSUME ~ lost' PROVE EventsLead' /\ DragLeads'
  <2>1. EventsLead /\ DragLeads
    BY <1>1, <1>9 DEF DesktopIInv
  <2>2. queue' = queue \o ev
    BY <1>1, <1>9
  <2>3. Appended(queue', queue, ev)
    <3>1. queue \in Seq(Event)
      BY <1>2 DEF MouseTypes
    <3>. QED
      BY <1>5, <2>2, <3>1, Joined, Zenon DEF Appended
  <2>4. PlacesLead(queue', p)
    <3>1. PlacesLead(queue, pointer)
      BY <2>1 DEF EventsLead
    <3>. QED
      BY <1>4, <1>5, <2>3, <3>1, AppendedPlaces, Zenon
  <2>6. Packed(ev, p, ~ (b <=> d), d)
    BY <1>4, Zenon
  <2>7. ButtonsLead(queue', d)
    <3>1. ButtonsLead(queue, b)
      BY <2>1, Zenon DEF EventsLead
    <3>. HIDE DEF b, d
    <3>. QED
      BY <1>b, <2>3, <2>6, <3>1, AppendedButtons
  <2>8. NoMove(queue', 0) => NoMove(queue, 0) /\ p = pointer
    BY <1>5, <2>3, AppendedMoves
  <2>9. EventsLead'
    BY <1>1, <2>1, <2>4, <2>7, <2>8 DEF EventsLead
  <2>10. DragLeads'
    <3>1. ASSUME drag.on PROVE ReleaseNext(queue', d)
      <4>1. ReleaseNext(queue, b)
        BY <2>1, <3>1, Zenon DEF DragLeads
      <4>. HIDE DEF b, d
      <4>. QED
        BY <1>b, <2>3, <2>6, <4>1, AppendedRelease
    <3>. QED
      BY <1>1, <2>1, <2>8, <3>1 DEF DragLeads
  <2>. QED
    BY <2>9, <2>10
<1>. QED
  BY <1>6, <1>7, <1>8, <1>9 DEF DesktopIInv

\* A key adds an event that is neither a movement nor one of a button.
LEMMA KeyKeeps ==
    ASSUME DesktopIInv, keyboard_on_scancode
    PROVE  DesktopIInv'
<1>e. PICK ev : ev = <<KeyEvent>>
  OBVIOUS
<1>1. /\ queue' = queue \o Accepted(ev)
      /\ UNCHANGED <<lm, win, created, active, pointer, held, cursor, ui, drag, lost>>
  BY <1>e, Zenon DEF keyboard_on_scancode, windows, mouse
<1>2. LayersKnown /\ MouseTypes /\ WindowsShown /\ Dragging
  BY DEF DesktopIInv
<1>3. /\ ev \in Seq(Event) /\ Len(ev) = 1 /\ DOMAIN ev = {1} /\ ev[1] = KeyEvent
      /\ IsKey(KeyEvent) /\ ~ IsMove(KeyEvent) /\ ~ IsLeft(KeyEvent)
  <2>1. KeyEvent \in Event
    BY DEF Event
  <2>2. ev \in Seq(Event) /\ DOMAIN ev = {1} /\ ev[1] = KeyEvent
    BY <1>e, <2>1, OneEvent
  <2>3. Len(ev) = 1
    BY <1>e
  <2>4. IsKey(KeyEvent) /\ ~ IsMove(KeyEvent) /\ ~ IsLeft(KeyEvent)
    BY DEF KeyEvent, IsKey, IsMove, IsLeft
  <2>. QED
    BY <2>2, <2>3, <2>4
<1>4. MouseTypes'
  <2>1. queue' \in Seq(Event) /\ Len(queue') <= Capacity
    BY <1>1, <1>2, <1>3, AcceptedFacts, Zenon DEF MouseTypes
  <2>. QED
    BY <1>1, <1>2, <2>1 DEF MouseTypes
<1>5. LayersKnown'
  BY <1>1, <1>2, UntouchedLayers DEF Untouched
<1>6. WindowsShown' /\ Dragging'
  BY <1>1, <1>2, WindowsStay
<1>7. CASE Len(queue) + 1 <= Capacity
  <2>1. ASSUME ~ lost PROVE EventsLead' /\ DragLeads'
    <3>0. EventsLead /\ DragLeads
      BY <2>1 DEF DesktopIInv
    <3>1. Appended(queue', queue, ev)
      <4>1. queue \in Seq(Event)
        BY <1>2 DEF MouseTypes
      <4>2. Accepted(ev) = ev
        BY <1>3, <1>7, Zenon DEF Accepted
      <4>. QED
        BY <1>1, <1>3, <4>1, <4>2, Joined, Zenon DEF Appended
    <3>. DEFINE b == Left \in held
    <3>b. b \in BOOLEAN
      OBVIOUS
    <3>. HIDE DEF b
    <3>2. Packed(ev, pointer, ~ (b <=> b), b) /\ NoMove(ev, 0)
      BY <1>3 DEF Packed, NoMove, At
    <3>3. PlacesLead(queue', pointer)
      <4>1. PlacesLead(queue, pointer)
        BY <3>0 DEF EventsLead
      <4>. QED
        BY <3>1, <3>2, <4>1, AppendedPlaces, Zenon
    <3>4. ButtonsLead(queue', b)
      <4>1. ButtonsLead(queue, b)
        BY <3>0, Zenon DEF EventsLead, b
      <4>. QED
        BY <3>b, <3>1, <3>2, <4>1, AppendedButtons
    <3>5. NoMove(queue', 0) => NoMove(queue, 0)
      BY <3>1, AppendedMoves
    <3>6. drag.on => ReleaseNext(queue', b)
      <4>1. drag.on => ReleaseNext(queue, b)
        BY <3>0, Zenon DEF DragLeads, b
      <4>. QED
        BY <3>b, <3>1, <3>2, <4>1, AppendedRelease
    <3>7. EventsLead'
      BY <1>1, <3>0, <3>3, <3>4, <3>5 DEF EventsLead, b
    <3>8. DragLeads'
      BY <1>1, <3>0, <3>5, <3>6 DEF DragLeads, b
    <3>. QED
      BY <3>7, <3>8
  <2>. QED
    BY <1>1, <1>4, <1>5, <1>6, <2>1 DEF DesktopIInv
<1>8. CASE ~ (Len(queue) + 1 <= Capacity)
  <2>1. queue' = queue
    <3>1. Accepted(ev) = SubSeq(ev, 1, Capacity - Len(queue))
      BY <1>3, <1>8, Zenon DEF Accepted
    <3>2. queue \in Seq(Event) /\ Len(queue) \in Nat /\ Capacity - Len(queue) = 0
      BY <1>2, <1>8, DesktopAssumption DEF MouseTypes
    <3>3. SubSeq(ev, 1, 0) = << >>
      BY <1>3
    <3>4. Accepted(ev) = << >>
      BY <3>1, <3>2, <3>3
    <3>. QED
      BY <1>1, <3>2, <3>4
  <2>2. ASSUME ~ lost PROVE EventsLead' /\ DragLeads'
    BY <1>1, <2>1, <2>2 DEF DesktopIInv, EventsLead, DragLeads
  <2>. QED
    BY <1>1, <1>4, <1>5, <1>6, <2>2 DEF DesktopIInv
<1>. QED
  BY <1>7, <1>8


\* What ui_task does with the first event.
LEMMA UiEventFacts ==
    ASSUME MouseTypes, UiEvent
    PROVE  LET e == queue[1] IN
           /\ ui = "run" /\ ui' = ui /\ pointer' = pointer /\ held' = held /\ lost' = lost
           /\ queue # << >> /\ queue' = Tail(queue) /\ e \in Event
           /\ IsMove(e) => ~ IsLeft(e) /\ MouseMove(e)
           /\ IsLeft(e) /\ e.pressed => ~ IsMove(e) /\ LeftPressed(e)
           /\ IsLeft(e) /\ ~ e.pressed => ~ IsMove(e) /\ LeftReleased(e)
           /\ IsMove(e) \/ IsLeft(e) => ~ IsKey(e)
           /\ ~ IsMove(e) /\ ~ IsLeft(e) =>
                 UNCHANGED <<lm, win, created, active, cursor, drag>>
<1>. PICK e : e = queue[1]
  OBVIOUS
<1>1. /\ ui = "run" /\ queue # << >> /\ queue \in Seq(Event) /\ HandleEvent(Head(queue))
      /\ queue' = Tail(queue) /\ UNCHANGED <<pointer, held, ui, lost>>
  BY DEF UiEvent, MouseTypes, mouse
<1>2. e = Head(queue) /\ e \in Event /\ HandleEvent(e)
  BY <1>1
<1>3. ASSUME IsMove(e) PROVE ~ IsLeft(e) /\ MouseMove(e)
  <2>1. e.type = "move" /\ e.type # "button"
    BY <1>3 DEF IsMove
  <2>. QED
    BY <1>2, <2>1, Zenon DEF HandleEvent, IsLeft
<1>4. ASSUME IsLeft(e), e.pressed PROVE ~ IsMove(e) /\ LeftPressed(e)
  <2>1. e.type = "button" /\ e.type # "move" /\ e.button = Left
    BY <1>4 DEF IsLeft
  <2>. QED
    BY <1>2, <1>4, <2>1, Zenon DEF HandleEvent, IsMove
<1>5. ASSUME IsLeft(e), ~ e.pressed PROVE ~ IsMove(e) /\ LeftReleased(e)
  <2>1. e.type = "button" /\ e.type # "move" /\ e.button = Left
    BY <1>5 DEF IsLeft
  <2>. QED
    BY <1>2, <1>5, <2>1, Zenon DEF HandleEvent, IsMove
<1>6. ASSUME ~ IsMove(e), ~ IsLeft(e)
      PROVE  UNCHANGED <<lm, win, created, active, cursor, drag>>
  <2>1. UNCHANGED <<windows, cursor, drag>>
    <3>1. e.type # "move" /\ ~ (e.type = "button" /\ e.button = Left)
      BY <1>6 DEF IsMove, IsLeft
    <3>. QED
      BY <1>2, <3>1, Zenon DEF HandleEvent
  <2>. QED
    BY <2>1 DEF windows
<1>7. ASSUME IsMove(e) \/ IsLeft(e) PROVE ~ IsKey(e)
  BY <1>7 DEF IsMove, IsLeft, IsKey
<1>. QED
  BY <1>1, <1>2, <1>3, <1>4, <1>5, <1>6, <1>7

\* An event moves the cursor only if it is a movement, and then to its place.
LEMMA UiEventCursor ==
    ASSUME MouseTypes, UiEvent
    PROVE  /\ cursor' \in Place
           /\ IsMove(queue[1]) => cursor' = [x |-> queue[1].x, y |-> queue[1].y]
           /\ ~ IsMove(queue[1]) => cursor' = cursor
<1>. PICK e : e = queue[1]
  OBVIOUS
<1>1. e \in Event /\ cursor \in Place
  BY UiEventFacts DEF MouseTypes
<1>2. CASE IsMove(e)
  <2>1. cursor' = [x |-> e.x, y |-> e.y]
    BY <1>2, UiEventFacts DEF MouseMove
  <2>2. [x |-> e.x, y |-> e.y] \in Place
    <3>1. ~ IsKey(e)
      BY <1>2, UiEventFacts
    <3>. QED
      BY <1>1, <3>1, EventFacts, Zenon
  <2>. QED
    BY <1>2, <2>1, <2>2
<1>3. CASE ~ IsMove(e)
  <2>1. cursor' = cursor
    <3>1. CASE IsLeft(e) /\ e.pressed
      BY <3>1, UiEventFacts DEF LeftPressed
    <3>2. CASE IsLeft(e) /\ ~ e.pressed
      BY <3>2, UiEventFacts DEF LeftReleased
    <3>3. CASE ~ IsLeft(e)
      BY <1>3, <3>3, UiEventFacts
    <3>. QED
      BY <3>1, <3>2, <3>3
  <2>. QED
    BY <1>1, <1>3, <2>1
<1>. QED
  BY <1>2, <1>3

\* An event leaves layers and windows as they ought to be.
LEMMA UiEventShape ==
    ASSUME LayersKnown, MouseTypes, WindowsShown, Dragging, UiEvent
    PROVE  LayersKnown' /\ OrderStep /\ WindowsShown' /\ Dragging'
<1>. PICK e : e = queue[1]
  OBVIOUS
<1>1. ui = "run" /\ ui' = ui /\ e \in Event
  BY UiEventFacts
<1>2. CASE IsMove(e)
  <2>1. MouseMove(e) /\ ~ IsKey(e)
    BY <1>2, UiEventFacts
  <2>2. LayersKnown' /\ OrderStep
    BY <1>1, <2>1, UntouchedLayers DEF MouseMove, Untouched
  <2>. QED
    BY <1>1, <2>1, <2>2, MoveKeepsWindows
<1>3. CASE IsLeft(e) /\ e.pressed
  <2>1. LeftPressed(e) /\ ~ IsKey(e)
    BY <1>3, UiEventFacts
  <2>2. LayersKnown' /\ OrderStep
    BY <1>1, <2>1, PressKeepsLayers
  <2>. QED
    BY <1>1, <2>1, <2>2, PressKeepsWindows
<1>4. CASE IsLeft(e) /\ ~ e.pressed
  <2>1. LeftReleased(e)
    BY <1>4, UiEventFacts
  <2>2. LayersKnown' /\ OrderStep
    BY <1>1, <2>1, UntouchedLayers DEF LeftReleased, windows, Untouched
  <2>. QED
    BY <1>1, <2>1, <2>2, ReleaseKeepsWindows
<1>5. CASE ~ IsMove(e) /\ ~ IsLeft(e)
  <2>1. UNCHANGED <<lm, win, created, active, cursor, drag>>
    BY <1>5, UiEventFacts
  <2>2. LayersKnown' /\ OrderStep
    BY <1>1, <2>1, UntouchedLayers DEF Untouched
  <2>. QED
    BY <1>1, <2>1, <2>2, WindowsStay
<1>. QED
  BY <1>2, <1>3, <1>4, <1>5

\* An event leaves the drag as the events that follow say.
LEMMA UiEventDrag ==
    ASSUME LayersKnown, MouseTypes, WindowsShown, Dragging, EventsLead, DragLeads, UiEvent
    PROVE  DragLeads'
<1>. PICK e : e = queue[1]
  OBVIOUS
<1>. PICK t : t = Tail(queue)
  OBVIOUS
<1>. DEFINE d == Left \in held
<1>1. /\ ui = "run" /\ ui' = ui /\ e \in Event /\ queue' = t /\ queue # << >>
      /\ pointer' = pointer /\ held' = held /\ queue \in Seq(Event) /\ d \in BOOLEAN
  BY UiEventFacts DEF MouseTypes
<1>2. /\ PlacesLead(queue, pointer) /\ ButtonsLead(queue, d)
  BY DEF EventsLead
<1>3. NoMove(t, 0) /\ ~ IsKey(e) => e.x = pointer.x /\ e.y = pointer.y
  <2>. HIDE DEF d
  <2>1. NoMove(t, 0) => At(e, pointer)
    BY <1>1, <1>2, TailLeads
  <2>. QED
    BY <2>1 DEF At
<1>4. /\ IsLeft(e) /\ e.pressed => ReleaseNext(t, d)
      /\ ~ IsLeft(e) /\ ReleaseNext(queue, d) => ReleaseNext(t, d)
  <2>. HIDE DEF d
  <2>. QED
    BY <1>1, <1>2, TailRelease
<1>5. drag.on => ReleaseNext(queue, d) /\ drag.win = active
  BY DEF DragLeads
<1>6. ~ IsMove(e) /\ NoMove(t, 0) => NoMove(queue, 0)
  BY <1>1, TailKinds
<1>. HIDE DEF d
<1>7. CASE IsMove(e)
  <2>1. MouseMove(e) /\ ~ IsLeft(e) /\ ~ IsKey(e) /\ drag' = drag /\ active' = active
    BY <1>7, UiEventFacts DEF MouseMove
  <2>2. ASSUME drag.on PROVE ReleaseNext(t, d) /\ drag'.win = active'
    BY <1>4, <1>5, <2>1, <2>2
  <2>3. ASSUME drag.on, NoMove(t, 0)
        PROVE  win'[drag'.win].place =
                  Placed(drag'.win, pointer.x - drag'.x, pointer.y - drag'.y)
    BY <1>1, <1>3, <2>1, <2>3, MoveKeepsWindows
  <2>. QED
    BY <1>1, <2>1, <2>2, <2>3 DEF DragLeads, d
<1>8. CASE IsLeft(e) /\ e.pressed
  <2>1. LeftPressed(e) /\ ~ IsKey(e) /\ win' = win
    BY <1>8, UiEventFacts DEF LeftPressed
  <2>2. ~ drag.on
    <3>1. ASSUME drag.on PROVE FALSE
      <4>1. 1 \in DOMAIN queue /\ DOMAIN queue \subseteq Nat
        <5>1. DOMAIN queue = 1 .. Len(queue) /\ 1 \in DOMAIN queue
          BY <1>1, TailFacts
        <5>. QED
          BY <5>1
      <4>2. NoLeft(queue, 0, 1)
        BY <4>1 DEF NoLeft
      <4>. QED
        BY <1>5, <1>8, <3>1, <4>1, <4>2 DEF ReleaseNext
    <3>. QED
      BY <3>1
  <2>3. ASSUME drag'.on
        PROVE  /\ drag'.win = active'
               /\ win[drag'.win].place = Placed(drag'.win, e.x - drag'.x, e.y - drag'.y)
    BY <1>1, <2>1, <2>2, <2>3, PressKeepsWindows
  <2>4. ReleaseNext(t, d)
    BY <1>4, <1>8
  <2>. QED
    BY <1>1, <1>3, <2>1, <2>3, <2>4 DEF DragLeads, d
<1>9. CASE IsLeft(e) /\ ~ e.pressed
  <2>1. LeftReleased(e)
    BY <1>9, UiEventFacts
  <2>2. ~ drag'.on
    BY <1>1, <2>1, ReleaseKeepsWindows
  <2>. QED
    BY <2>2 DEF DragLeads
<1>10. CASE ~ IsMove(e) /\ ~ IsLeft(e)
  <2>1. UNCHANGED <<lm, win, created, active, cursor, drag>>
    BY <1>10, UiEventFacts
  <2>2. ASSUME drag.on, NoMove(t, 0)
        PROVE  win[drag.win].place = Placed(drag.win, pointer.x - drag.x, pointer.y - drag.y)
    BY <1>6, <1>10, <2>2 DEF DragLeads
  <2>. QED
    BY <1>1, <1>4, <1>5, <1>10, <2>1, <2>2 DEF DragLeads, d
<1>. QED
  BY <1>7, <1>8, <1>9, <1>10

\* An event taken out of the queue.
LEMMA UiEventKeeps ==
    ASSUME DesktopIInv, UiEvent
    PROVE  DesktopIInv'
<1>1. LayersKnown /\ MouseTypes /\ WindowsShown /\ Dragging
  BY DEF DesktopIInv
<1>2. LayersKnown' /\ WindowsShown' /\ Dragging'
  BY <1>1, UiEventShape
<1>3. /\ ui = "run" /\ ui' = ui /\ pointer' = pointer /\ held' = held /\ lost' = lost
      /\ queue # << >> /\ queue' = Tail(queue) /\ queue \in Seq(Event)
  BY <1>1, UiEventFacts DEF MouseTypes
<1>4. cursor' \in Place
  BY <1>1, UiEventCursor
<1>5. MouseTypes'
  <2>1. queue' \in Seq(Event) /\ Len(queue') = Len(queue) - 1 /\ Len(queue) \in Nat
    BY <1>3, TailFacts
  <2>2. Len(queue') <= Capacity
    <3>1. Len(queue) <= Capacity /\ Capacity \in Nat
      BY <1>1, DesktopAssumption DEF MouseTypes
    <3>. QED
      BY <2>1, <3>1
  <2>. QED
    BY <1>1, <1>3, <1>4, <2>1, <2>2 DEF MouseTypes
<1>6. ASSUME ~ lost' PROVE EventsLead' /\ DragLeads'
  <2>1. EventsLead /\ DragLeads
    BY <1>3, <1>6 DEF DesktopIInv
  <2>. DEFINE d == Left \in held
  <2>2. /\ PlacesLead(Tail(queue), pointer) /\ ButtonsLead(Tail(queue), d)
        /\ NoMove(Tail(queue), 0) => At(queue[1], pointer)
    <3>1. PlacesLead(queue, pointer) /\ ButtonsLead(queue, d) /\ d \in BOOLEAN
      BY <2>1 DEF EventsLead
    <3>. HIDE DEF d
    <3>. QED
      BY <1>3, <3>1, TailLeads
  <2>3. ASSUME NoMove(Tail(queue), 0) PROVE cursor' = pointer
    <3>1. CASE IsMove(queue[1])
      <4>0. ~ IsKey(queue[1])
        BY <1>1, <3>1, UiEventFacts
      <4>1. cursor' = [x |-> pointer.x, y |-> pointer.y]
        BY <1>1, <2>2, <2>3, <3>1, <4>0, UiEventCursor DEF At
      <4>2. pointer \in Place
        BY <1>1 DEF MouseTypes
      <4>. QED
        BY <4>1, <4>2 DEF Place
    <3>2. CASE ~ IsMove(queue[1])
      <4>1. NoMove(queue, 0)
        BY <1>3, <2>3, <3>2, TailKinds
      <4>2. cursor' = cursor
        BY <1>1, <3>2, UiEventCursor
      <4>. QED
        BY <1>3, <2>1, <4>1, <4>2 DEF EventsLead
    <3>. QED
      BY <3>1, <3>2
  <2>4. EventsLead'
    BY <1>3, <2>2, <2>3 DEF EventsLead
  <2>5. DragLeads'
    BY <1>1, <2>1, UiEventDrag
  <2>. QED
    BY <2>4, <2>5
<1>. QED
  BY <1>2, <1>5, <1>6 DEF DesktopIInv


-----------------------------------------------------------------------------
(* The inductive invariant holds *)

\* It holds before kernel_main has created anything.
LEMMA DesktopInit == Init => DesktopIInv
<1>. SUFFICES ASSUME Init PROVE DesktopIInv
  OBVIOUS
<1>0. /\ 0 \in Xs /\ 0 \in Ys /\ WIDTH \div 2 \in Xs /\ HEIGHT \div 2 \in Ys
  BY Sizes DEF Xs, Ys
<1>1. LayersKnown
  <2>1. /\ lm.table = << >> /\ lm.z = [l \in Layer |-> 0] /\ lm.top = 0 /\ created = {}
        /\ ui = "create" /\ active = NoWindow
    BY DEF Init, NoLayers
  <2>2. lm \in Manager
    BY DEF Init, NoLayers, Manager
  <2>3. Len(lm.table) = 0 /\ created = 1 .. 0
    BY <2>1
  <2>4. Booting(lm, 0)
    BY <2>1, <2>2, <2>3, Numbers DEF Booting, Heights
  <2>. QED
    BY <2>1, <2>3, <2>4 DEF LayersKnown
<1>2. MouseTypes
  <2>1. pointer \in Place /\ cursor \in Place
    BY <1>0 DEF Init, Place, NoPlace
  <2>2. queue \in Seq(Event) /\ Len(queue) = 0
    BY DEF Init
  <2>3. held \in SUBSET Button /\ lost \in BOOLEAN
    BY DEF Init
  <2>. QED
    BY <2>1, <2>2, <2>3, Sizes DEF MouseTypes
<1>3. WindowsShown
  BY <1>0 DEF Init, WindowsShown, FarEdges, Place, NoPlace
<1>4. Dragging
  BY <1>0 DEF Init, Dragging, NoDrag
<1>5. EventsLead
  <2>1. queue = << >> /\ DOMAIN queue = {} /\ ui = "create"
    BY DEF Init
  <2>. QED
    BY <2>1 DEF EventsLead, PlacesLead, ButtonsLead
<1>6. DragLeads
  BY DEF Init, NoDrag, DragLeads
<1>. QED
  BY <1>1, <1>2, <1>3, <1>4, <1>5, <1>6 DEF DesktopIInv

\* It holds through the start: while no event is handled the queue has all the
\* movements of the mouse, those between the two reads of its position too.
LEMMA BootKeeps ==
    ASSUME DesktopIInv, Boot
    PROVE  DesktopIInv'
<1>1. LayersKnown /\ MouseTypes /\ WindowsShown /\ Dragging
  BY DEF DesktopIInv
<1>2. ui # "run" /\ ~ drag.on
  <2>1. ui # "run"
    BY DEF Boot, GetMouseX, cursor_init, wm_create_window
  <2>. QED
    BY <1>1, <2>1 DEF Dragging
<1>3. CASE \E w \in Window : wm_create_window(w)
  <2>1. PICK w \in Window : wm_create_window(w)
    BY <1>3
  <2>2. LayersKnown' /\ WindowsShown' /\ Dragging'
    BY <1>1, <2>1, CreateKeepsLayers, CreateKeepsWindows
  <2>3. UNCHANGED <<pointer, held, cursor, queue, ui, drag, lost>>
    BY <2>1 DEF wm_create_window, mouse
  <2>4. MouseTypes'
    BY <1>1, <2>3 DEF MouseTypes
  <2>5. ASSUME ~ lost' PROVE EventsLead' /\ DragLeads'
    <3>1. EventsLead
      BY <2>3, <2>5 DEF DesktopIInv
    <3>. QED
      BY <1>2, <2>3, <3>1 DEF EventsLead, DragLeads
  <2>. QED
    BY <2>2, <2>4, <2>5 DEF DesktopIInv
<1>4. CASE GetMouseX
  <2>1. /\ cursor' = [cursor EXCEPT !.x = pointer.x] /\ ui' = "cursor"
        /\ UNCHANGED <<win, created, pointer, held, queue, drag, lost>>
    BY <1>4 DEF GetMouseX, windows, mouse
  <2>2. LayersKnown' /\ WindowsShown' /\ Dragging'
    BY <1>1, <1>2, <1>4, <2>1, CursorKeepsLayers, WindowsStay
  <2>3. cursor' \in Place /\ cursor'.x = pointer.x
    BY <1>1, <2>1 DEF MouseTypes, Place
  <2>4. MouseTypes'
    BY <1>1, <2>1, <2>3 DEF MouseTypes
  <2>5. ASSUME ~ lost' PROVE EventsLead' /\ DragLeads'
    <3>1. EventsLead
      BY <2>1, <2>5 DEF DesktopIInv
    <3>. QED
      BY <1>2, <2>1, <2>3, <3>1 DEF EventsLead, DragLeads
  <2>. QED
    BY <2>2, <2>4, <2>5 DEF DesktopIInv
<1>5. CASE cursor_init
  <2>1. /\ cursor' = [cursor EXCEPT !.y = pointer.y] /\ ui = "cursor" /\ ui' = "run"
        /\ UNCHANGED <<win, created, pointer, held, queue, drag, lost>>
    BY <1>5 DEF cursor_init, mouse
  <2>2. LayersKnown' /\ WindowsShown' /\ Dragging'
    BY <1>1, <1>2, <1>5, <2>1, CursorKeepsLayers, WindowsStay
  <2>3. /\ cursor' \in Place
        /\ cursor.x = pointer.x => cursor' = pointer
    BY <1>1, <2>1 DEF MouseTypes, Place
  <2>4. MouseTypes'
    BY <1>1, <2>1, <2>3 DEF MouseTypes
  <2>5. ASSUME ~ lost' PROVE EventsLead' /\ DragLeads'
    <3>1. EventsLead
      BY <2>1, <2>5 DEF DesktopIInv
    <3>. QED
      BY <1>2, <2>1, <2>3, <3>1 DEF EventsLead, DragLeads
  <2>. QED
    BY <2>2, <2>4, <2>5 DEF DesktopIInv
<1>. QED
  BY <1>3, <1>4, <1>5 DEF Boot

\* Composing only sorts the table.
LEMMA ComposeKeeps ==
    ASSUME DesktopIInv, compositor_compose
    PROVE  DesktopIInv'
<1>1. LayersKnown /\ MouseTypes /\ WindowsShown /\ Dragging
  BY DEF DesktopIInv
<1>2. UNCHANGED <<win, created, active, pointer, held, cursor, queue, ui, drag, lost>>
  BY DEF compositor_compose, mouse
<1>3. LayersKnown'
  BY <1>1, ComposeKeepsLayers
<1>4. WindowsShown' /\ Dragging'
  BY <1>1, <1>2, WindowsStay
<1>5. MouseTypes'
  BY <1>1, <1>2 DEF MouseTypes
<1>6. ASSUME ~ lost' PROVE EventsLead' /\ DragLeads'
  BY <1>2, <1>6 DEF DesktopIInv, EventsLead, DragLeads
<1>. QED
  BY <1>3, <1>4, <1>5, <1>6 DEF DesktopIInv

\* It holds through every step.
LEMMA DesktopNext == DesktopIInv /\ [Next]_vars => DesktopIInv'
<1>. SUFFICES ASSUME DesktopIInv, [Next]_vars PROVE DesktopIInv'
  OBVIOUS
<1>1. CASE Boot
  BY <1>1, BootKeeps
<1>2. CASE UiEvent
  BY <1>2, UiEventKeeps
<1>3. CASE compositor_compose
  BY <1>3, ComposeKeeps
<1>4. CASE Packet
  <2>1. PICK m \in Moves, bs \in SUBSET Button : mouse_on_packet(m[1], m[2], bs)
    BY <1>4 DEF Packet
  <2>2. m[1] \in Int /\ m[2] \in Int
    BY DesktopAssumption
  <2>. QED
    BY <2>1, <2>2, PacketKeeps
<1>5. CASE UNCHANGED vars
  <2>1. UNCHANGED <<lm, win, created, active, pointer, held, cursor, queue, ui, drag, lost>>
    BY <1>5 DEF vars, windows, mouse
  <2>2. LayersKnown' /\ MouseTypes' /\ WindowsShown' /\ Dragging'
    BY <2>1 DEF DesktopIInv, LayersKnown, MouseTypes, WindowsShown, FarEdges, Dragging
  <2>3. ASSUME ~ lost' PROVE EventsLead' /\ DragLeads'
    BY <2>1, <2>3 DEF DesktopIInv, EventsLead, DragLeads
  <2>. QED
    BY <2>2, <2>3 DEF DesktopIInv
<1>6. CASE keyboard_on_scancode
  BY <1>6, KeyKeeps
<1>. QED
  BY <1>1, <1>2, <1>3, <1>4, <1>5, <1>6 DEF Next, UiTask

\* It holds always.
LEMMA DesktopAlways == Spec => []DesktopIInv
BY DesktopInit, DesktopNext, PTL DEF Spec

-----------------------------------------------------------------------------
(* What follows *)

\* Layers, windows, events and drag keep the shape of their records: no step of
\* kernel_main, ui_task or the mouse stores a place off the screen, a window that
\* does not exist or more events than the queue holds.
THEOREM DesktopTypes == Spec => []TypeOK
<1>1. DesktopIInv => TypeOK
  <2>. SUFFICES ASSUME DesktopIInv PROVE TypeOK
    OBVIOUS
  <2>1. LayersKnown /\ MouseTypes /\ WindowsShown /\ Dragging
    BY DEF DesktopIInv
  <2>2. active \in Window \cup {NoWindow}
    BY <2>1 DEF LayersKnown
  <2>. QED
    BY <2>1, <2>2, LayerFacts DEF TypeOK, LayersKnown, MouseTypes, WindowsShown, Dragging
<1>. QED
  BY <1>1, DesktopAlways, PTL

\* No sequence of grabs, moves and releases pushes any part of a window, or of the
\* layer that is drawn for it, over any of the four edges of the screen, with any
\* number of windows and any movements (ui_task, wm_move_window).
THEOREM WindowsStayOnScreen == Spec => []OnScreen
<1>1. DesktopIInv => OnScreen
  <2>. SUFFICES ASSUME DesktopIInv, NEW w \in created
                PROVE  Fits(w, win[w].place) /\ Fits(w, win[w].drawn)
    BY DEF OnScreen
  <2>1. w \in Window /\ WindowsShown
    BY DEF DesktopIInv, LayersKnown
  <2>2. win[w].place.x \in Xs /\ win[w].place.y \in Ys
    BY <2>1 DEF WindowsShown, Place
  <2>3. 0 <= win[w].place.x /\ 0 <= win[w].place.y
    BY <2>2 DEF Xs, Ys
  <2>4. /\ win[w].place.x + Geometry[w].w <= WIDTH
        /\ win[w].place.y + Geometry[w].h <= HEIGHT
    BY <2>1 DEF WindowsShown, FarEdges
  <2>5. Fits(w, win[w].place) /\ win[w].drawn = win[w].place
    BY <2>1, <2>3, <2>4 DEF Fits, WindowsShown
  <2>. QED
    BY <2>5
<1>. QED
  BY <1>1, DesktopAlways, PTL

\* The window that gets the keys is in front of all others, through every
\* renumbering of the layers (wm_focus, allocate_z).
THEOREM ActiveIsInFront == Spec => []ActiveInFront
<1>1. DesktopIInv => ActiveInFront
  <2>. SUFFICES ASSUME DesktopIInv, NEW w \in created \ {active}
                PROVE  lm.z[w] < lm.z[active]
    BY DEF ActiveInFront
  <2>1. LayersKnown
    BY DEF DesktopIInv
  <2>2. active \in created /\ lm.z[active] = lm.top
    BY <2>1 DEF LayersKnown
  <2>3. /\ lm.z[w] \in 1 .. lm.top /\ lm.top \in Nat
        /\ (lm.z[w] = lm.z[active] => w = active)
    BY <2>1, <2>2, LayerFacts DEF Heights
  <2>. QED
    BY <2>2, <2>3
<1>. QED
  BY <1>1, DesktopAlways, PTL

\* However often windows are raised, the numbers of their layers never reach that
\* of the cursor (allocate_z, CURSOR_Z).
THEOREM CursorStaysOnTop == Spec => []CursorOnTop
<1>1. DesktopIInv => CursorOnTop
  <2>. SUFFICES ASSUME DesktopIInv, ui = "run", NEW w \in Window
                PROVE  lm.z[w] < lm.z[Cursor]
    BY DEF CursorOnTop
  <2>1. Full(lm)
    BY DEF DesktopIInv, LayersKnown
  <2>2. lm.z[Cursor] = CURSOR_Z /\ lm.z[w] \in 1 .. lm.top /\ lm.top \in Nat /\ lm.top < CURSOR_Z
    BY <2>1, Numbers DEF Full, Heights, Manager
  <2>. QED
    BY <2>2, Numbers
<1>. QED
  BY <1>1, DesktopAlways, PTL

\* A press reaches the window that is drawn in front at its point: the hit test
\* on the windows (wm_topmost_window) and the order in which compositor_compose
\* draws the layers never disagree.
THEOREM HitsAreDrawn == Spec => []HitIsDrawn
<1>1. DesktopIInv => HitIsDrawn
  BY TopmostIsDrawn DEF DesktopIInv, HitIsDrawn
<1>. QED
  BY <1>1, DesktopAlways, PTL

\* Once its events are handled, a dragged window is the active one and is where it
\* was grabbed under the mouse, as far as the screen lets it (ui_task).
THEOREM DragsFollow == Spec => []DragFollows
<1>1. DesktopIInv => DragFollows
  <2>. SUFFICES ASSUME DesktopIInv, Drained, drag.on
                PROVE  /\ drag.win = active
                       /\ win[drag.win].place =
                             Placed(drag.win, pointer.x - drag.x, pointer.y - drag.y)
    BY DEF DragFollows
  <2>1. DragLeads /\ NoMove(queue, 0)
    BY DEF DesktopIInv, Drained, NoMove
  <2>. QED
    BY <2>1 DEF DragLeads
<1>. QED
  BY <1>1, DesktopAlways, PTL

\* Once the events are handled, the cursor is where the mouse is, also when it
\* moved between the two reads of its position (cursor_init, ui_task).
THEOREM CursorCatchesMouse == Spec => []CursorCatchesUp
<1>1. DesktopIInv => CursorCatchesUp
  <2>. SUFFICES ASSUME DesktopIInv, Drained PROVE cursor = pointer
    BY DEF CursorCatchesUp
  <2>1. EventsLead /\ NoMove(queue, 0) /\ ui = "run"
    BY DEF DesktopIInv, Drained, NoMove
  <2>. QED
    BY <2>1 DEF EventsLead
<1>. QED
  BY <1>1, DesktopAlways, PTL

\* Unless an event was refused, no window is dragged without the left button once
\* the events are handled (mouse_on_packet, ui_task).
THEOREM DragsNeedTheButton == Spec => []DragNeedsButton
<1>1. DesktopIInv => DragNeedsButton
  <2>. SUFFICES ASSUME DesktopIInv, Drained, drag.on PROVE Left \in held
    BY DEF DragNeedsButton
  <2>1. ReleaseNext(queue, Left \in held) /\ NoLeft(queue, 0, End(queue))
    BY DEF DesktopIInv, Drained, DragLeads, NoLeft
  <2>. QED
    BY <2>1 DEF ReleaseNext
<1>. QED
  BY <1>1, DesktopAlways, PTL

\* No step changes the order of two windows other than by raising the one that
\* becomes active: neither the renumbering (allocate_z) nor the sorting of the
\* table (layer_get_all) does.
THEOREM OrderIsKept == Spec => OrderKept
<1>1. ASSUME DesktopIInv, Next PROVE OrderStep
  <2>1. LayersKnown /\ MouseTypes /\ WindowsShown /\ Dragging
    BY <1>1 DEF DesktopIInv
  <2>2. CASE GetMouseX \/ cursor_init
    BY <2>1, <2>2, CursorKeepsLayers
  <2>3. CASE \E w \in Window : wm_create_window(w)
    BY <2>1, <2>3, CreateKeepsLayers
  <2>4. CASE UiEvent
    BY <2>1, <2>4, UiEventShape
  <2>5. CASE compositor_compose
    BY <2>1, <2>5, ComposeKeepsLayers
  <2>6. CASE Packet
    <3>1. UNCHANGED <<lm, created, active, ui>>
      BY <2>6 DEF Packet, mouse_on_packet, windows
    <3>. QED
      BY <2>1, <3>1, UntouchedLayers DEF Untouched
  <2>7. CASE keyboard_on_scancode
    <3>1. UNCHANGED <<lm, created, active, ui>>
      BY <2>7 DEF keyboard_on_scancode, windows
    <3>. QED
      BY <2>1, <3>1, UntouchedLayers DEF Untouched
  <2>. QED
    BY <1>1, <2>2, <2>3, <2>4, <2>5, <2>6, <2>7 DEF Next, Boot, UiTask
<1>2. DesktopIInv /\ [Next]_vars => [OrderStep]_vars
  BY <1>1
<1>. QED
  BY <1>2, DesktopAlways, PTL DEF Spec, OrderKept, OrderStep

=============================================================================
