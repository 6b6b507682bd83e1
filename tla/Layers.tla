------------------------------- MODULE Layers -------------------------------
(***************************************************************************)
(* The layer manager of graphics/layer_manager.c: a table of layers which  *)
(* is sorted by z only when it is read, and a counter from which every     *)
(* layer that is added or raised gets a new z above all others.  When the  *)
(* counter reaches Z_RESET_THRESHOLD the layers are numbered anew.         *)
(*                                                                         *)
(* The manager's state is a record m: m.table (layers, layer_count), m.z   *)
(* (the z of each layer) and m.top (g_layer_top_z).  Each operator returns *)
(* the state after the function of the same name.                          *)
(***************************************************************************)
EXTENDS Integers, FiniteSets, Sequences

CONSTANTS
    Window,             \* the windows, each with a layer of its own
    MAX_LAYERS,         \* capacity of the table
    Z_RESET_THRESHOLD,  \* value of the counter at which z is renumbered
    CURSOR_Z            \* the z of the cursor's layer, fixed

Cursor == 0
Layer == Window \cup {Cursor}

ASSUME LayersAssumption ==
    /\ Window \subseteq Nat \ {0}
    /\ IsFiniteSet(Window)
    /\ MAX_LAYERS \in Nat \ {0}
    /\ Z_RESET_THRESHOLD \in Nat \ {0}
    /\ CURSOR_Z \in Nat
    /\ CURSOR_Z > Z_RESET_THRESHOLD /\ CURSOR_Z > MAX_LAYERS

NoLayers == [table |-> << >>, z |-> [l \in Layer |-> 0], top |-> 0]

\* sort_layers is an insertion sort, and therefore stable: entries of the same
\* z stay in the order of the table.
SortedBefore(m, i, j) ==
    \/ m.z[m.table[i]] < m.z[m.table[j]]
    \/ m.z[m.table[i]] = m.z[m.table[j]] /\ i < j

SortedTable(m) ==
    [n \in DOMAIN m.table |->
        m.table[CHOOSE j \in DOMAIN m.table :
            Cardinality({i \in DOMAIN m.table : SortedBefore(m, i, j)}) = n - 1]]

layer_get_all(m) == [m EXCEPT !.table = SortedTable(m)]

\* The entries but the last are numbered from 1 in the order in which they are
\* drawn; the last one is taken to be the cursor and keeps its z.
Numbered(m) ==
    [m EXCEPT
        !.z = [l \in Layer |->
                 IF \E i \in 1 .. Len(m.table) - 1 : m.table[i] = l
                 THEN CHOOSE i \in 1 .. Len(m.table) - 1 : m.table[i] = l
                 ELSE m.z[l]],
        !.top = Len(m.table) - 1]

RebaseUnsorted(m) == Numbered(m)

layer_rebase_z(m) == Numbered(layer_get_all(m))

\* What allocate_z leaves behind; the z that it returns is the new top.
AllocateWithoutRebase(m) == [m EXCEPT !.top = @ + 1]

allocate_z(m) ==
    LET r == IF m.top >= Z_RESET_THRESHOLD THEN layer_rebase_z(m) ELSE m
    IN  [r EXCEPT !.top = @ + 1]

BringToFrontPostIncrement(m, l) ==
    LET a == allocate_z(m) IN [a EXCEPT !.z[l] = a.top - 1]

layer_bring_to_front(m, l) ==
    LET a == allocate_z(m) IN [a EXCEPT !.z[l] = a.top]

\* layer_add, where the table has room (see the assumption of Desktop); only the cursor brings its own z.
layer_add(m, l) ==
    LET a == IF l = Cursor THEN [m EXCEPT !.z[l] = CURSOR_Z]
             ELSE layer_bring_to_front(m, l)
    IN  [a EXCEPT !.table = Append(@, l)]

=============================================================================
