------------------------------ MODULE MCDesktop ------------------------------
(***************************************************************************)
(* Instances of the desktop for TLC: a screen of a few pixels, windows     *)
(* that overlap each other or can be moved, along a row in one instance    *)
(* and along a column in the other, and a threshold that the counter of    *)
(* the layers reaches soon after the start.                                *)
(***************************************************************************)
EXTENDS Desktop, TLC

MCButton == {"left"}
MCButtons == {"left", "right"}
\* Steps in the four directions, one of them too far to be taken.
MCMoves == {<<0, 0>>, <<1, 0>>, <<-1, 0>>, <<0, 1>>, <<0, -1>>, <<2, 0>>}

\* As wide as the screen of two columns, and a row lower than its three rows.
MCGeometry1 == 1 :> [x |-> 0, y |-> 0, w |-> 2, h |-> 2]

\* Along row 1 the windows 1 and 3 show their title bars; window 2 has its
\* border row there, so that a press focuses it and does not grab it.
MCMovesAlong == {<<0, 0>>, <<1, 0>>, <<-1, 0>>}

MCGeometry3 ==
    (1 :> [x |-> 0, y |-> 0, w |-> 2, h |-> 2]) @@
    (2 :> [x |-> 1, y |-> 1, w |-> 2, h |-> 1]) @@
    (3 :> [x |-> 0, y |-> 0, w |-> 2, h |-> 2])

=============================================================================
