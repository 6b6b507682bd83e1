------------------------------ MODULE MCPaging ------------------------------
(***************************************************************************)
(* Instances of paging for TLC.                                            *)
(***************************************************************************)
EXTENDS Paging

MCFrames == {0, 1}
MCRangeSizes == {0, 1, 3}

=============================================================================
