------------------------------- MODULE MCRing -------------------------------
(***************************************************************************)
(* A list of up to three items, sorted by the ranks of their contents: two *)
(* ranks, one of them twice, and contents that are not ranked.             *)
(***************************************************************************)
EXTENDS RingOrder

MCData == {"x", "y", "t", "-"}
MCRanked == {"x", "y", "t"}
MCRank == [x |-> 1, y |-> 2, t |-> 2]
MCLengths == 1..3
=============================================================================
