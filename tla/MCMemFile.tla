----------------------------- MODULE MCMemFile ------------------------------
(***************************************************************************)
(* Files of up to three bytes of two kinds, in buffers that grow by two.    *)
(***************************************************************************)
EXTENDS MemFile

Symmetry == Permutations(Byte)
=============================================================================
