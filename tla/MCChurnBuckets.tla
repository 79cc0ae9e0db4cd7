--------------------------- MODULE MCChurnBuckets ---------------------------
(***************************************************************************)
(* Three operations over four bucket widths; the operations are            *)
(* interchangeable.                                                        *)
(***************************************************************************)
EXTENDS ChurnBuckets, TLC

OpSymmetry == Permutations(Ops)
=============================================================================
