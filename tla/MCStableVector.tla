--------------------------- MODULE MCStableVector ---------------------------
(***************************************************************************)
(* Two vectors of up to MaxSize elements.                                  *)
(***************************************************************************)
EXTENDS StableVector, TLC

VectorSymmetry == Permutations(Vectors)
=============================================================================
