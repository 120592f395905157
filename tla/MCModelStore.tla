---------------------------- MODULE MCModelStore ----------------------------
(* Two models, so that requests about different ones mix; permutations of    *)
(* model values that occur only as identities.                               *)
EXTENDS ModelStore, TLC

Symmetry == Permutations(Requests) \cup Permutations(Ids)
=============================================================================
