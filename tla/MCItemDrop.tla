---------------------------- MODULE MCItemDrop ----------------------------
(* Instances of ItemDrop for TLC. *)
EXTENDS ItemDrop, TLC

CONSTANTS h1, h2, c1, c2

Symmetry == Permutations(Workers)
=============================================================================
