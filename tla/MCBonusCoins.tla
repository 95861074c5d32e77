--------------------------- MODULE MCBonusCoins ---------------------------
(* Instances of BonusCoins for TLC. *)
EXTENDS BonusCoins, TLC

CONSTANTS c1, c2

(* A coin with one unit, where every second claim must be refused, and one *)
(* with two, where an overlap can lose a claim while units are left.       *)
MCNumberAvailable == (c1 :> 1) @@ (c2 :> 2)

Symmetry == Permutations(Workers)
=============================================================================
