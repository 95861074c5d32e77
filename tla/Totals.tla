------------------------------- MODULE Totals -------------------------------
(***************************************************************************)
(* The sum of a function with values in Nat, counted unit by unit: as a    *)
(* cardinality, lemmas about it need no induction.                         *)
(***************************************************************************)
EXTENDS Integers, FiniteSets

UnitsAt(f, x) == {x} \X (1 .. f[x])

Units(f) == UNION {UnitsAt(f, x) : x \in DOMAIN f}

Total(f) == Cardinality(Units(f))
=============================================================================
