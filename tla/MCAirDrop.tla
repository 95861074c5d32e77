---------------------------- MODULE MCAirDrop -----------------------------
(* Instances of AirDrop for TLC. *)
EXTENDS AirDrop, TLC

CONSTANTS h1, h2, c1, c2, c3, gold

OneCoin == gold :> 1
ThreeCoins == gold :> 3

Symmetry == Permutations(Workers) \cup Permutations(Customers)

(* A smaller choice of initial states, for the instance with the most      *)
(* customers: the bot knows the preferences of none or of all of them.     *)
NoneOrAllKnown == AirInit /\ prefs \in {{}, Customers}

KnownSpec == NoneOrAllKnown /\ [][AirNext]_airVars
=============================================================================
