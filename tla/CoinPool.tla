------------------------------ MODULE CoinPool ------------------------------
(***************************************************************************)
(* What BonusCoinManager promises its callers: a drop's bonus coins are    *)
(* finite stocks, and asking for a coin either takes one unit out of one   *)
(* stock, in one atomic step, or is refused because all stocks are empty.  *)
(***************************************************************************)
EXTENDS Naturals

CONSTANTS
  Workers,          \* the threads that ask for coins
  Coins,            \* the BonusCoin rows of the drop
  NumberAvailable,  \* Coins -> Nat, number_available_at_start
  Asking, Refused   \* outcomes that are not a coin

VARIABLES
  claimed,          \* units taken out of each stock
  outcome           \* what each worker's latest call has come to

vars == <<claimed, outcome>>

Init ==
  /\ claimed = [c \in Coins |-> 0]
  /\ outcome = [w \in Workers |-> Asking]

(* One unit of one stock goes to one worker. *)
Take(w, c) ==
  /\ outcome[w] = Asking
  /\ claimed[c] < NumberAvailable[c]
  /\ claimed' = [claimed EXCEPT ![c] = @ + 1]
  /\ outcome' = [outcome EXCEPT ![w] = c]

(* A worker is refused only when nothing is left. *)
Refuse(w) ==
  /\ outcome[w] = Asking
  /\ \A c \in Coins : claimed[c] >= NumberAvailable[c]
  /\ outcome' = [outcome EXCEPT ![w] = Refused]
  /\ UNCHANGED claimed

(* The caller is done with the answer and may ask again. *)
Forget(w) ==
  /\ outcome[w] # Asking
  /\ outcome' = [outcome EXCEPT ![w] = Asking]
  /\ UNCHANGED claimed

Next ==
  \E w \in Workers :
    \/ \E c \in Coins : Take(w, c)
    \/ Refuse(w)
    \/ Forget(w)

Spec == Init /\ [][Next]_vars
=============================================================================
