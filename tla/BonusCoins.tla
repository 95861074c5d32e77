----------------------------- MODULE BonusCoins -----------------------------
(***************************************************************************)
(* BonusCoinManager.find_and_claim_unclaimed_coin: how concurrent workers  *)
(* claim a unit of a drop's bonus coins from the database.                 *)
(*                                                                         *)
(* A claim is four database accesses, each of them atomic (autocommit,     *)
(* READ COMMITTED): the SELECT of the coins still available, the UPDATE    *)
(* conditional on number_claimed being what was read, refresh_from_db, and *)
(* save(), which writes every field of the object back.                    *)
(***************************************************************************)
EXTENDS Naturals, FiniteSets

CONSTANTS
  Workers,          \* threads of the subscriber's pool
  Coins,            \* BonusCoin rows of the active drop
  NumberAvailable,  \* Coins -> Nat, number_available_at_start
  MaxCalls,         \* bound: calls of find_and_claim_unclaimed_coin in all
  NoCoin            \* a local variable that holds no coin yet

ASSUME NumberAvailableType == NumberAvailable \in [Coins -> Nat]
ASSUME MaxCallsType == MaxCalls \in Nat
ASSUME NoCoinFresh == NoCoin \notin Coins

VARIABLES
  number_claimed,   \* the column, for each coin
  pc,               \* where each worker stands in the call
  coin,             \* the worker's local coin object ...
  seen,             \* ... and its number_claimed attribute
  calls,            \* calls made so far
  claims,           \* history: conditional UPDATEs that succeeded, per coin
  raced             \* history: coins claimed between another claim's UPDATE
                    \* and its save()

vars == <<number_claimed, pc, coin, seen, calls, claims, raced>>

Steps ==
  {"idle", "find", "update", "refresh", "save", "claimed", "out_of_stock"}

Init ==
  /\ number_claimed = [c \in Coins |-> 0]
  /\ pc = [w \in Workers |-> "idle"]
  /\ coin = [w \in Workers |-> NoCoin]
  /\ seen = [w \in Workers |-> 0]
  /\ calls = 0
  /\ claims = [c \in Coins |-> 0]
  /\ raced = [c \in Coins |-> FALSE]

(* As it would be with number_available_at_start__gte. *)
AvailableOffByOne(c) == number_claimed[c] <= NumberAvailable[c]

(* available_coins(): number_available_at_start > number_claimed. *)
Available(c) == number_claimed[c] < NumberAvailable[c]

(* A thread has updated the coin and not yet written its own copy back. *)
Holds(w, c) == coin[w] = c /\ pc[w] \in {"refresh", "save"}

(* A handler calls find_and_claim_unclaimed_coin. *)
Call(w) ==
  /\ pc[w] = "idle"
  /\ calls < MaxCalls
  /\ calls' = calls + 1
  /\ pc' = [pc EXCEPT ![w] = "find"]
  /\ UNCHANGED <<number_claimed, coin, seen, claims, raced>>

(* The SELECT, and the weighted random choice among its rows: a coin with  *)
(* units left has a positive weight, so any of them may be picked.         *)
Find(w) ==
  /\ pc[w] = "find"
  /\ \E c \in Coins :
       /\ Available(c)
       /\ coin' = [coin EXCEPT ![w] = c]
       /\ seen' = [seen EXCEPT ![w] = number_claimed[c]]
  /\ pc' = [pc EXCEPT ![w] = "update"]
  /\ UNCHANGED <<number_claimed, calls, claims, raced>>

(* As it would be without the test of len(coins_available). *)
FindNothingUnchecked(w) ==
  /\ pc[w] = "find"
  /\ \A c \in Coins : ~Available(c)
  /\ pc' = [pc EXCEPT ![w] = "update"]
  /\ UNCHANGED <<number_claimed, coin, seen, calls, claims, raced>>

(* As it would be if the first sold-out coin ended the search. *)
FindNothingTooEarly(w) ==
  /\ pc[w] = "find"
  /\ \E c \in Coins : ~Available(c)
  /\ pc' = [pc EXCEPT ![w] = "out_of_stock"]
  /\ UNCHANGED <<number_claimed, coin, seen, calls, claims, raced>>

(* The SELECT returns no row: OutOfStockException, which is not retried. *)
FindNothing(w) ==
  /\ pc[w] = "find"
  /\ \A c \in Coins : ~Available(c)
  /\ pc' = [pc EXCEPT ![w] = "out_of_stock"]
  /\ UNCHANGED <<number_claimed, coin, seen, calls, claims, raced>>

(* As it would be without the optimistic lock. *)
UnchangedUnlocked(w) == Available(coin[w])

(* The WHERE clause of _claim_optimistic's UPDATE. *)
Unchanged(w) == Available(coin[w]) /\ number_claimed[coin[w]] = seen[w]

(* The UPDATE finds the row as it was read. *)
ClaimOptimistic(w) ==
  /\ pc[w] = "update"
  /\ Unchanged(w)
  /\ number_claimed' = [number_claimed EXCEPT ![coin[w]] = seen[w] + 1]
  /\ claims' = [claims EXCEPT ![coin[w]] = @ + 1]
  /\ raced' = [raced EXCEPT ![coin[w]] =
                 @ \/ \E v \in Workers \ {w} : Holds(v, coin[w])]
  /\ pc' = [pc EXCEPT ![w] = "refresh"]
  /\ UNCHANGED <<coin, seen, calls>>

(* As it would be with the decorator on _claim_optimistic. *)
RetrySameCoin(w) ==
  /\ pc[w] = "update"
  /\ ~Unchanged(w)
  /\ UNCHANGED <<number_claimed, pc, coin, seen, calls, claims, raced>>

(* The UPDATE matches no row: ConcurrentModificationException, and the     *)
(* retry decorator starts the method again with a new SELECT, for ever.    *)
RetryClaim(w) ==
  /\ pc[w] = "update"
  /\ ~Unchanged(w)
  /\ pc' = [pc EXCEPT ![w] = "find"]
  /\ UNCHANGED <<number_claimed, coin, seen, calls, claims, raced>>

(* coin.refresh_from_db(), a second read outside the transaction. *)
RefreshFromDb(w) ==
  /\ pc[w] = "refresh"
  /\ seen' = [seen EXCEPT ![w] = number_claimed[coin[w]]]
  /\ pc' = [pc EXCEPT ![w] = "save"]
  /\ UNCHANGED <<number_claimed, coin, calls, claims, raced>>

(* claimed_coin.save() writes number_claimed back as it was refreshed. *)
SaveCoin(w) ==
  /\ pc[w] = "save"
  /\ number_claimed' = [number_claimed EXCEPT ![coin[w]] = seen[w]]
  /\ pc' = [pc EXCEPT ![w] = "claimed"]
  /\ UNCHANGED <<coin, seen, calls, claims, raced>>

(* The caller has the coin, or the exception, and the locals are gone. *)
Return(w) ==
  /\ pc[w] \in {"claimed", "out_of_stock"}
  /\ pc' = [pc EXCEPT ![w] = "idle"]
  /\ coin' = [coin EXCEPT ![w] = NoCoin]
  /\ seen' = [seen EXCEPT ![w] = 0]
  /\ UNCHANGED <<number_claimed, calls, claims, raced>>

(* The steps of a call in progress. *)
ClaimStep(w) ==
  \/ Find(w) \/ FindNothing(w)
  \/ ClaimOptimistic(w) \/ RetryClaim(w)
  \/ RefreshFromDb(w) \/ SaveCoin(w)

Next == \E w \in Workers : Call(w) \/ ClaimStep(w) \/ Return(w)

Spec == Init /\ [][Next]_vars

(* The pool's threads are scheduled by the operating system: one that can  *)
(* run eventually does.  Nothing is assumed of when a handler calls.       *)
FairSpec == Spec /\ \A w \in Workers : WF_vars(ClaimStep(w) \/ Return(w))

-----------------------------------------------------------------------------
(* A worker past its SELECT has a coin in hand until it returns.           *)
TypeOK ==
  /\ number_claimed \in [Coins -> Nat]
  /\ pc \in [Workers -> Steps]
  /\ coin \in [Workers -> Coins \cup {NoCoin}]
  /\ \A w \in Workers :
       pc[w] \in {"update", "refresh", "save", "claimed"} => coin[w] \in Coins
  /\ seen \in [Workers -> Nat]
  /\ calls \in 0 .. MaxCalls
  /\ claims \in [Coins -> Nat]
  /\ raced \in [Coins -> BOOLEAN]

(* No interleaving of claims, and no stale save(), ever pushes the column  *)
(* above the stock: number_remaining() (base.py:315) is never negative.    *)
NeverOverdrawn ==
  \A c \in Coins : number_claimed[c] <= NumberAvailable[c]

(* The optimistic UPDATE alone loses no claim: the column counts the       *)
(* claims of a coin exactly until two calls overlap on it between UPDATE   *)
(* and save().  So no coin is given away too often before such an overlap. *)
ClaimsCounted ==
  \A c \in Coins : ~raced[c] => claims[c] = number_claimed[c]

(* A coin is claimed at most number_available_at_start times, what the     *)
(* availability filter and the optimistic lock of base.py:228-290 are for. *)
ClaimsWithinStock ==
  \A c \in Coins : claims[c] <= NumberAvailable[c]

(* A call returns: although the retry has no limit, every conflict is the  *)
(* progress of another call.                                               *)
CallReturns ==
  \A w \in Workers : pc[w] = "find" ~> pc[w] \in {"claimed", "out_of_stock"}

-----------------------------------------------------------------------------
(* The claim as its callers see it: it takes effect at the UPDATE. *)
Asking == "asking"
Refused == "refused"

OutcomeOf(w) ==
  CASE pc[w] \in {"refresh", "save", "claimed"} -> coin[w]
    [] pc[w] = "out_of_stock"                   -> Refused
    [] OTHER                                    -> Asking

Pool == INSTANCE CoinPool
          WITH claimed <- number_claimed,
               outcome <- [w \in Workers |-> OutcomeOf(w)]

(* Until two calls overlap on a coin between UPDATE and save(), every step *)
(* of every worker is a step of the atomic pool or invisible to it.        *)
PoolUntilRace ==
  /\ Pool!Init
  /\ [][(\E c \in Coins : raced'[c]) \/ Pool!Next]_<<Pool!vars>>
=============================================================================
