-------------------------- MODULE BonusCoinsProofs --------------------------
(***************************************************************************)
(* Proofs about module BonusCoins, for any number of workers, coins, units *)
(* and calls.                                                              *)
(***************************************************************************)
EXTENDS BonusCoins, TLAPS

(* Every step keeps the types.                                             *)
LEMMA TypeStep == TypeOK /\ [Next]_vars => TypeOK'
<1> SUFFICES ASSUME TypeOK, [Next]_vars
             PROVE  TypeOK'
  OBVIOUS
<1> USE NumberAvailableType, MaxCallsType DEF TypeOK, Steps
<1>1. CASE UNCHANGED vars
  BY <1>1 DEF vars
<1>2. ASSUME NEW w \in Workers, Call(w)
      PROVE  TypeOK'
  BY <1>2 DEF Call
<1>3. ASSUME NEW w \in Workers, Find(w)
      PROVE  TypeOK'
  BY <1>3 DEF Find, Available
<1>4. ASSUME NEW w \in Workers, FindNothing(w)
      PROVE  TypeOK'
  BY <1>4 DEF FindNothing
<1>5. ASSUME NEW w \in Workers, ClaimOptimistic(w)
      PROVE  TypeOK'
  BY <1>5 DEF ClaimOptimistic, Holds
<1>6. ASSUME NEW w \in Workers, RetryClaim(w)
      PROVE  TypeOK'
  BY <1>6 DEF RetryClaim
<1>7. ASSUME NEW w \in Workers, RefreshFromDb(w)
      PROVE  TypeOK'
  BY <1>7 DEF RefreshFromDb
<1>8. ASSUME NEW w \in Workers, SaveCoin(w)
      PROVE  TypeOK'
  BY <1>8 DEF SaveCoin
<1>9. ASSUME NEW w \in Workers, Return(w)
      PROVE  TypeOK'
  BY <1>9 DEF Return
<1> QED
  BY <1>1, <1>2, <1>3, <1>4, <1>5, <1>6, <1>7, <1>8, <1>9 DEF Next, ClaimStep

(* Every variable keeps its type, and a worker between its SELECT and its  *)
(* return has a coin in hand (find_and_claim_unclaimed_coin).              *)
THEOREM TypeCorrect == Spec => []TypeOK
<1>1. Init => TypeOK
  BY MaxCallsType, NoCoinFresh DEF Init, TypeOK, Steps
<1> QED
  BY <1>1, TypeStep, PTL DEF Spec

-----------------------------------------------------------------------------
(* What a worker is about to save was read from the column, so it respects *)
(* the stock as the column does.                                           *)
StockInv ==
  /\ NeverOverdrawn
  /\ \A w \in Workers : pc[w] = "save" => seen[w] <= NumberAvailable[coin[w]]

(* Every step keeps the stock.                                             *)
LEMMA StockStep == TypeOK /\ StockInv /\ [Next]_vars => StockInv'
<1> SUFFICES ASSUME TypeOK, StockInv, [Next]_vars
             PROVE  StockInv'
  OBVIOUS
<1> USE NumberAvailableType DEF TypeOK, StockInv, NeverOverdrawn
<1>1. CASE UNCHANGED vars
  BY <1>1 DEF vars
<1>2. ASSUME NEW w \in Workers, Call(w)
      PROVE  StockInv'
  BY <1>2 DEF Call
<1>3. ASSUME NEW w \in Workers, Find(w)
      PROVE  StockInv'
  BY <1>3 DEF Find
<1>4. ASSUME NEW w \in Workers, FindNothing(w)
      PROVE  StockInv'
  BY <1>4 DEF FindNothing
<1>5. ASSUME NEW w \in Workers, ClaimOptimistic(w)
      PROVE  StockInv'
  BY <1>5 DEF ClaimOptimistic, Unchanged, Available
<1>6. ASSUME NEW w \in Workers, RetryClaim(w)
      PROVE  StockInv'
  BY <1>6 DEF RetryClaim
<1>7. ASSUME NEW w \in Workers, RefreshFromDb(w)
      PROVE  StockInv'
  BY <1>7 DEF RefreshFromDb
<1>8. ASSUME NEW w \in Workers, SaveCoin(w)
      PROVE  StockInv'
  BY <1>8 DEF SaveCoin
<1>9. ASSUME NEW w \in Workers, Return(w)
      PROVE  StockInv'
  BY <1>9 DEF Return
<1> QED
  BY <1>1, <1>2, <1>3, <1>4, <1>5, <1>6, <1>7, <1>8, <1>9 DEF Next, ClaimStep

(* The column never exceeds the stock, stale saves included.               *)
THEOREM NeverOverdrawnHolds == Spec => []NeverOverdrawn
<1>1. Init => StockInv
  BY NumberAvailableType DEF Init, StockInv, NeverOverdrawn
<1>2. StockInv => NeverOverdrawn
  BY DEF StockInv
<1> QED
  BY <1>1, <1>2, StockStep, TypeCorrect, PTL DEF Spec

-----------------------------------------------------------------------------
(* Of a coin on which no two claims have overlapped: the column counts its *)
(* claims, at most one worker holds it between UPDATE and save(), and what *)
(* that worker will save is what the column says.                          *)
CountInv ==
  \A c \in Coins : ~raced[c] =>
    /\ claims[c] = number_claimed[c]
    /\ \A v, w \in Workers : Holds(v, c) /\ Holds(w, c) => v = w
    /\ \A w \in Workers :
         coin[w] = c /\ pc[w] = "save" => seen[w] = number_claimed[c]

(* Every step keeps the count of the claims of a coin without an overlap.  *)
LEMMA CountStep == TypeOK /\ CountInv /\ [Next]_vars => CountInv'
<1> SUFFICES ASSUME TypeOK, CountInv, [Next]_vars
             PROVE  CountInv'
  OBVIOUS
<1> USE DEF TypeOK, CountInv, Holds
<1>1. CASE UNCHANGED vars
  BY <1>1 DEF vars
<1>2. ASSUME NEW w \in Workers, Call(w)
      PROVE  CountInv'
  BY <1>2 DEF Call
<1>3. ASSUME NEW w \in Workers, Find(w)
      PROVE  CountInv'
  BY <1>3 DEF Find
<1>4. ASSUME NEW w \in Workers, FindNothing(w)
      PROVE  CountInv'
  BY <1>4 DEF FindNothing
<1>5. ASSUME NEW w \in Workers, ClaimOptimistic(w)
      PROVE  CountInv'
  BY <1>5 DEF ClaimOptimistic, Unchanged
<1>6. ASSUME NEW w \in Workers, RetryClaim(w)
      PROVE  CountInv'
  BY <1>6 DEF RetryClaim
<1>7. ASSUME NEW w \in Workers, RefreshFromDb(w)
      PROVE  CountInv'
  BY <1>7 DEF RefreshFromDb
<1>8. ASSUME NEW w \in Workers, SaveCoin(w)
      PROVE  CountInv'
  BY <1>8 DEF SaveCoin
<1>9. ASSUME NEW w \in Workers, Return(w)
      PROVE  CountInv'
  BY <1>9 DEF Return
<1> QED
  BY <1>1, <1>2, <1>3, <1>4, <1>5, <1>6, <1>7, <1>8, <1>9 DEF Next, ClaimStep

(* The optimistic lock loses no claim until two calls overlap on a coin    *)
(* between UPDATE and save() (base.py:283-288).                            *)
THEOREM ClaimsCountedHolds == Spec => []ClaimsCounted
<1>1. Init => CountInv
  BY DEF Init, CountInv, Holds
<1>2. CountInv => ClaimsCounted
  BY DEF CountInv, ClaimsCounted
<1> QED
  BY <1>1, <1>2, CountStep, TypeCorrect, PTL DEF Spec

(* So a coin that no two claims overlapped on is never given away more     *)
(* often than there are units of it.                                       *)
THEOREM StockUntilRace ==
  Spec => [](\A c \in Coins : ~raced[c] => claims[c] <= NumberAvailable[c])
<1>1. NeverOverdrawn /\ ClaimsCounted =>
        \A c \in Coins : ~raced[c] => claims[c] <= NumberAvailable[c]
  BY DEF NeverOverdrawn, ClaimsCounted
<1> QED
  BY <1>1, NeverOverdrawnHolds, ClaimsCountedHolds, PTL

-----------------------------------------------------------------------------
(* One step of one worker, seen from the pool. *)
PoolStep == (\E c \in Coins : raced'[c]) \/ Pool!Next \/ UNCHANGED <<Pool!vars>>

(* Every step is a step of the pool, invisible to it, or an overlap.       *)
LEMMA PoolStepHolds == TypeOK /\ CountInv /\ [Next]_vars => PoolStep
<1> SUFFICES ASSUME TypeOK, CountInv, [Next]_vars
             PROVE  PoolStep
  OBVIOUS
<1> DEFINE outcome == [w \in Workers |-> OutcomeOf(w)]
<1> USE DEF TypeOK
<1>1. ASSUME number_claimed' = number_claimed,
             \A w \in Workers : OutcomeOf(w)' = OutcomeOf(w)
      PROVE  PoolStep
  BY <1>1 DEF PoolStep, Pool!vars
<1>2. CASE UNCHANGED vars
  BY <1>2, <1>1 DEF vars, OutcomeOf
<1>3. ASSUME NEW w \in Workers, Call(w)
      PROVE  PoolStep
  BY <1>3, <1>1 DEF Call, OutcomeOf
<1>4. ASSUME NEW w \in Workers, Find(w)
      PROVE  PoolStep
  BY <1>4, <1>1 DEF Find, OutcomeOf
<1>5. ASSUME NEW w \in Workers, FindNothing(w)
      PROVE  PoolStep
  <2>1. outcome[w] = Asking /\ outcome' = [outcome EXCEPT ![w] = Refused]
    BY <1>5 DEF FindNothing, OutcomeOf
  <2>2. \A c \in Coins : number_claimed[c] >= NumberAvailable[c]
    BY <1>5, NumberAvailableType DEF FindNothing, Available
  <2>3. Pool!Refuse(w)
    BY <1>5, <2>1, <2>2 DEF Pool!Refuse, FindNothing
  <2> QED
    BY <2>3 DEF PoolStep, Pool!Next
<1>6. ASSUME NEW w \in Workers, ClaimOptimistic(w)
      PROVE  PoolStep
  <2>1. outcome[w] = Asking /\ outcome' = [outcome EXCEPT ![w] = coin[w]]
    BY <1>6 DEF ClaimOptimistic, OutcomeOf
  <2>2. Pool!Take(w, coin[w])
    BY <1>6, <2>1 DEF Pool!Take, ClaimOptimistic, Unchanged, Available
  <2>3. coin[w] \in Coins
    BY <1>6 DEF ClaimOptimistic
  <2> QED
    BY <2>2, <2>3 DEF PoolStep, Pool!Next
<1>7. ASSUME NEW w \in Workers, RetryClaim(w)
      PROVE  PoolStep
  BY <1>7, <1>1 DEF RetryClaim, OutcomeOf
<1>8. ASSUME NEW w \in Workers, RefreshFromDb(w)
      PROVE  PoolStep
  BY <1>8, <1>1 DEF RefreshFromDb, OutcomeOf
<1>9. ASSUME NEW w \in Workers, SaveCoin(w)
      PROVE  PoolStep
  <2>1. CASE raced[coin[w]]
    BY <1>9, <2>1 DEF SaveCoin, PoolStep
  <2>2. CASE ~raced[coin[w]]
    <3>1. seen[w] = number_claimed[coin[w]]
      BY <1>9, <2>2 DEF SaveCoin, CountInv
    <3> QED
      BY <1>9, <3>1, <1>1 DEF SaveCoin, OutcomeOf
  <2> QED
    BY <2>1, <2>2
<1>10. ASSUME NEW w \in Workers, Return(w)
       PROVE  PoolStep
  <2>1. outcome' = [outcome EXCEPT ![w] = Asking]
    BY <1>10 DEF Return, OutcomeOf
  <2>2. CASE outcome[w] = Asking
    BY <1>10, <2>1, <2>2, <1>1 DEF Return
  <2>3. CASE outcome[w] # Asking
    <3>1. Pool!Forget(w)
      BY <1>10, <2>1, <2>3 DEF Pool!Forget, Return
    <3> QED
      BY <3>1 DEF PoolStep, Pool!Next
  <2> QED
    BY <2>2, <2>3
<1> QED
  BY <1>2, <1>3, <1>4, <1>5, <1>6, <1>7, <1>8, <1>9, <1>10 DEF Next, ClaimStep

(* Up to the first overlap of two claims, the four database accesses of a  *)
(* claim are one atomic step of CoinPool, which happens at the UPDATE.     *)
THEOREM PoolUntilRaceHolds == Spec => PoolUntilRace
<1>1. Init => Pool!Init
  BY DEF Init, Pool!Init, OutcomeOf
<1>2. Init => CountInv
  BY DEF Init, CountInv, Holds
<1>3. TypeOK /\ CountInv /\ [Next]_vars
        => [(\E c \in Coins : raced'[c]) \/ Pool!Next]_<<Pool!vars>>
  BY PoolStepHolds DEF PoolStep
<1> QED
  BY <1>1, <1>2, <1>3, CountStep, TypeCorrect, PTL DEF Spec, PoolUntilRace
=============================================================================
