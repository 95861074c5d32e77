------------------------- MODULE AirDropMoneyProofs -------------------------
(***************************************************************************)
(* Proofs about the coins an air drop claims and the payments it makes:    *)
(* every bonus has a claim of its own; and, while customers wait for the   *)
(* answer to each message and nothing breaks, one airdrop goes to each     *)
(* customer, no session goes back, the question for contact is settled and *)
(* the quota is overshot by no more than the threads to spare.             *)
(***************************************************************************)
EXTENDS AirDropProofs

-----------------------------------------------------------------------------
(* Every coin on a row, and every bonus paid but those that a retry made   *)
(* again, has a claim of its own.                                          *)

(* A handler whose UPDATE succeeded has a coin until the call returns it.  *)
Taken == {"refresh", "save", "claimed"}

Claimers(c) == {h \in Workers : pc[h] \in Taken /\ coin[h] = c}

(* The rows with a coin, in the database or in a handler's copy of them.   *)
HasCoin(c) ==
  {i \in Rows :
     \/ session[i].coin = c
     \/ \E h \in Workers :
          job[h].step \in RowSteps /\ job[h].row = i /\ job[h].coin = c}

(* The handlers that have claimed a coin and not paid the bonus yet.       *)
Pending == {h \in Workers : job[h].step \in PendingSteps \/ pc[h] \in Taken}

ClaimInv ==
  /\ \A c \in Coins :
       Cardinality(HasCoin(c)) + Cardinality(Claimers(c)) <= claims[c]
  /\ IsFiniteSet(Units(bonus))
  /\ Total(bonus) + Cardinality(Pending) <= Total(claims) + repeated

LEMMA Finite ==
  ASSUME RowsTyped
  PROVE  /\ \A c : IsFiniteSet(HasCoin(c)) /\ IsFiniteSet(Claimers(c))
         /\ IsFiniteSet(Pending)
<1>1. IsFiniteSet(Rows)
  <2>1. Rows = 1 .. Len(session) /\ Len(session) \in Nat
    BY DEF RowsTyped, Rows
  <2> QED
    BY <2>1, FS_Interval
<1>2. IsFiniteSet(Workers)
  BY PoolFinite
<1>3. \A c : HasCoin(c) \subseteq Rows /\ Claimers(c) \subseteq Workers
  BY DEF HasCoin, Claimers
<1>4. Pending \subseteq Workers
  BY DEF Pending
<1> QED
  BY <1>1, <1>2, <1>3, <1>4, FS_Subset

(* The steps that change what is claimed. *)
LEMMA ClaimSteps ==
  ASSUME TypeOK, [AirNext]_airVars
  PROVE  \/ /\ claims' = claims
            /\ \A h \in Workers :
                 pc'[h] \in Taken => pc[h] \in Taken /\ coin'[h] = coin[h]
         \/ \E h \in Workers : Claim(h) /\ ClaimOptimistic(h)
<1> DEFINE Quiet ==
             /\ claims' = claims
             /\ \A h \in Workers :
                  pc'[h] \in Taken => pc[h] \in Taken /\ coin'[h] = coin[h]
<1>1. CASE Crash
  BY <1>1 DEF Crash, Taken
<1>2. CASE UNCHANGED vars
  BY <1>2 DEF vars
<1>3. ASSUME NEW h \in Workers, Claim(h)
      PROVE  Quiet \/ ClaimOptimistic(h)
  BY <1>3
  DEF Claim, ClaimStep, Find, FindNothing, RetryClaim, RefreshFromDb, SaveCoin,
      TypeOK, Taken
<1>4. ASSUME NEW h \in Workers, Call(h) \/ Return(h)
      PROVE  Quiet
  BY <1>4 DEF Call, Return, TypeOK, Taken
<1>5. \/ UNCHANGED vars \/ Crash
      \/ \E h \in Workers : Claim(h) \/ Call(h) \/ Return(h)
  BY CoinMoves
<1> QED
  BY <1>1, <1>2, <1>3, <1>4, <1>5

LEMMA HasCoinMember ==
  ASSUME NEW c, NEW i \in Rows,
         \/ session[i].coin = c
         \/ \E h \in Workers :
              job[h].step \in RowSteps /\ job[h].row = i /\ job[h].coin = c
  PROVE  i \in HasCoin(c)
BY DEF HasCoin

(* A row has a coin in the next state only if it had it, or takes it now.  *)
LEMMA HasCoinStep ==
  ASSUME BaseInv, [AirNext]_airVars, NEW c \in Coins, NEW i \in HasCoin(c)'
  PROVE  \/ i \in HasCoin(c)
         \/ \E h \in Workers : TakeCoin(h) /\ i = job[h].row /\ c = coin[h]
<1>0. TypeOK /\ RowsTyped /\ JobInv /\ RowInv
  BY DEF BaseInv
<1>1. CASE session'[i].coin = c
  <2>1. i \in Rows'
    BY DEF HasCoin
  <2>2. CASE UNCHANGED rowVars
    BY <2>1, <2>2, <1>1, HasCoinMember DEF rowVars, Rows
  <2>3. ASSUME NEW h \in Workers, CreateSession(h)
        PROVE  i \in HasCoin(c)
    <3>1. job[h].customer \in Customers /\ JobsTyped
      BY <2>3, <1>0, CustomerKnown DEF CreateSession, At, JobInv
    <3>2. /\ Rows' = Rows \cup {Len(session) + 1}
          /\ session'[Len(session) + 1] =
               [customer |-> job[h].customer, state |-> READY, coin |-> NoCoin]
          /\ \A k \in Rows : session'[k] = session[k]
      BY <3>1, <2>3, <1>0, CreateSessionDoes
    <3>3. i \in Rows /\ session[i].coin = c
      BY <3>2, <2>1, <1>1, NoCoinFresh
    <3> QED
      BY <3>3, HasCoinMember
  <2>4. ASSUME NEW h \in Workers, Saves(h)
        PROVE  i \in HasCoin(c)
    <3>1. job[h].row \in Rows /\ RowSaved(h)
      BY <2>4, <1>0, SavesDoes
    <3>2. job[h].step \in RowSteps
      BY <2>4 DEF Saves, Save, SaveClaim, At, RowSteps, SellSteps
    <3> QED
      BY <3>1, <3>2, <2>1, <1>1, HasCoinMember DEF RowSaved
  <2> QED
    BY <2>2, <2>3, <2>4, RowsSteps
<1>2. ASSUME NEW h \in Workers,
             job'[h].step \in RowSteps, job'[h].row = i, job'[h].coin = c
      PROVE  i \in HasCoin(c) \/ (TakeCoin(h) /\ i = job[h].row /\ c = coin[h])
  <2>1. CopyFrom(h)
    BY <1>0, CopyStep
  <2>2. CASE job[h].step \in RowSteps /\ job'[h].row = job[h].row
             /\ job'[h].coin = job[h].coin
    <3>1. job[h].row = i /\ job[h].coin = c /\ i \in Rows
      BY <2>2, <1>0, <1>2, RowKnown
    <3> QED
      BY <3>1, <2>2, HasCoinMember
  <2>3. CASE TakeCoin(h)
    <3>1. job'[h].coin = coin[h] /\ job'[h].row = job[h].row
      BY <2>3, <1>0, TakeCoinDoes DEF JobInv, Becomes
    <3> QED
      BY <3>1, <2>3, <1>2
  <2>4. CASE job'[h].row \in Rows /\ job'[h].coin = session[job'[h].row].coin
    <3>1. i \in Rows /\ session[i].coin = c
      BY <2>4, <1>2
    <3> QED
      BY <3>1, HasCoinMember
  <2> QED
    BY <2>1, <2>2, <2>3, <2>4, <1>2 DEF CopyFrom
<1>3. \/ session'[i].coin = c
      \/ \E h \in Workers :
           job'[h].step \in RowSteps /\ job'[h].row = i /\ job'[h].coin = c
  BY DEF HasCoin
<1> QED
  BY <1>1, <1>2, <1>3

(* Only the payment of a bonus changes what was paid. *)
LEMMA BonusSteps ==
  ASSUME [AirNext]_airVars
  PROVE  \/ bonus' = bonus /\ repeated' = repeated
         \/ \E h \in Workers : SendBonus(h)
<1>1. ASSUME NEW h \in Workers, NEW c \in Customers,
             ReceiveChat(h, c) \/ ReceivePayment(h, c)
      PROVE  bonus' = bonus /\ repeated' = repeated
  BY <1>1 DEF ReceiveChat, ReceivePayment, Receive, history
<1>2. ASSUME NEW h \in Workers, Chat(h)
      PROVE  bonus' = bonus /\ repeated' = repeated
  BY <1>2
  DEF Chat, Route, Decline, Welcome, RejectOverQuota, CheckQuota, GetSession,
      CreateSession, HandleOverQuota, AnswerReady, Offer, SendInitial,
      ExplainPayment, AnswerContact, HelpContact, Save, OnlyJob, history
<1>3. ASSUME NEW h \in Workers, Payment(h)
      PROVE  (bonus' = bonus /\ repeated' = repeated) \/ SendBonus(h)
  BY <1>3
  DEF Payment, IgnoreFailed, FindUnsolicited, FindWaiting, RefundUnsolicited,
      KeepSmall, Claim, TakeCoin, TakeNothing, SaveClaim, CheckFunds,
      RefundFunds, RefundSoldOut, LeaveExcept, CheckPreferences, End, Refund,
      OnlyJob, history
<1>4. ASSUME NEW h \in Workers, HandlerFails(h)
      PROVE  bonus' = bonus /\ repeated' = repeated
  BY <1>4 DEF HandlerFails, history
<1>5. CASE Crash \/ EndDrop
  BY <1>5 DEF Crash, EndDrop, history
<1>6. CASE UNCHANGED airVars
  BY <1>6 DEF airVars, history
<1> QED
  BY <1>1, <1>2, <1>3, <1>4, <1>5, <1>6 DEF AirNext

(* Each coin: its rows and the calls that hold it are no more than its     *)
(* claims.                                                                 *)
LEMMA CoinClaimStep ==
  ASSUME BaseInv, ClaimInv, [AirNext]_airVars, NEW c \in Coins
  PROVE  Cardinality(HasCoin(c)') + Cardinality(Claimers(c)') <= claims'[c]
<1> DEFINE R == HasCoin(c)
           C == Claimers(c)
<1>0. TypeOK /\ RowsTyped /\ JobInv /\ RowInv
  BY DEF BaseInv
<1>1. IsFiniteSet(R) /\ IsFiniteSet(C)
  BY <1>0, Finite
<1>2. Cardinality(R) + Cardinality(C) <= claims[c] /\ claims[c] \in Nat
  BY <1>0 DEF ClaimInv, TypeOK
<1>3. Cardinality(R) \in Nat /\ Cardinality(C) \in Nat
  BY <1>1, FS_CardinalityType
<1>4. ASSUME NEW h \in Workers, Claim(h), ClaimOptimistic(h)
      PROVE  Cardinality(R') + Cardinality(C') <= claims'[c]
  <2>1. /\ pc[h] = "update" /\ pc' = [pc EXCEPT ![h] = "refresh"] /\ coin' = coin
        /\ claims' = [claims EXCEPT ![coin[h]] = @ + 1]
        /\ coin[h] \in Coins /\ job' = job
    BY <1>4, <1>0 DEF ClaimOptimistic, TypeOK, Claim
  <2>2. R' \in SUBSET R
    <3>1. \A g \in Workers : ~TakeCoin(g)
      <4> SUFFICES ASSUME NEW g \in Workers, TakeCoin(g)
                   PROVE  FALSE
        OBVIOUS
      <4>1. At(g, "claim") /\ job'[g].step = "save_coin"
        BY <1>0, TakeCoinDoes DEF JobInv, Becomes
      <4> QED
        BY <4>1, <2>1 DEF At
    <3> QED
      BY <3>1, HasCoinStep
  <2>3. Cardinality(R') \in Nat /\ Cardinality(R') <= Cardinality(R)
    BY <2>2, <1>1, NoMore
  <2>4. ASSUME NEW g \in C'
        PROVE  g \in C \/ (g = h /\ coin[h] = c)
    <3>1. g \in Workers /\ pc'[g] \in Taken /\ coin[g] = c
      BY <2>1 DEF Claimers
    <3>2. CASE g = h
      BY <3>1, <3>2
    <3>3. CASE g # h
      <4>1. pc'[g] = pc[g]
        BY <2>1, <3>1, <3>3, <1>0 DEF TypeOK
      <4> QED
        BY <3>1, <4>1 DEF Claimers
    <3> QED
      BY <3>2, <3>3
  <2>5. CASE coin[h] = c
    <3>1. C' \in SUBSET (C \cup {h})
      BY <2>4
    <3>2. Cardinality(C') \in Nat /\ Cardinality(C') <= Cardinality(C) + 1
      BY <3>1, <1>1, OneMore
    <3>3. claims'[c] = claims[c] + 1
      BY <2>1, <2>5, <1>0 DEF TypeOK
    <3> QED
      BY <3>2, <3>3, <2>3, <1>2, <1>3
  <2>6. CASE coin[h] # c
    <3>1. C' \in SUBSET C
      BY <2>4, <2>6
    <3>2. Cardinality(C') \in Nat /\ Cardinality(C') <= Cardinality(C)
      BY <3>1, <1>1, NoMore
    <3>3. claims'[c] = claims[c]
      BY <2>1, <2>6, <1>0 DEF TypeOK
    <3> QED
      BY <3>2, <3>3, <2>3, <1>2, <1>3
  <2> QED
    BY <2>5, <2>6
<1>5. CASE /\ claims' = claims
           /\ \A h \in Workers :
                pc'[h] \in Taken => pc[h] \in Taken /\ coin'[h] = coin[h]
  <2>1. C' \in SUBSET C
    BY <1>5 DEF Claimers
  <2>2. Cardinality(C') \in Nat /\ Cardinality(C') <= Cardinality(C)
    BY <2>1, <1>1, NoMore
  <2>3. ASSUME NEW h \in Workers, TakeCoin(h), coin[h] = c
        PROVE  Cardinality(R') + Cardinality(C') <= claims'[c]
    <3>1. /\ pc[h] = "claimed" /\ pc' = [pc EXCEPT ![h] = "idle"]
      BY <2>3 DEF TakeCoin, Return
    <3>2. h \in C
      BY <3>1, <2>3 DEF Claimers, Taken
    <3>3. pc'[h] = "idle"
      BY <3>1, <1>0 DEF TypeOK
    <3>4. h \notin C'
      BY <3>3 DEF Claimers, Taken
    <3>5. C' \in SUBSET (C \ {h})
      BY <2>1, <3>4
    <3>6. Cardinality(C') \in Nat /\ Cardinality(C') + 1 <= Cardinality(C)
      BY <3>2, <3>5, <1>1, OneLess
    <3>7. \A g \in Workers : TakeCoin(g) => g = h
      <4> SUFFICES ASSUME NEW g \in Workers, TakeCoin(g), g # h
                   PROVE  FALSE
        OBVIOUS
      <4>1. At(g, "claim") /\ job'[g].step = "save_coin"
        BY <1>0, TakeCoinDoes DEF JobInv, Becomes
      <4>2. job'[g] = job[g]
        BY <1>0, <2>3, TakeCoinDoes DEF JobInv, Becomes
      <4> QED
        BY <4>1, <4>2 DEF At
    <3>8. R' \in SUBSET (R \cup {job[h].row})
      BY <3>7, HasCoinStep
    <3>9. Cardinality(R') \in Nat /\ Cardinality(R') <= Cardinality(R) + 1
      BY <3>8, <1>1, OneMore
    <3> QED
      BY <3>6, <3>9, <1>2, <1>3, <1>5
  <2>4. CASE \A h \in Workers : ~(TakeCoin(h) /\ coin[h] = c)
    <3>1. R' \in SUBSET R
      BY <2>4, HasCoinStep
    <3>2. Cardinality(R') \in Nat /\ Cardinality(R') <= Cardinality(R)
      BY <3>1, <1>1, NoMore
    <3> QED
      BY <3>2, <2>2, <1>2, <1>3, <1>5
  <2> QED
    BY <2>3, <2>4
<1> QED
  BY <1>0, <1>4, <1>5, ClaimSteps

(* All coins: the bonuses paid and those still to be paid are no more than *)
(* the claims and what retries paid again.                                 *)
LEMMA BonusClaimStep ==
  ASSUME BaseInv, ClaimInv, [AirNext]_airVars
  PROVE  /\ IsFiniteSet(Units(bonus'))
         /\ Total(bonus') + Cardinality(Pending') <= Total(claims') + repeated'
<1>0. /\ TypeOK /\ RowsTyped /\ JobInv /\ RowInv
      /\ claims \in [Coins -> Nat] /\ bonus \in [Customers -> Nat]
      /\ repeated \in Nat
  BY DEF BaseInv, Counts, TypeOK
<1>1. IsFiniteSet(Pending) /\ IsFiniteSet(Units(bonus)) /\ IsFiniteSet(Units(claims))
  BY <1>0, Finite, TotalFinite, PoolFinite DEF ClaimInv
<1>2. Total(bonus) + Cardinality(Pending) <= Total(claims) + repeated
  BY DEF ClaimInv
<1>3. Total(bonus) \in Nat /\ Total(claims) \in Nat /\ Cardinality(Pending) \in Nat
  BY <1>1, TotalType, FS_CardinalityType
<1>4. ASSUME NEW h \in Workers, Claim(h), ClaimOptimistic(h)
      PROVE  /\ IsFiniteSet(Units(bonus'))
             /\ Total(bonus') + Cardinality(Pending') <= Total(claims') + repeated'
  <2>1. /\ pc[h] = "update" /\ job' = job
        /\ claims' = [claims EXCEPT ![coin[h]] = @ + 1]
        /\ coin[h] \in Coins /\ bonus' = bonus /\ repeated' = repeated
        /\ pc' = [pc EXCEPT ![h] = "refresh"]
    BY <1>4, <1>0 DEF ClaimOptimistic, TypeOK, Claim, history
  <2>2. Total(claims') = Total(claims) + 1
    <3> DEFINE k == 1
               c == coin[h]
    <3>1. /\ k \in Nat /\ c \in Coins
          /\ claims \in [Coins -> Nat] /\ claims' \in [Coins -> Nat]
          /\ claims'[c] = claims[c] + k
          /\ \A d \in Coins \ {c} : claims'[d] = claims[d]
      BY <2>1, <1>0
    <3> HIDE DEF k, c
    <3>2. IsFiniteSet(Units(claims')) /\ Total(claims') = Total(claims) + k
      BY <3>1, <1>1, TotalAdd
    <3> QED
      BY <3>2 DEF k
  <2>3. ASSUME NEW g \in Pending'
        PROVE  g \in Pending \cup {h}
    <3>1. g \in Workers /\ (job[g].step \in PendingSteps \/ pc'[g] \in Taken)
      BY <2>1 DEF Pending
    <3>2. CASE g = h
      BY <3>2
    <3>3. CASE g # h
      <4>1. pc'[g] = pc[g]
        BY <2>1, <3>1, <3>3, <1>0 DEF TypeOK
      <4> QED
        BY <3>1, <4>1 DEF Pending
    <3> QED
      BY <3>2, <3>3
  <2>4. Cardinality(Pending') \in Nat /\ Cardinality(Pending') <= Cardinality(Pending) + 1
    BY <2>3, <1>1, OneMore
  <2> QED
    BY <2>1, <2>2, <2>4, <1>0, <1>1, <1>2, <1>3
<1>5. CASE /\ claims' = claims
           /\ \A h \in Workers :
                pc'[h] \in Taken => pc[h] \in Taken /\ coin'[h] = coin[h]
  <2>1. ASSUME NEW g \in Pending'
        PROVE  g \in Pending
    <3>1. g \in Workers /\ (job'[g].step \in PendingSteps \/ pc'[g] \in Taken)
      BY DEF Pending
    <3>2. job'[g].step \in PendingSteps => job[g].step \in PendingSteps \/ pc[g] \in Taken
      BY <1>0, <3>1, CopyStep DEF CopyFrom, TakeCoin, Taken
    <3> QED
      BY <3>1, <3>2, <1>5 DEF Pending
  <2>2. CASE bonus' = bonus /\ repeated' = repeated
    <3>1. Cardinality(Pending') \in Nat /\ Cardinality(Pending') <= Cardinality(Pending)
      BY <2>1, <1>1, NoMore
    <3> QED
      BY <3>1, <2>2, <1>0, <1>1, <1>2, <1>3, <1>5
  <2>3. ASSUME NEW h \in Workers, SendBonus(h)
        PROVE  /\ IsFiniteSet(Units(bonus'))
               /\ Total(bonus') + Cardinality(Pending') <= Total(claims') + repeated'
    <3>1. /\ At(h, "bonus") /\ job'[h].step \in {"preferences", "idle"} /\ pc' = pc
      BY <2>3, <1>0, SendBonusDoes DEF JobInv, Sends, Finishes, Becomes, coinVars
    <3>2. PICK n \in Nat :
            /\ bonus' \in {bonus, [bonus EXCEPT ![job[h].customer] = @ + 1 + n]}
            /\ repeated' = repeated + n
      BY <2>3, <1>0, SendBonusDoes DEF JobInv
    <3>3. job[h].customer \in Customers
      BY <3>1, <1>0, CustomerKnown DEF At
    <3>4. h \in Pending /\ h \notin Pending'
      <4>1. pc[h] = "idle"
        BY <3>1, <1>0 DEF RowInv, RowOK, At
      <4> QED
        BY <3>1, <4>1 DEF Pending, PendingSteps, Taken, At
    <3>5. Cardinality(Pending') \in Nat /\ Cardinality(Pending') + 1 <= Cardinality(Pending)
      BY <2>1, <3>4, <1>1, OneLess
    <3>6. /\ IsFiniteSet(Units(bonus')) /\ Total(bonus') \in Nat
          /\ Total(bonus') <= Total(bonus) + 1 + n
      <4>1. CASE bonus' = bonus
        BY <4>1, <1>1, <1>3
      <4>2. CASE bonus' = [bonus EXCEPT ![job[h].customer] = @ + 1 + n]
        <5> DEFINE k == 1 + n
        <5>1. /\ k \in Nat /\ bonus' \in [Customers -> Nat]
              /\ bonus'[job[h].customer] = bonus[job[h].customer] + k
              /\ \A c \in Customers \ {job[h].customer} : bonus'[c] = bonus[c]
          BY <4>2, <1>0, <3>3
        <5> HIDE DEF k
        <5>3. IsFiniteSet(Units(bonus')) /\ Total(bonus') = Total(bonus) + k
          BY <5>1, <3>3, <1>0, <1>1, TotalAdd
        <5>4. k = 1 + n /\ Total(bonus) \in Nat /\ n \in Nat
          BY <1>3 DEF k
        <5>5. Total(bonus') \in Nat /\ Total(bonus') <= Total(bonus) + 1 + n
          BY <5>3, <5>4
        <5> QED
          BY <5>3, <5>5
      <4> QED
        BY <4>1, <4>2, <3>2
    <3> QED
      BY <3>2, <3>5, <3>6, <1>0, <1>2, <1>3, <1>5
  <2> QED
    BY <2>2, <2>3, BonusSteps
<1> QED
  BY <1>0, <1>4, <1>5, ClaimSteps

LEMMA ClaimInit == AirInit => ClaimInv
<1> SUFFICES ASSUME AirInit
             PROVE  ClaimInv
  OBVIOUS
<1>1. /\ Rows = {}
      /\ pc = [h \in Workers |-> "idle"]
      /\ job = [h \in Workers |-> NoJob]
      /\ bonus = [c \in Customers |-> 0]
      /\ claims = [c \in Coins |-> 0]
      /\ repeated = 0
  BY DEF AirInit, Init, Rows
<1>2. \A c : HasCoin(c) = {} /\ Claimers(c) = {}
  BY <1>1 DEF HasCoin, Claimers, Taken
<1>3. Pending = {}
  BY <1>1 DEF Pending, Taken, PendingSteps, NoJob
<1>4. /\ IsFiniteSet(Units(bonus)) /\ Total(bonus) = 0
      /\ Total(claims) = 0
  BY <1>1, TotalZero
<1>5. Cardinality({}) = 0
  BY FS_EmptySet
<1> QED
  BY <1>1, <1>2, <1>3, <1>4, <1>5 DEF ClaimInv

(* Rows, calls and bonuses never outnumber the claims they come from.      *)
THEOREM ClaimInvariant == AirSpec => []ClaimInv
<1>1. BaseInv /\ ClaimInv /\ [AirNext]_airVars => ClaimInv'
  BY CoinClaimStep, BonusClaimStep DEF ClaimInv
<1> QED
  BY ClaimInit, <1>1, BaseInvariant, PTL DEF AirSpec

(* Every coin on a session's row comes from a claim of its own, and so     *)
(* does every bonus that no retry of its payment made again, however stale *)
(* copies of the row are saved over each other and wherever the process    *)
(* dies; and each bonus made again had a fault of its own.                 *)
THEOREM EveryBonusClaimedHolds == AirSpec => []EveryBonusClaimed
<1>1. BaseInv /\ ClaimInv => EveryBonusClaimed
  <2> SUFFICES ASSUME BaseInv, ClaimInv
               PROVE  EveryBonusClaimed
    OBVIOUS
  <2>0. RowsTyped /\ claims \in [Coins -> Nat] /\ bonus \in [Customers -> Nat]
    BY DEF BaseInv, Counts, TypeOK
  <2>1. ASSUME NEW c \in Coins
        PROVE  Cardinality({i \in Rows : session[i].coin = c}) <= claims[c]
    <3>1. IsFiniteSet(HasCoin(c)) /\ IsFiniteSet(Claimers(c))
      BY <2>0, Finite
    <3>2. {i \in Rows : session[i].coin = c} \in SUBSET HasCoin(c)
      BY DEF HasCoin
    <3>3. /\ Cardinality({i \in Rows : session[i].coin = c}) \in Nat
          /\ Cardinality({i \in Rows : session[i].coin = c}) <= Cardinality(HasCoin(c))
          /\ Cardinality(HasCoin(c)) \in Nat /\ Cardinality(Claimers(c)) \in Nat
      BY <3>1, <3>2, NoMore, FS_CardinalityType
    <3>4. Cardinality(HasCoin(c)) + Cardinality(Claimers(c)) <= claims[c]
      BY DEF ClaimInv
    <3> QED
      BY <3>3, <3>4, <2>0
  <2>2. Total(bonus) <= Total(claims) + repeated /\ repeated <= disturbances
    <3>1. IsFiniteSet(Pending) /\ IsFiniteSet(Units(bonus)) /\ IsFiniteSet(Units(claims))
      BY <2>0, Finite, TotalFinite, PoolFinite DEF ClaimInv
    <3>2. Total(bonus) \in Nat /\ Total(claims) \in Nat /\ Cardinality(Pending) \in Nat
      BY <3>1, TotalType, FS_CardinalityType
    <3>3. repeated \in Nat /\ repeated <= disturbances
      BY DEF BaseInv, Counts
    <3> QED
      BY <3>2, <3>3 DEF ClaimInv
  <2> QED
    BY <2>1, <2>2 DEF EveryBonusClaimed
<1> QED
  BY <1>1, BaseInvariant, ClaimInvariant, PTL

-----------------------------------------------------------------------------
(* What module BonusCoins says of a claim, of the claims of an air drop,   *)
(* where a crash may end a claim anywhere.                                 *)

(* Every step of an air drop is a step of the claims, invisible to them,   *)
(* or a crash, which only takes the coins out of the handlers' hands.      *)
THEOREM ClaimsAreBonusCoins == AirSpec => Init /\ [][Next \/ Crash]_vars
<1>1. [AirNext]_airVars => [Next \/ Crash]_vars
  BY CoinSteps
<1>2. AirInit => Init
  BY DEF AirInit
<1> QED
  BY <1>1, <1>2, PTL DEF AirSpec

LEMMA AirStockStep ==
  ASSUME TypeOK, StockInv, [AirNext]_airVars
  PROVE  StockInv'
<1>1. CASE [Next]_vars
  BY <1>1, StockStep
<1>2. CASE Crash
  BY <1>2 DEF Crash, StockInv, NeverOverdrawn
<1> QED
  BY <1>1, <1>2, CoinSteps

LEMMA AirCountStep ==
  ASSUME TypeOK, CountInv, [AirNext]_airVars
  PROVE  CountInv'
<1>1. CASE [Next]_vars
  BY <1>1, CountStep
<1>2. CASE Crash
  BY <1>2 DEF Crash, CountInv, Holds
<1> QED
  BY <1>1, <1>2, CoinSteps

(* The column keeps to the stock, and so does what a handler is about to   *)
(* save into it (find_and_claim_unclaimed_coin, base.py:275-290).           *)
THEOREM StockInvariant == AirSpec => []StockInv
<1>1. AirInit => StockInv
  BY NumberAvailableType DEF AirInit, Init, StockInv, NeverOverdrawn
<1>2. BaseInv => TypeOK
  BY DEF BaseInv
<1> QED
  BY <1>1, <1>2, AirStockStep, BaseInvariant, PTL DEF AirSpec

(* A crash between the UPDATE and save() loses no claim: the column counts *)
(* the claims of a coin on which no two of them overlapped.                *)
THEOREM CountInvariant == AirSpec => []CountInv
<1>1. AirInit => CountInv
  BY DEF AirInit, Init, CountInv, Holds
<1>2. BaseInv => TypeOK
  BY DEF BaseInv
<1> QED
  BY <1>1, <1>2, AirCountStep, BaseInvariant, PTL DEF AirSpec

(* Unless a save() overlapped another claim of its coin, an air drop pays  *)
(* no more bonuses than there are units and retries that paid one again: a *)
(* bonus that is no repeat has a claim of its own, the column counts the   *)
(* claims, and the column keeps to the stock.                              *)
THEOREM BonusesWithinStockHolds == AirSpec => []BonusesWithinStock
<1>1. BaseInv /\ EveryBonusClaimed /\ ClaimInv /\ StockInv /\ CountInv
        => BonusesWithinStock
  <2> SUFFICES ASSUME BaseInv, EveryBonusClaimed, ClaimInv, StockInv, CountInv,
                      \A c \in Coins : ~raced[c]
               PROVE  Total(bonus) <= Total(NumberAvailable) + repeated
    BY DEF BonusesWithinStock, InitialCoinLimit
  <2>1. claims \in [Coins -> Nat] /\ number_claimed \in [Coins -> Nat]
    BY DEF BaseInv, TypeOK
  <2>2. \A c \in Coins : claims[c] <= NumberAvailable[c]
    BY DEF StockInv, NeverOverdrawn, CountInv
  <2>3. /\ Total(NumberAvailable) \in Nat /\ Total(claims) \in Nat
        /\ Total(claims) <= Total(NumberAvailable)
    BY <2>1, <2>2, NumberAvailableType, PoolFinite, TotalLower
  <2>4. Total(bonus) \in Nat /\ Total(bonus) <= Total(claims) + repeated
    BY TotalType DEF ClaimInv, EveryBonusClaimed
  <2>5. repeated \in Nat
    BY DEF BaseInv, Counts
  <2> QED
    BY <2>3, <2>4, <2>5
<1> QED
  BY <1>1, BaseInvariant, EveryBonusClaimedHolds, ClaimInvariant, StockInvariant,
     CountInvariant, PTL

(* Until two claims of an air drop overlap on a coin between UPDATE and    *)
(* save(), each of its steps is a step of the atomic pool, invisible to    *)
(* it, or a crash, which leaves what the pool has given out as it is.      *)
THEOREM AirDropImplementsPool ==
  AirSpec =>
    /\ Pool!Init
    /\ [][\/ \E c \in Coins : raced'[c]
          \/ Pool!Next
          \/ Crash /\ UNCHANGED number_claimed]_<<Pool!vars>>
<1>1. AirInit => Pool!Init
  BY DEF AirInit, Init, Pool!Init, OutcomeOf
<1>2. BaseInv /\ CountInv /\ [AirNext]_airVars
        => [\/ \E c \in Coins : raced'[c]
            \/ Pool!Next
            \/ Crash /\ UNCHANGED number_claimed]_<<Pool!vars>>
  <2> SUFFICES ASSUME BaseInv, CountInv, [AirNext]_airVars
               PROVE  PoolStep \/ (Crash /\ UNCHANGED number_claimed)
    BY DEF PoolStep
  <2>1. TypeOK
    BY DEF BaseInv
  <2>2. CASE [Next]_vars
    BY <2>1, <2>2, PoolStepHolds
  <2>3. CASE Crash
    BY <2>3 DEF Crash
  <2> QED
    BY <2>2, <2>3, CoinSteps
<1> QED
  BY <1>1, <1>2, BaseInvariant, CountInvariant, PTL DEF AirSpec

-----------------------------------------------------------------------------
(* A session is completed only for a customer with preferences.            *)
PrefsInv ==
  /\ \A i \in Rows : session[i].state = COMPLETED => session[i].customer \in prefs
  /\ \A h \in Workers :
       job[h].step \in RowSteps /\ job[h].state = COMPLETED =>
         job[h].customer \in prefs

LEMMA PrefsSteps ==
  ASSUME [AirNext]_airVars
  PROVE  prefs' = prefs \/ \E h \in Workers : AnswerContact(h)
<1>1. ASSUME NEW h \in Workers, NEW c \in Customers,
             ReceiveChat(h, c) \/ ReceivePayment(h, c)
      PROVE  prefs' = prefs
  BY <1>1 DEF ReceiveChat, ReceivePayment, Receive
<1>2. ASSUME NEW h \in Workers, Chat(h)
      PROVE  prefs' = prefs \/ AnswerContact(h)
  BY <1>2
  DEF Chat, Route, Decline, Welcome, RejectOverQuota, CheckQuota, GetSession,
      CreateSession, HandleOverQuota, AnswerReady, Offer, SendInitial,
      ExplainPayment, HelpContact, Save, OnlyJob
<1>3. ASSUME NEW h \in Workers, Payment(h)
      PROVE  prefs' = prefs
  BY <1>3
  DEF Payment, IgnoreFailed, FindUnsolicited, FindWaiting, RefundUnsolicited,
      KeepSmall, Claim, TakeCoin, TakeNothing, SaveClaim, CheckFunds,
      RefundFunds, RefundSoldOut, LeaveExcept, SendBonus, CheckPreferences, End,
      Refund, OnlyJob
<1>4. ASSUME NEW h \in Workers, HandlerFails(h)
      PROVE  prefs' = prefs
  BY <1>4 DEF HandlerFails
<1>5. CASE Crash \/ EndDrop
  BY <1>5 DEF Crash, EndDrop
<1>6. CASE UNCHANGED airVars
  BY <1>6 DEF airVars
<1> QED
  BY <1>1, <1>2, <1>3, <1>4, <1>5, <1>6 DEF AirNext

LEMMA PrefsStep ==
  ASSUME BaseInv, PrefsInv, [AirNext]_airVars
  PROVE  PrefsInv'
<1>0. TypeOK /\ RowsTyped /\ JobInv /\ RowInv
  BY DEF BaseInv
<1>1. prefs \subseteq prefs'
  BY PrefsSteps DEF AnswerContact
<1>2. ASSUME NEW i \in Rows', session'[i].state = COMPLETED
      PROVE  session'[i].customer \in prefs'
  <2>1. CASE UNCHANGED rowVars
    BY <2>1, <1>1, <1>2 DEF rowVars, PrefsInv, Rows
  <2>2. ASSUME NEW h \in Workers, CreateSession(h)
        PROVE  session'[i].customer \in prefs'
    <3>1. job[h].customer \in Customers /\ JobsTyped
      BY <2>2, <1>0, CustomerKnown DEF CreateSession, At, JobInv
    <3>2. /\ Rows' = Rows \cup {Len(session) + 1}
          /\ session'[Len(session) + 1] =
               [customer |-> job[h].customer, state |-> READY, coin |-> NoCoin]
          /\ \A k \in Rows : session'[k] = session[k]
      BY <3>1, <2>2, <1>0, CreateSessionDoes
    <3>3. i \in Rows /\ session'[i] = session[i]
      BY <3>2, <1>2 DEF READY, COMPLETED
    <3> QED
      BY <3>3, <1>1, <1>2 DEF PrefsInv
  <2>3. ASSUME NEW h \in Workers, Saves(h)
        PROVE  session'[i].customer \in prefs'
    <3>1. job[h].row \in Rows /\ RowSaved(h)
      BY <2>3, <1>0, SavesDoes
    <3>2. job[h].step \in RowSteps
      BY <2>3 DEF Saves, Save, SaveClaim, At, RowSteps, SellSteps
    <3>3. session[job[h].row].customer = job[h].customer
      BY <3>2, <1>0, RowKnown
    <3>4. CASE i = job[h].row
      BY <3>1, <3>2, <3>3, <3>4, <1>1, <1>2 DEF RowSaved, PrefsInv
    <3>5. CASE i # job[h].row
      BY <3>1, <3>5, <1>1, <1>2 DEF RowSaved, PrefsInv
    <3> QED
      BY <3>4, <3>5
  <2> QED
    BY <2>1, <2>2, <2>3, RowsSteps
<1>3. ASSUME NEW h \in Workers, job'[h].step \in RowSteps, job'[h].state = COMPLETED
      PROVE  job'[h].customer \in prefs'
  <2>1. CopyFrom(h)
    BY <1>0, CopyStep
  <2> QED
    BY <2>1, <1>1, <1>3 DEF CopyFrom, PrefsInv
<1> QED
  BY <1>2, <1>3 DEF PrefsInv

(* Neither a row nor a handler's copy of it is COMPLETED for a customer    *)
(* whose answer is not recorded.                                           *)
THEOREM PrefsInvariant == AirSpec => []PrefsInv
<1>1. AirInit => PrefsInv
  BY DEF AirInit, PrefsInv, Rows, NoJob, RowSteps, SellSteps
<1>2. PrefsInv /\ UNCHANGED airVars => PrefsInv'
  BY DEF PrefsInv, airVars, rowVars, Rows
<1> QED
  BY <1>1, BaseInvariant, PrefsStep, PTL DEF AirSpec

-----------------------------------------------------------------------------
(* Whose step it is.                                                       *)

(* A step of handler h leaves the other handlers alone, and serves the     *)
(* customer it served.                                                     *)
Turn(h) ==
  /\ \A g \in Workers \ {h} : job'[g] = job[g]
  /\ job'[h].customer \in {job[h].customer, NoCustomer}

LEMMA GotoTurn ==
  ASSUME JobsTyped, NEW h \in Workers, NEW s, Goto(h, s)
  PROVE  Turn(h)
BY DEF JobsTyped, AnyJob, Goto, Turn

LEMMA SetStateTurn ==
  ASSUME JobsTyped, NEW h \in Workers, NEW state, NEW s, SetState(h, state, s)
  PROVE  Turn(h)
BY DEF JobsTyped, AnyJob, SetState, Turn

LEMMA DoneTurn ==
  ASSUME JobsTyped, NEW h \in Workers, Done(h)
  PROVE  Turn(h)
BY DEF JobsTyped, AnyJob, Done, Turn, NoJob

LEMMA SendTurn ==
  ASSUME JobsTyped, NEW h \in Workers, NEW o, NEW n, NEW state, NEW s,
         Send(h, o, n, state, s)
  PROVE  Turn(h)
<1>1. CASE Continues(o)
  BY <1>1 DEF JobsTyped, AnyJob, Send, Turn
<1>2. CASE ~Continues(o)
  BY <1>2, DoneTurn DEF Send
<1> QED
  BY <1>1, <1>2

LEMMA ChatTurn ==
  ASSUME JobsTyped, RowsTyped, NEW h \in Workers, Chat(h)
  PROVE  Turn(h)
<1>1. CASE Route(h)
  BY <1>1, RouteDoes DEF Becomes, Moves, Sets, Turn
<1> QED
  BY <1>1, GotoTurn, SetStateTurn, DoneTurn, SendTurn
  DEF Chat, Decline, Welcome, RejectOverQuota, CheckQuota, GetSession,
      CreateSession, HandleOverQuota, AnswerReady, Offer, SendInitial,
      ExplainPayment, AnswerContact, HelpContact, Save, Finish

LEMMA PaymentTurn ==
  ASSUME JobsTyped, RowsTyped, TypeOK, NEW h \in Workers, Payment(h)
  PROVE  Turn(h)
<1>1. CASE FindUnsolicited(h)
  BY <1>1, FindUnsolicitedDoes DEF Becomes, Turn
<1>2. CASE FindWaiting(h)
  BY <1>2, FindWaitingDoes DEF Becomes, Turn
<1>3. CASE TakeCoin(h)
  BY <1>3, TakeCoinDoes DEF Becomes, Turn
<1>4. CASE RefundFunds(h)
  BY <1>4, RefundFundsDoes DEF Becomes, Finishes, Turn
<1>5. CASE Claim(h)
  BY <1>5 DEF Claim, Turn
<1> QED
  BY <1>1, <1>2, <1>3, <1>4, <1>5, GotoTurn, SetStateTurn, DoneTurn, SendTurn
  DEF Payment, IgnoreFailed, RefundUnsolicited, KeepSmall, TakeNothing, SaveClaim,
      CheckFunds, RefundSoldOut, LeaveExcept, SendBonus, CheckPreferences, End,
      Refund, Finish

LEMMA TurnSteps ==
  ASSUME TypeOK, RowsTyped, JobInv, [AirNext]_airVars
  PROVE  \/ job' = job
         \/ Crash
         \/ \E h \in Workers, c \in Customers : ReceiveChat(h, c) \/ ReceivePayment(h, c)
         \/ \E h \in Workers :
              /\ Turn(h)
              /\ Chat(h) \/ Payment(h) \/ HandlerFails(h)
<1>0. JobsTyped
  BY DEF JobInv
<1>1. ASSUME NEW h \in Workers, HandlerFails(h)
      PROVE  Turn(h)
  BY <1>0, <1>1, DoneTurn DEF HandlerFails
<1>2. CASE EndDrop \/ UNCHANGED airVars
  BY <1>2 DEF EndDrop, airVars
<1> QED
  BY <1>0, <1>1, <1>2, ChatTurn, PaymentTurn DEF AirNext

(* A step that is no disturbance. *)
Calm == Undisturbed /\ Undisturbed'

LEMMA AttemptMore ==
  ASSUME Counts
  PROVE  \A o \in Outcomes, n \in Repeats :
           Attempt(o, n) => disturbances <= disturbances'
BY AirDropBounds DEF Counts, Repeats, Attempt

LEMMA DisturbSteps ==
  ASSUME Counts, [AirNext]_airVars
  PROVE  disturbances <= disturbances'
<1>0. disturbances \in Nat
  BY DEF Counts
<1>1. ASSUME NEW h \in Workers, NEW c \in Customers,
             ReceiveChat(h, c) \/ ReceivePayment(h, c)
      PROVE  disturbances <= disturbances'
  BY <1>0, <1>1 DEF ReceiveChat, ReceivePayment, Receive, Disturb
<1>2. ASSUME NEW h \in Workers, Chat(h)
      PROVE  disturbances <= disturbances'
  BY <1>0, <1>2, AttemptMore
  DEF Chat, Route, Decline, Welcome, RejectOverQuota, CheckQuota, GetSession,
      CreateSession, HandleOverQuota, AnswerReady, Offer, SendInitial,
      ExplainPayment, AnswerContact, HelpContact, Save, OnlyJob, boundVars,
      Send
<1>3. ASSUME NEW h \in Workers, Payment(h)
      PROVE  disturbances <= disturbances'
  BY <1>0, <1>3, AttemptMore
  DEF Payment, IgnoreFailed, FindUnsolicited, FindWaiting, RefundUnsolicited,
      KeepSmall, Claim, TakeCoin, TakeNothing, SaveClaim, CheckFunds,
      RefundFunds, RefundSoldOut, LeaveExcept, SendBonus, CheckPreferences, End,
      Refund, OnlyJob, boundVars, Send
<1>4. ASSUME NEW h \in Workers, HandlerFails(h)
      PROVE  disturbances <= disturbances'
  BY <1>0, <1>4 DEF HandlerFails, Disturb
<1>5. CASE Crash \/ EndDrop
  BY <1>0, <1>5 DEF Crash, EndDrop, boundVars, Disturb
<1>6. CASE UNCHANGED airVars
  BY <1>0, <1>6 DEF airVars, boundVars
<1> QED
  BY <1>1, <1>2, <1>3, <1>4, <1>5, <1>6 DEF AirNext

LEMMA CalmStep ==
  ASSUME Counts, [AirNext]_airVars, Undisturbed'
  PROVE  Calm /\ ~Disturbs
<1>1. disturbances \in Nat /\ disturbances <= disturbances' /\ disturbances' = 0
  BY DisturbSteps DEF Counts, Undisturbed
<1> QED
  BY <1>1 DEF Undisturbed, Calm, Disturbs

(* Undisturbed, a payment is made once. *)
LEMMA InitialPaidOnce ==
  ASSUME Counts, JobInv, ~Disturbs, NEW h \in Workers, SendInitial(h)
  PROVE  /\ At(h, "initial") /\ rowVars' = rowVars
         /\ Sends(h, WAITING_FOR_PAYMENT, "save")
         /\ job[h].customer \in Customers
         /\ initial' = [initial EXCEPT ![job[h].customer] = @ + 1]
<1>1. JobsTyped
  BY DEF JobInv
<1>2. At(h, "initial") /\ rowVars' = rowVars /\ Sends(h, WAITING_FOR_PAYMENT, "save")
  BY <1>1, SendInitialDoes
<1>3. initial' = [initial EXCEPT ![job[h].customer] = @ + 1 + 0]
  BY <1>1, SendInitialDoes
<1>4. job[h].customer \in Customers
  BY <1>2, CustomerKnown DEF At
<1>5. initial[job[h].customer] + 1 + 0 = initial[job[h].customer] + 1
  BY <1>4 DEF Counts
<1>6. initial' = [initial EXCEPT ![job[h].customer] = @ + 1]
  BY <1>3, <1>5
<1> QED
  BY <1>2, <1>4, <1>6

LEMMA BonusPaidOnce ==
  ASSUME Counts, JobInv, ~Disturbs, NEW h \in Workers, SendBonus(h)
  PROVE  /\ At(h, "bonus") /\ rowVars' = rowVars /\ prefs' = prefs
         /\ Sends(h, job[h].state, "preferences")
         /\ job[h].customer \in Customers
         /\ bonus' = [bonus EXCEPT ![job[h].customer] = @ + 1]
<1>1. JobsTyped
  BY DEF JobInv
<1>2. /\ At(h, "bonus") /\ rowVars' = rowVars /\ prefs' = prefs
      /\ Sends(h, job[h].state, "preferences")
  BY <1>1, SendBonusDoes
<1>3. bonus' = [bonus EXCEPT ![job[h].customer] = @ + 1 + 0]
  BY <1>1, SendBonusDoes
<1>4. job[h].customer \in Customers
  BY <1>2, CustomerKnown DEF At
<1>5. bonus[job[h].customer] + 1 + 0 = bonus[job[h].customer] + 1
  BY <1>4 DEF Counts
<1>6. bonus' = [bonus EXCEPT ![job[h].customer] = @ + 1]
  BY <1>3, <1>5
<1> QED
  BY <1>2, <1>4, <1>6

(* The steps of a handler while nothing is disturbed. *)
LEMMA CalmTurn ==
  ASSUME TypeOK, RowsTyped, JobInv, Calm, ~Disturbs, [AirNext]_airVars,
         NEW h \in Workers, job'[h] # job[h]
  PROVE  \/ \E c \in Customers :
              /\ ReceiveChat(h, c) \/ ReceivePayment(h, c)
              /\ \A g \in Workers : job[g].customer # c
         \/ Turn(h) /\ (Chat(h) \/ Payment(h))
<1>0. JobsTyped /\ "route" \in JobSteps /\ "payment" \in JobSteps
  BY DEF JobInv, JobSteps
<1>1. ~Crash /\ \A g \in Workers : ~HandlerFails(g)
  BY DisturbDoes DEF Crash, HandlerFails
<1>2. ASSUME NEW g \in Workers, NEW c \in Customers,
             ReceiveChat(g, c) \/ ReceivePayment(g, c)
      PROVE  /\ g = h
             /\ \A f \in Workers : job[f].customer # c
  BY <1>0, <1>2, ReceiveDoes DEF ReceiveChat, ReceivePayment, Becomes
<1>3. ASSUME NEW g \in Workers, Turn(g)
      PROVE  g = h
  BY <1>3 DEF Turn
<1> QED
  BY <1>1, <1>2, <1>3, TurnSteps

(* Only an initial payment changes what was paid initially. *)
LEMMA InitialSteps ==
  ASSUME [AirNext]_airVars
  PROVE  initial' = initial \/ \E h \in Workers : SendInitial(h)
<1>1. ASSUME NEW h \in Workers, NEW c \in Customers,
             ReceiveChat(h, c) \/ ReceivePayment(h, c)
      PROVE  initial' = initial
  BY <1>1 DEF ReceiveChat, ReceivePayment, Receive, history
<1>2. ASSUME NEW h \in Workers, Chat(h)
      PROVE  initial' = initial \/ SendInitial(h)
  BY <1>2
  DEF Chat, Route, Decline, Welcome, RejectOverQuota, CheckQuota, GetSession,
      CreateSession, HandleOverQuota, AnswerReady, Offer,
      ExplainPayment, AnswerContact, HelpContact, Save, OnlyJob, history
<1>3. ASSUME NEW h \in Workers, Payment(h)
      PROVE  initial' = initial
  BY <1>3
  DEF Payment, IgnoreFailed, FindUnsolicited, FindWaiting, RefundUnsolicited,
      KeepSmall, Claim, TakeCoin, TakeNothing, SaveClaim, CheckFunds,
      RefundFunds, RefundSoldOut, LeaveExcept, SendBonus, CheckPreferences, End,
      Refund, OnlyJob,
      history
<1>4. ASSUME NEW h \in Workers, HandlerFails(h)
      PROVE  initial' = initial
  BY <1>4 DEF HandlerFails, history
<1>5. CASE Crash \/ EndDrop
  BY <1>5 DEF Crash, EndDrop, history
<1>6. CASE UNCHANGED airVars
  BY <1>6 DEF airVars, history
<1> QED
  BY <1>1, <1>2, <1>3, <1>4, <1>5, <1>6 DEF AirNext

(* The drop does not open again. *)
LEMMA OpenSteps ==
  ASSUME [AirNext]_airVars, open'
  PROVE  open
<1>1. ASSUME NEW h \in Workers, NEW c \in Customers,
             ReceiveChat(h, c) \/ ReceivePayment(h, c)
      PROVE  open' = open
  BY <1>1 DEF ReceiveChat, ReceivePayment, Receive
<1>2. ASSUME NEW h \in Workers, Chat(h)
      PROVE  open' = open
  BY <1>2
  DEF Chat, Route, Decline, Welcome, RejectOverQuota, CheckQuota, GetSession,
      CreateSession, HandleOverQuota, AnswerReady, Offer, SendInitial,
      ExplainPayment, AnswerContact, HelpContact, Save, OnlyJob
<1>3. ASSUME NEW h \in Workers, Payment(h)
      PROVE  open' = open
  BY <1>3
  DEF Payment, IgnoreFailed, FindUnsolicited, FindWaiting, RefundUnsolicited,
      KeepSmall, Claim, TakeCoin, TakeNothing, SaveClaim, CheckFunds,
      RefundFunds, RefundSoldOut, LeaveExcept, SendBonus, CheckPreferences, End,
      Refund, OnlyJob
<1>4. ASSUME NEW h \in Workers, HandlerFails(h)
      PROVE  open' = open
  BY <1>4 DEF HandlerFails
<1>5. CASE Crash \/ EndDrop
  BY <1>5 DEF Crash, EndDrop
<1>6. CASE UNCHANGED airVars
  BY <1>6 DEF airVars
<1> QED
  BY <1>1, <1>2, <1>3, <1>4, <1>5, <1>6 DEF AirNext

-----------------------------------------------------------------------------
(* Patience: what holds while every customer waits for the answer to each  *)
(* message and nothing breaks.                                             *)

(* A customer is served by one handler at a time. *)
Alone ==
  \A g, h \in Workers :
    job[g].customer = job[h].customer /\ ~At(g, "idle") => g = h

(* A customer has one session, besides those that were cancelled. *)
OneRow ==
  \A i, j \in Rows :
    /\ session[i].customer = session[j].customer
    /\ session[i].state # CANCELLED
    /\ session[j].state # CANCELLED
    => i = j

(* A session has no coin before its payment. *)
NoCoinYet ==
  \A i \in Rows : session[i].state <= WAITING_FOR_PAYMENT => session[i].coin = NoCoin

(* A handler's copy of its row is up to date, and saving it undoes         *)
(* nothing.                                                                *)
CopyOK(h) ==
  LET row == session[job[h].row]
      c == job[h].customer
  IN
  /\ job[h].step \in {"active", "offer", "initial", "claim"} =>
       row.state = job[h].state /\ row.coin = job[h].coin /\ row.state # CANCELLED
  /\ At(h, "save") =>
       /\ row.coin = job[h].coin
       /\ row.state # CANCELLED
       /\ row.state > READY => job[h].state > READY
       /\ row.state > WAITING_FOR_PAYMENT => job[h].state > WAITING_FOR_PAYMENT
       /\ job[h].state <= WAITING_FOR_PAYMENT => job[h].coin = NoCoin
       /\ job[h].state = ALLOW_CONTACT_REQUESTED => c \notin prefs
  /\ job[h].step \in {"save_coin", "save_sold_out"} => row.state = WAITING_FOR_PAYMENT
  /\ job[h].step \in {"funds", "refund_funds", "bonus", "preferences"} =>
       row.state = ALLOW_CONTACT_REQUESTED /\ row.coin = job[h].coin
  /\ At(h, "new") /\ open =>
       \A i \in Rows : session[i].customer = c => session[i].state \notin ActiveStates
  /\ job[h].step \in {"quota", "get", "create"} =>
       \A i \in Rows : session[i].customer = c => session[i].state = CANCELLED
  /\ job[h].step \in {"claim", "save_coin", "funds", "bonus"} => bonus[c] = 0

(* A handler that has sent the initial payment is about to save that.      *)
SavesInitial(h, i) ==
  At(h, "save") /\ job[h].row = i /\ job[h].state = WAITING_FOR_PAYMENT

InitialOK(c) ==
  /\ initial[c] <= 1
  /\ initial[c] > 0 =>
       \E i \in Rows :
         /\ session[i].customer = c
         /\ session[i].state # CANCELLED
         /\ session[i].state > READY \/ \E h \in Workers : SavesInitial(h, i)

BonusOK(c) ==
  /\ bonus[c] <= 1
  /\ bonus[c] > 0 =>
       \E i \in Rows :
         session[i].customer = c /\ session[i].state > WAITING_FOR_PAYMENT

(* A customer with preferences who was paid the bonus is left at the       *)
(* question only until a handler looks for the preferences, or saves that  *)
(* the question is settled.                                                *)
Settles(h, i) ==
  /\ job[h].row = i
  /\ At(h, "preferences") \/ (At(h, "save") /\ job[h].state = COMPLETED)

QuestionOK(i) ==
  /\ session[i].state = ALLOW_CONTACT_REQUESTED
  /\ bonus[session[i].customer] > 0
  /\ session[i].customer \in prefs
  => \E h \in Workers : Settles(h, i)

Patient ==
  /\ Alone
  /\ OneRow
  /\ NoCoinYet
  /\ \A h \in Workers : CopyOK(h)
  /\ \A c \in Customers : InitialOK(c) /\ BonusOK(c)
  /\ \A i \in Rows : QuestionOK(i)

PatientInv == Undisturbed => Patient

-----------------------------------------------------------------------------
LEMMA SavesMoves ==
  ASSUME JobsTyped, NEW h \in Workers, Saves(h) \/ CreateSession(h)
  PROVE  job'[h].step # job[h].step
<1>1. CASE Save(h) \/ CreateSession(h)
  BY <1>1, DoneDoes DEF Save, Finish, CreateSession, Finishes, Becomes, At
<1>2. CASE SaveClaim(h, "save_coin", "funds")
  BY <1>2, GotoDoes DEF SaveClaim, JobSteps, Moves, Sets, Becomes, At
<1>3. CASE SaveClaim(h, "save_sold_out", "except")
  BY <1>3, GotoDoes DEF SaveClaim, JobSteps, Moves, Sets, Becomes, At
<1> QED
  BY <1>1, <1>2, <1>3 DEF Saves

(* A step leaves the rows of a customer alone.                             *)
SameRows(c) ==
  /\ \A i \in Rows' : session'[i].customer = c => i \in Rows /\ session'[i] = session[i]
  /\ \A i \in Rows : session[i].customer = c => i \in Rows' /\ session'[i] = session[i]

(* A customer's rows change only by a handler that serves him. *)
LEMMA RowsOfOthers ==
  ASSUME BaseInv, [AirNext]_airVars, NEW c,
         \A h \in Workers : Saves(h) \/ CreateSession(h) => job[h].customer # c
  PROVE  SameRows(c)
<1>0. RowsTyped /\ JobInv /\ RowInv /\ JobsTyped
  BY DEF BaseInv, JobInv
<1>1. CASE UNCHANGED rowVars
  BY <1>1 DEF rowVars, Rows, SameRows
<1>2. ASSUME NEW h \in Workers, CreateSession(h)
      PROVE  SameRows(c)
  <2>1. job[h].customer \in Customers
    BY <1>2, <1>0, CustomerKnown DEF CreateSession, At
  <2>2. /\ Rows' = Rows \cup {Len(session) + 1}
        /\ session'[Len(session) + 1] =
             [customer |-> job[h].customer, state |-> READY, coin |-> NoCoin]
        /\ \A i \in Rows : session'[i] = session[i]
    BY <2>1, <1>2, <1>0, CreateSessionDoes
  <2> QED
    BY <1>2, <2>2 DEF SameRows
<1>3. ASSUME NEW h \in Workers, Saves(h)
      PROVE  SameRows(c)
  <2>1. job[h].row \in Rows /\ RowSaved(h)
    BY <1>3, <1>0, SavesDoes
  <2>2. job[h].step \in RowSteps
    BY <1>3 DEF Saves, Save, SaveClaim, At, RowSteps, SellSteps
  <2>3. session[job[h].row].customer = job[h].customer
    BY <2>2, <1>0, RowKnown
  <2> QED
    BY <1>3, <2>1, <2>3 DEF SameRows, RowSaved
<1> QED
  BY <1>1, <1>2, <1>3, RowsSteps

(* Nothing of a customer changes but by the handler that serves him.       *)
LEMMA CustomerKept ==
  ASSUME BaseInv, Alone, [AirNext]_airVars, NEW g \in Workers,
         job'[g] = job[g], ~At(g, "idle")
  PROVE  /\ job[g].customer \in Customers
         /\ SameRows(job[g].customer)
         /\ bonus'[job[g].customer] = bonus[job[g].customer]
         /\ job[g].customer \in prefs' <=> job[g].customer \in prefs
<1> DEFINE c == job[g].customer
<1>0. TypeOK /\ RowsTyped /\ JobInv /\ RowInv /\ JobsTyped /\ Counts
  BY DEF BaseInv, JobInv
<1>1. c \in Customers
  BY <1>0, CustomerKnown
<1>2. ASSUME NEW h \in Workers, job'[h].step # job[h].step
      PROVE  job[h].customer # c
  BY <1>2 DEF Alone
<1>3. SameRows(c)
  BY <1>0, <1>2, RowsOfOthers, SavesMoves
<1>4. bonus'[c] = bonus[c]
  <2>1. ASSUME NEW h \in Workers, SendBonus(h)
        PROVE  bonus'[c] = bonus[c]
    <3>1. job'[h].step # job[h].step
      BY <2>1, <1>0, SendBonusDoes DEF Sends, Finishes, Becomes, At
    <3>2. PICK n \in Nat :
            bonus' \in {bonus, [bonus EXCEPT ![job[h].customer] = @ + 1 + n]}
      BY <2>1, <1>0, SendBonusDoes
    <3> QED
      BY <3>1, <3>2, <1>0, <1>1, <1>2 DEF Counts
  <2> QED
    BY <2>1, BonusSteps
<1>5. c \in prefs' <=> c \in prefs
  <2>1. ASSUME NEW h \in Workers, AnswerContact(h)
        PROVE  c \in prefs' <=> c \in prefs
    <3>1. job'[h].step # job[h].step /\ prefs' = prefs \cup {job[h].customer}
      BY <2>1, <1>0, AnswerContactDoes DEF Sets, Becomes, At
    <3> QED
      BY <3>1, <1>2
  <2> QED
    BY <2>1, PrefsSteps
<1> QED
  BY <1>1, <1>3, <1>4, <1>5

(* A handler's copy stays up to date while the handler does nothing.       *)
LEMMA CopyStaysOK ==
  ASSUME BaseInv, Alone, [AirNext]_airVars, NEW g \in Workers,
         job'[g] = job[g], CopyOK(g)
  PROVE  CopyOK(g)'
<1> DEFINE c == job[g].customer
<1>1. CASE At(g, "idle")
  BY <1>1 DEF CopyOK, At
<1>2. CASE ~At(g, "idle")
  <2>1. /\ SameRows(c)
        /\ bonus'[c] = bonus[c]
        /\ c \in prefs' <=> c \in prefs
    BY <1>2, CustomerKept
  <2>2. open' => open
    BY OpenSteps
  <2>3. job[g].step \in RowSteps => session'[job[g].row] = session[job[g].row]
    BY <2>1, RowKnown DEF BaseInv, SameRows
  <2> QED
    BY <2>1, <2>2, <2>3 DEF CopyOK, At, SameRows, RowSteps, SellSteps
<1> QED
  BY <1>1, <1>2

(* A handler without a copy to keep, and not about to open a session.      *)
LEMMA NoCopyOK ==
  ASSUME NEW h \in Workers,
         job'[h].step \in {"idle", "route", "payment", "unsolicited", "except", "end"}
  PROVE  CopyOK(h)'
BY DEF CopyOK, At

LEMMA OthersAlone ==
  ASSUME OneRow, NEW i \in Rows, NEW j \in Rows,
         session[i].customer = session[j].customer,
         session[i].state # CANCELLED, session[j].state # CANCELLED
  PROVE  i = j
BY DEF OneRow

LEMMA ChatCopyOK ==
  ASSUME BaseInv, Patient, Calm, ~Disturbs, NEW h \in Workers, Chat(h)
  PROVE  CopyOK(h)'
<1>0. /\ TypeOK /\ RowsTyped /\ JobInv /\ RowInv /\ JobsTyped /\ Counts
      /\ JobOK(job[h]) /\ CopyOK(h) /\ NoCoinYet /\ OneRow
  BY DEF BaseInv, JobInv, Patient
<1>1. job[h].step \in RowSteps =>
        job[h].row \in Rows /\ session[job[h].row].customer = job[h].customer
  BY <1>0, RowKnown
<1>2. CASE Route(h)
  <2>1. CASE ActiveRows(job[h].customer) = {} /\ Moves(h, "new")
    <3>1. open => \A i \in Rows : session[i].customer = job[h].customer =>
                    session[i].state \notin ActiveStates
      BY <2>1 DEF ActiveRows, RowsOf
    <3> QED
      BY <2>1, <3>1, <1>2
      DEF Route, OnlyJob, rowVars, Rows, Moves, Sets, Becomes, CopyOK, At
  <2>2. ASSUME NEW i \in ActiveRows(job[h].customer),
               Becomes(h, "active", job[h].customer, i, session[i].state,
                       session[i].coin, job[h].refunded, job[h].paid, job[h].sends)
        PROVE  CopyOK(h)'
    <3>1. session[i].state # CANCELLED
      BY <1>0, RowsOfMember DEF ActiveRows, ActiveStates, CANCELLED, READY
    <3> QED
      BY <2>2, <3>1, <1>2 DEF Route, OnlyJob, rowVars, Becomes, CopyOK, At
  <2> QED
    BY <1>0, <1>2, <2>1, <2>2, RouteDoes
<1>3. CASE Welcome(h)
  <2>1. /\ At(h, "new") /\ open /\ Moves(h, "quota") /\ rowVars' = rowVars
        /\ RowsOf(job[h].customer, SoldStates \cup ErroredStates) = {}
    BY <1>0, <1>3, WelcomeDoes DEF OnlyJob
  <2>2. ASSUME NEW i \in Rows, session[i].customer = job[h].customer
        PROVE  session[i].state = CANCELLED
    <3>1. session[i].state \notin SoldStates \cup ErroredStates
      BY <2>1, <2>2 DEF RowsOf
    <3>2. session[i].state \notin ActiveStates
      <4>1. At(h, "new") /\ open =>
              \A j \in Rows : session[j].customer = job[h].customer =>
                             session[j].state \notin ActiveStates
        BY <1>0 DEF CopyOK
      <4> QED
        BY <4>1, <2>1, <2>2
    <3>3. session[i] \in RowType
      BY <1>0 DEF RowsTyped, Rows
    <3>4. session[i].state \in SessionStates
      BY <3>3 DEF RowType
    <3> QED
      BY <3>1, <3>2, <3>4
      DEF ActiveStates, SoldStates, ErroredStates, SessionStates, CANCELLED,
          READY, WAITING_FOR_PAYMENT, ALLOW_CONTACT_REQUESTED, COMPLETED, OUT_OF_STOCK
  <2> QED
    BY <2>1, <2>2 DEF rowVars, Rows, Moves, Sets, Becomes, CopyOK, At
<1>4. CASE CheckQuota(h)
  <2>1. At(h, "quota") /\ rowVars' = rowVars
    BY <1>0, <1>4, CheckQuotaDoes DEF OnlyJob
  <2>2. \A i \in Rows : session[i].customer = job[h].customer =>
                       session[i].state = CANCELLED
    BY <1>0, <2>1 DEF CopyOK, At
  <2>3. CASE Finishes(h)
    BY <2>3, NoCopyOK DEF Finishes, Becomes
  <2>4. CASE Moves(h, "get")
    BY <2>1, <2>2, <2>4 DEF rowVars, Rows, Moves, Sets, Becomes, CopyOK, At
  <2> QED
    BY <1>0, <1>4, <2>3, <2>4, CheckQuotaDoes
<1>5. CASE GetSession(h)
  <2>1. At(h, "get") /\ rowVars' = rowVars
    BY <1>0, <1>5, GetSessionDoes DEF OnlyJob
  <2>2. \A i \in Rows : session[i].customer = job[h].customer =>
                       session[i].state = CANCELLED
    BY <1>0, <2>1 DEF CopyOK, At
  <2>3. CASE Finishes(h)
    BY <2>3, NoCopyOK DEF Finishes, Becomes
  <2>4. CASE Moves(h, "create")
    BY <2>1, <2>2, <2>4 DEF rowVars, Rows, Moves, Sets, Becomes, CopyOK, At
  <2> QED
    BY <1>0, <1>5, <2>3, <2>4, GetSessionDoes
<1>6. CASE HandleOverQuota(h)
  BY <1>0, <1>6, HandleOverQuotaDoes
  DEF OnlyJob, rowVars, Rows, Sets, Becomes, CopyOK, At, READY, WAITING_FOR_PAYMENT,
      ALLOW_CONTACT_REQUESTED, OUT_OF_STOCK
<1>7. CASE AnswerReady(h)
  <2>1. /\ At(h, "active") /\ job[h].state = READY /\ rowVars' = rowVars
        /\ Sets(h, CANCELLED, "save") \/ Moves(h, "offer") \/ Moves(h, "save")
    BY <1>0, <1>7, AnswerReadyDoes DEF OnlyJob
  <2>2. /\ session[job[h].row].state = READY /\ job[h].coin = NoCoin
        /\ session[job[h].row].coin = NoCoin
    BY <1>0, <1>1, <2>1 DEF CopyOK, NoCoinYet, At, RowSteps, READY, WAITING_FOR_PAYMENT
  <2> QED
    BY <2>1, <2>2
    DEF rowVars, Moves, Sets, Becomes, CopyOK, At, CANCELLED, READY,
        WAITING_FOR_PAYMENT, ALLOW_CONTACT_REQUESTED
<1>8. CASE Offer(h)
  <2>1. /\ At(h, "offer") /\ job[h].state = READY /\ rowVars' = rowVars
        /\ Sets(h, CANCELLED, "save") \/ Moves(h, "initial")
    BY <1>0, <1>8, OfferDoes DEF OnlyJob, JobOK, At
  <2>2. /\ session[job[h].row].state = READY /\ job[h].coin = NoCoin
        /\ session[job[h].row].coin = NoCoin
    BY <1>0, <1>1, <2>1 DEF CopyOK, NoCoinYet, At, RowSteps, READY, WAITING_FOR_PAYMENT
  <2> QED
    BY <2>1, <2>2
    DEF rowVars, Moves, Sets, Becomes, CopyOK, At, CANCELLED, READY,
        WAITING_FOR_PAYMENT, ALLOW_CONTACT_REQUESTED
<1>9. CASE SendInitial(h)
  <2>1. /\ At(h, "initial") /\ job[h].state = READY /\ rowVars' = rowVars
        /\ Sends(h, WAITING_FOR_PAYMENT, "save")
    BY <1>0, <1>9, InitialPaidOnce DEF JobOK, At
  <2>2. /\ session[job[h].row].state = READY /\ job[h].coin = NoCoin
        /\ session[job[h].row].coin = NoCoin
    BY <1>0, <1>1, <2>1 DEF CopyOK, NoCoinYet, At, RowSteps, READY, WAITING_FOR_PAYMENT
  <2> QED
    BY <2>1, <2>2
    DEF rowVars, Sends, Becomes, CopyOK, At, CANCELLED, READY,
        WAITING_FOR_PAYMENT, ALLOW_CONTACT_REQUESTED
<1>10. CASE AnswerContact(h)
  BY <1>0, <1>10, AnswerContactDoes
  DEF rowVars, Sets, Becomes, CopyOK, At, CANCELLED, READY, WAITING_FOR_PAYMENT,
      ALLOW_CONTACT_REQUESTED, COMPLETED
<1>11. CASE \/ Decline(h) \/ RejectOverQuota(h) \/ CreateSession(h)
            \/ ExplainPayment(h) \/ HelpContact(h) \/ Save(h)
  <2>1. Done(h)
    BY <1>11 DEF Decline, RejectOverQuota, CreateSession, ExplainPayment,
                 HelpContact, Save, Finish
  <2> QED
    BY <2>1, <1>0, DoneDoes, NoCopyOK DEF Finishes, Becomes
<1> QED
  BY <1>2, <1>3, <1>4, <1>5, <1>6, <1>7, <1>8, <1>9, <1>10, <1>11 DEF Chat

LEMMA PaymentCopyOK ==
  ASSUME BaseInv, Patient, Calm, ~Disturbs, NEW h \in Workers, Payment(h),
         job'[h] # job[h]
  PROVE  CopyOK(h)'
<1>0. /\ TypeOK /\ RowsTyped /\ JobInv /\ RowInv /\ JobsTyped /\ Counts
      /\ JobOK(job[h]) /\ CopyOK(h) /\ NoCoinYet /\ OneRow
  BY DEF BaseInv, JobInv, Patient
<1>1. job[h].step \in RowSteps =>
        job[h].row \in Rows /\ session[job[h].row].customer = job[h].customer
  BY <1>0, RowKnown
<1>2. CASE FindWaiting(h)
  <2>1. PICK i \in WaitingRows(job[h].customer) :
          Becomes(h, "claim", job[h].customer, i, session[i].state,
                  session[i].coin, job[h].refunded, TRUE, job[h].sends)
    BY <1>0, <1>2, FindWaitingDoes
  <2>2. /\ i \in Rows /\ session[i].customer = job[h].customer
        /\ session[i].state = WAITING_FOR_PAYMENT
    BY <1>0, RowsOfMember DEF WaitingRows
  <2>3. job[h].customer \in Customers /\ bonus[job[h].customer] \in Nat
    BY <1>0, <1>2, CustomerKnown DEF FindWaiting, At, Counts
  <2>4. bonus[job[h].customer] = 0
    <3> SUFFICES ASSUME bonus[job[h].customer] > 0
                 PROVE  FALSE
      BY <2>3
    <3>1. PICK j \in Rows : /\ session[j].customer = job[h].customer
                            /\ session[j].state > WAITING_FOR_PAYMENT
      BY <2>3 DEF Patient, BonusOK
    <3>2. i = j
      BY <1>0, <2>2, <3>1, OthersAlone DEF WAITING_FOR_PAYMENT, CANCELLED
    <3> QED
      BY <2>2, <3>1, <3>2 DEF WAITING_FOR_PAYMENT
  <2>5. rowVars' = rowVars /\ bonus' = bonus
    BY <1>2 DEF FindWaiting, history
  <2> QED
    BY <2>1, <2>2, <2>4, <2>5
    DEF rowVars, Becomes, CopyOK, At, WAITING_FOR_PAYMENT, CANCELLED
<1>3. CASE TakeCoin(h)
  <2>1. /\ At(h, "claim") /\ rowVars' = rowVars /\ bonus' = bonus
        /\ Becomes(h, "save_coin", job[h].customer, job[h].row,
                   ALLOW_CONTACT_REQUESTED, coin[h], job[h].refunded,
                   job[h].paid, job[h].sends)
    BY <1>0, <1>3, TakeCoinDoes DEF history
  <2> QED
    BY <1>0, <2>1 DEF rowVars, Becomes, CopyOK, At, JobOK
<1>4. CASE TakeNothing(h)
  <2>1. /\ At(h, "claim") /\ rowVars' = rowVars
        /\ Sets(h, OUT_OF_STOCK, "save_sold_out")
    BY <1>0, <1>4, TakeNothingDoes
  <2> QED
    BY <1>0, <2>1 DEF rowVars, Sets, Becomes, CopyOK, At, JobOK
<1>5. CASE SaveClaim(h, "save_coin", "funds")
  <2>1. /\ At(h, "save_coin") /\ RowSaved(h) /\ Moves(h, "funds") /\ bonus' = bonus
    BY <1>0, <1>1, <1>5, SaveClaimDoes
    DEF SaveClaim, At, RowSteps, SellSteps, JobSteps, history
  <2> QED
    BY <1>0, <2>1 DEF RowSaved, Moves, Sets, Becomes, CopyOK, At, JobOK, SellSteps
<1>6. CASE CheckFunds(h)
  BY <1>0, <1>6, CheckFundsDoes
  DEF OnlyJob, rowVars, history, Moves, Sets, Becomes, CopyOK, At
<1>7. CASE SendBonus(h)
  <2>1. /\ At(h, "bonus") /\ rowVars' = rowVars
        /\ Sends(h, job[h].state, "preferences")
    BY <1>0, <1>7, BonusPaidOnce
  <2> QED
    BY <1>0, <2>1 DEF rowVars, Sends, Becomes, CopyOK, At
<1>12. CASE CheckPreferences(h)
  <2>1. /\ At(h, "preferences") /\ rowVars' = rowVars /\ prefs' = prefs
        /\ Sets(h, IF job[h].customer \in prefs THEN COMPLETED
                   ELSE ALLOW_CONTACT_REQUESTED, "save")
    BY <1>0, <1>12, CheckPreferencesDoes DEF OnlyJob
  <2> QED
    BY <1>0, <2>1
    DEF rowVars, Sets, Becomes, CopyOK, At, CANCELLED, READY,
        WAITING_FOR_PAYMENT, ALLOW_CONTACT_REQUESTED, COMPLETED
<1>8. CASE IgnoreFailed(h) \/ KeepSmall(h) \/ End(h)
  <2>1. Done(h)
    BY <1>8 DEF IgnoreFailed, KeepSmall, End, Finish
  <2> QED
    BY <2>1, <1>0, DoneDoes, NoCopyOK DEF Finishes, Becomes
<1>9. CASE \/ FindUnsolicited(h) \/ RefundUnsolicited(h) \/ RefundFunds(h)
           \/ RefundSoldOut(h) \/ LeaveExcept(h)
  <2>1. job'[h].step \in {"idle", "unsolicited", "except", "end"}
    BY <1>0, <1>9, FindUnsolicitedDoes, RefundUnsolicitedDoes, RefundFundsDoes,
       RefundSoldOutDoes, LeaveExceptDoes
    DEF Moves, Sets, Sends, Finishes, Becomes
  <2> QED
    BY <2>1, NoCopyOK
<1>10. CASE SaveClaim(h, "save_sold_out", "except")
  <2>1. Moves(h, "except")
    BY <1>0, <1>10, GotoDoes DEF SaveClaim, JobSteps
  <2> QED
    BY <2>1, NoCopyOK DEF Moves, Sets, Becomes
<1>11. CASE Claim(h)
  BY <1>11 DEF Claim
<1> QED
  BY <1>2, <1>3, <1>4, <1>5, <1>6, <1>7, <1>8, <1>9, <1>10, <1>11, <1>12 DEF Payment

LEMMA CopyOKStep ==
  ASSUME BaseInv, Patient, Calm, ~Disturbs, [AirNext]_airVars, NEW h \in Workers
  PROVE  CopyOK(h)'
<1>0. TypeOK /\ RowsTyped /\ JobInv /\ JobsTyped /\ Alone /\ CopyOK(h)
  BY DEF BaseInv, JobInv, Patient
<1>1. CASE job'[h] = job[h]
  BY <1>0, <1>1, CopyStaysOK
<1>2. ASSUME NEW c \in Customers, ReceiveChat(h, c) \/ ReceivePayment(h, c)
      PROVE  CopyOK(h)'
  <2>1. "route" \in JobSteps /\ "payment" \in JobSteps
    BY DEF JobSteps
  <2>2. job'[h].step \in {"route", "payment"}
    BY <1>0, <1>2, <2>1, ReceiveDoes, ZenonT(40) DEF ReceiveChat, ReceivePayment, Becomes
  <2> QED
    BY <2>2, NoCopyOK
<1>3. CASE job'[h] # job[h]
  BY <1>0, <1>2, <1>3, CalmTurn, ChatCopyOK, PaymentCopyOK
<1> QED
  BY <1>1, <1>3

LEMMA AloneStep ==
  ASSUME BaseInv, Patient, Calm, ~Disturbs, [AirNext]_airVars
  PROVE  Alone'
<1>0. TypeOK /\ RowsTyped /\ JobInv /\ JobsTyped /\ Alone /\ JobInv'
  BY JobStep DEF BaseInv, JobInv, Patient
<1>1. ASSUME NEW h \in Workers, NEW c \in Customers,
             ReceiveChat(h, c) \/ ReceivePayment(h, c)
      PROVE  job'[h].customer = c /\ \A g \in Workers \ {h} : job'[g] = job[g]
  <2>1. "route" \in JobSteps /\ "payment" \in JobSteps
    BY DEF JobSteps
  <2> QED
    BY <1>0, <1>1, <2>1, ReceiveDoes DEF ReceiveChat, ReceivePayment, Becomes
<1>2. ASSUME NEW h \in Workers
      PROVE  \/ job'[h].customer \in {job[h].customer, NoCustomer}
             \/ \E c \in Customers :
                  /\ job'[h].customer = c
                  /\ \A g \in Workers : job[g].customer # c
                  /\ \A g \in Workers \ {h} : job'[g] = job[g]
  <2>1. CASE job'[h] = job[h]
    BY <2>1
  <2>2. CASE job'[h] # job[h]
    BY <1>0, <1>1, <2>2, CalmTurn DEF Turn
  <2> QED
    BY <2>1, <2>2
<1>3. ASSUME NEW g \in Workers, NEW h \in Workers,
             job'[g].customer = job'[h].customer, job'[g].step # "idle"
      PROVE  g = h
  <2>1. job'[g].customer # NoCustomer
    BY <1>0, <1>3 DEF JobInv, JobOK
  <2>2. CASE /\ job[g].customer = job'[g].customer
             /\ job[h].customer = job'[h].customer
    <3>1. job[g].step # "idle"
      BY <1>0, <2>1, <2>2 DEF JobInv, JobOK
    <3> QED
      BY <1>0, <1>3, <2>2, <3>1 DEF Alone, At
  <2> QED
    BY <1>2, <1>3, <2>1, <2>2
<1> QED
  BY <1>3 DEF Alone, At

(* What a handler saves is a row of its customer that is not cancelled,    *)
(* and is no earlier a state of it.                                        *)
LEMMA SavesForward ==
  ASSUME BaseInv, Patient, NEW h \in Workers, Saves(h)
  PROVE  LET i == job[h].row IN
         /\ i \in Rows /\ RowSaved(h)
         /\ session[i].customer = job[h].customer
         /\ session[i].state # CANCELLED
         /\ session[i].state > READY => job[h].state > READY
         /\ session[i].state > WAITING_FOR_PAYMENT =>
              job[h].state > WAITING_FOR_PAYMENT
         /\ job[h].state <= WAITING_FOR_PAYMENT => job[h].coin = NoCoin
         /\ session[i].coin # NoCoin => job[h].coin = session[i].coin
         /\ job[h].state = ALLOW_CONTACT_REQUESTED =>
              job[h].customer \notin prefs \/ bonus[job[h].customer] = 0
<1>0. /\ TypeOK /\ RowsTyped /\ JobInv /\ RowInv /\ JobsTyped
      /\ JobOK(job[h]) /\ CopyOK(h) /\ NoCoinYet
  BY DEF BaseInv, JobInv, Patient
<1>1. job[h].row \in Rows /\ RowSaved(h)
  BY <1>0, SavesDoes
<1>2. job[h].step \in RowSteps
  BY DEF Saves, Save, SaveClaim, At, RowSteps, SellSteps
<1>3. session[job[h].row].customer = job[h].customer
  BY <1>0, <1>2, RowKnown
<1>4. CASE At(h, "save")
  BY <1>0, <1>1, <1>3, <1>4 DEF CopyOK, At
<1>5. CASE At(h, "save_coin")
  <2>1. /\ session[job[h].row].state = WAITING_FOR_PAYMENT
        /\ job[h].state = ALLOW_CONTACT_REQUESTED
        /\ bonus[job[h].customer] = 0
    BY <1>0, <1>5 DEF CopyOK, JobOK, At, SellSteps
  <2>2. session[job[h].row].coin = NoCoin
    BY <1>0, <1>1, <2>1 DEF NoCoinYet, WAITING_FOR_PAYMENT
  <2> QED
    BY <1>1, <1>3, <2>1, <2>2
    DEF CANCELLED, READY, WAITING_FOR_PAYMENT, ALLOW_CONTACT_REQUESTED
<1>6. CASE At(h, "save_sold_out")
  <2>1. /\ session[job[h].row].state = WAITING_FOR_PAYMENT
        /\ job[h].state = OUT_OF_STOCK
    BY <1>0, <1>6 DEF CopyOK, JobOK, At
  <2>2. session[job[h].row].coin = NoCoin
    BY <1>0, <1>1, <2>1 DEF NoCoinYet, WAITING_FOR_PAYMENT
  <2> QED
    BY <1>1, <1>3, <2>1, <2>2
    DEF CANCELLED, READY, WAITING_FOR_PAYMENT, ALLOW_CONTACT_REQUESTED, OUT_OF_STOCK
<1> QED
  BY <1>4, <1>5, <1>6 DEF Saves, Save, SaveClaim

(* A row that a handler opens is its customer's only one. *)
LEMMA OpensOnly ==
  ASSUME BaseInv, Patient, NEW h \in Workers, CreateSession(h)
  PROVE  LET n == Len(session) + 1 IN
         /\ n \notin Rows /\ Rows' = Rows \cup {n}
         /\ \A i \in Rows : session'[i] = session[i]
         /\ session'[n] = [customer |-> job[h].customer, state |-> READY,
                           coin |-> NoCoin]
         /\ \A i \in Rows : session[i].customer = job[h].customer =>
                              session[i].state = CANCELLED
<1>0. RowsTyped /\ JobInv /\ JobsTyped /\ CopyOK(h)
  BY DEF BaseInv, JobInv, Patient
<1>1. At(h, "create") /\ job[h].customer \in Customers
  BY <1>0, CustomerKnown DEF CreateSession, At
<1>2. \A i \in Rows : session[i].customer = job[h].customer =>
                        session[i].state = CANCELLED
  BY <1>0, <1>1 DEF CopyOK, At
<1> QED
  BY <1>0, <1>1, <1>2, CreateSessionDoes

LEMMA OneRowStep ==
  ASSUME BaseInv, Patient, [AirNext]_airVars
  PROVE  OneRow' /\ NoCoinYet'
<1>0. OneRow /\ NoCoinYet
  BY DEF Patient
<1>1. CASE UNCHANGED rowVars
  BY <1>0, <1>1 DEF rowVars, Rows, OneRow, NoCoinYet
<1>2. ASSUME NEW h \in Workers, CreateSession(h)
      PROVE  OneRow' /\ NoCoinYet'
  <2> DEFINE n == Len(session) + 1
  <2>1. /\ n \notin Rows /\ Rows' = Rows \cup {n}
        /\ \A i \in Rows : session'[i] = session[i]
        /\ session'[n] = [customer |-> job[h].customer, state |-> READY,
                          coin |-> NoCoin]
        /\ \A i \in Rows : session[i].customer = job[h].customer =>
                             session[i].state = CANCELLED
    BY <1>2, OpensOnly
  <2> HIDE DEF n
  <2> QED
    BY <1>0, <2>1 DEF OneRow, NoCoinYet
<1>3. ASSUME NEW h \in Workers, Saves(h)
      PROVE  OneRow' /\ NoCoinYet'
  <2>1. /\ job[h].row \in Rows /\ RowSaved(h)
        /\ session[job[h].row].state # CANCELLED
        /\ job[h].state <= WAITING_FOR_PAYMENT => job[h].coin = NoCoin
    BY <1>3, SavesForward
  <2>2. \A i \in Rows : /\ session'[i].customer = session[i].customer
                        /\ session'[i].state # CANCELLED => session[i].state # CANCELLED
    BY <2>1 DEF RowSaved
  <2>3. OneRow'
    BY <1>0, <2>1, <2>2 DEF OneRow, RowSaved
  <2>4. NoCoinYet'
    BY <1>0, <2>1 DEF NoCoinYet, RowSaved
  <2> QED
    BY <2>3, <2>4
<1> QED
  BY <1>1, <1>2, <1>3, RowsSteps

(* What is about to be saved is saved, while nothing is disturbed. *)
LEMMA SavesSoon ==
  ASSUME BaseInv, Calm, ~Disturbs, [AirNext]_airVars,
         NEW h \in Workers, At(h, "save"), job'[h] # job[h]
  PROVE  Save(h)
<1>0. TypeOK /\ RowsTyped /\ JobInv /\ JobsTyped
  BY DEF BaseInv, JobInv
<1>1. ASSUME NEW c \in Customers, ReceiveChat(h, c) \/ ReceivePayment(h, c)
      PROVE  FALSE
  BY <1>1 DEF ReceiveChat, ReceivePayment, Receive, At
<1>2. CASE Chat(h)
  BY <1>2
  DEF Chat, Route, Decline, Welcome, RejectOverQuota, CheckQuota, GetSession,
      CreateSession, HandleOverQuota, AnswerReady, Offer, SendInitial,
      ExplainPayment, AnswerContact, HelpContact, Active, At
<1>3. CASE Payment(h)
  BY <1>3
  DEF Payment, IgnoreFailed, FindUnsolicited, FindWaiting, RefundUnsolicited,
      KeepSmall, Claim, TakeCoin, TakeNothing, SaveClaim, CheckFunds,
      RefundFunds, RefundSoldOut, LeaveExcept, SendBonus, CheckPreferences, End, At
<1> QED
  BY <1>0, <1>1, <1>2, <1>3, CalmTurn

(* The preferences are looked for at once, while nothing is disturbed. *)
LEMMA PreferencesSoon ==
  ASSUME BaseInv, Calm, ~Disturbs, [AirNext]_airVars,
         NEW h \in Workers, At(h, "preferences"), job'[h] # job[h]
  PROVE  CheckPreferences(h)
<1>0. TypeOK /\ RowsTyped /\ JobInv /\ JobsTyped
  BY DEF BaseInv, JobInv
<1>1. ASSUME NEW c \in Customers, ReceiveChat(h, c) \/ ReceivePayment(h, c)
      PROVE  FALSE
  BY <1>1 DEF ReceiveChat, ReceivePayment, Receive, At
<1>2. CASE Chat(h)
  BY <1>2
  DEF Chat, Route, Decline, Welcome, RejectOverQuota, CheckQuota, GetSession,
      CreateSession, HandleOverQuota, AnswerReady, Offer, SendInitial,
      ExplainPayment, AnswerContact, HelpContact, Save, Active, At
<1>3. CASE Payment(h)
  BY <1>3
  DEF Payment, IgnoreFailed, FindUnsolicited, FindWaiting, RefundUnsolicited,
      KeepSmall, Claim, TakeCoin, TakeNothing, SaveClaim, CheckFunds,
      RefundFunds, RefundSoldOut, LeaveExcept, SendBonus, End, At
<1> QED
  BY <1>0, <1>1, <1>2, <1>3, CalmTurn

(* Two handlers at rows of one customer are one handler. *)
LEMMA SameHandler ==
  ASSUME BaseInv, Patient, NEW g \in Workers, NEW h \in Workers,
         job[g].step \in RowSteps, job[h].step \in RowSteps,
         session[job[g].row].customer = session[job[h].row].customer
  PROVE  g = h
<1>1. job[g].customer = job[h].customer
  BY RowKnown DEF BaseInv
<1> QED
  BY <1>1 DEF Patient, Alone, At, RowSteps, SellSteps

LEMMA InitialStep ==
  ASSUME BaseInv, Patient, Calm, ~Disturbs, [AirNext]_airVars, NEW c \in Customers
  PROVE  InitialOK(c)'
<1>0. /\ TypeOK /\ RowsTyped /\ JobInv /\ RowInv /\ JobsTyped /\ Counts
      /\ InitialOK(c) /\ OneRow /\ initial[c] \in Nat
      /\ \A h \in Workers : JobOK(job[h]) /\ CopyOK(h)
  BY DEF BaseInv, JobInv, Patient, Counts
<1>1. /\ Rows \subseteq Rows'
      /\ \A i \in Rows : session'[i].customer = session[i].customer
  BY <1>0, RowsStep
<1>2. ASSUME NEW h \in Workers, SendInitial(h), job[h].customer = c
      PROVE  InitialOK(c)'
  <2>1. /\ At(h, "initial") /\ job[h].state = READY /\ rowVars' = rowVars
        /\ Sends(h, WAITING_FOR_PAYMENT, "save")
        /\ initial' = [initial EXCEPT ![c] = @ + 1]
    BY <1>0, <1>2, InitialPaidOnce DEF JobOK, At
  <2>2. PICK i \in Rows : /\ i = job[h].row
                         /\ session[i].customer = c
                         /\ session[i].state = READY
    BY <1>0, <1>2, <2>1, RowKnown DEF CopyOK, At, RowSteps
  <2>3. initial[c] = 0
    <3> SUFFICES ASSUME initial[c] > 0
                 PROVE  FALSE
      BY <1>0
    <3>1. PICK j \in Rows :
            /\ session[j].customer = c
            /\ session[j].state # CANCELLED
            /\ session[j].state > READY \/ \E k \in Workers : SavesInitial(k, j)
      BY <1>0 DEF InitialOK
    <3>2. j = i
      BY <1>0, <2>2, <3>1, OthersAlone DEF READY, CANCELLED
    <3>3. PICK k \in Workers : SavesInitial(k, i)
      BY <2>2, <3>1, <3>2 DEF READY
    <3>4. k = h
      BY <2>1, <2>2, <3>3, SameHandler DEF SavesInitial, At, RowSteps
    <3> QED
      BY <2>1, <3>3, <3>4 DEF SavesInitial, At
  <2>4. initial'[c] = 1
    BY <1>0, <2>1, <2>3 DEF Counts
  <2>5. SavesInitial(h, i)'
    BY <2>1, <2>2 DEF SavesInitial, Sends, Becomes, At
  <2>6. i \in Rows' /\ session'[i] = session[i]
    BY <2>1, <2>2 DEF rowVars, Rows
  <2> QED
    BY <2>2, <2>4, <2>5, <2>6 DEF InitialOK, READY, CANCELLED
<1>3. CASE initial'[c] = initial[c]
  <2> SUFFICES ASSUME initial[c] > 0
               PROVE  \E i \in Rows' :
                        /\ session'[i].customer = c
                        /\ session'[i].state # CANCELLED
                        /\ \/ session'[i].state > READY
                           \/ \E h \in Workers : SavesInitial(h, i)'
    BY <1>0, <1>3 DEF InitialOK
  <2>1. PICK i \in Rows :
          /\ session[i].customer = c
          /\ session[i].state # CANCELLED
          /\ session[i].state > READY \/ \E k \in Workers : SavesInitial(k, i)
    BY <1>0 DEF InitialOK
  <2>2. ASSUME NEW h \in Workers, Saves(h), job[h].row = i
        PROVE  session'[i].state # CANCELLED /\ session'[i].state > READY
    <3>1. /\ session'[i].state = job[h].state
          /\ session[i].state > READY => job[h].state > READY
      BY <2>2, SavesForward DEF RowSaved
    <3>2. ASSUME NEW k \in Workers, SavesInitial(k, i)
          PROVE  job[h].state > READY
      <4>1. k = h
        BY <2>2, <3>2, SameHandler
        DEF SavesInitial, At, Saves, Save, SaveClaim, RowSteps, SellSteps
      <4> QED
        BY <3>2, <4>1 DEF SavesInitial, WAITING_FOR_PAYMENT, READY
    <3> QED
      BY <2>1, <3>1, <3>2 DEF READY, CANCELLED
  <2>3. CASE \A h \in Workers : Saves(h) => job[h].row # i
    <3>1. session'[i] = session[i]
      <4>1. CASE UNCHANGED rowVars
        BY <4>1 DEF rowVars
      <4>2. ASSUME NEW h \in Workers, CreateSession(h)
            PROVE  session'[i] = session[i]
        BY <4>2, OpensOnly
      <4>3. ASSUME NEW h \in Workers, Saves(h)
            PROVE  session'[i] = session[i]
        BY <2>3, <4>3, SavesForward DEF RowSaved
      <4> QED
        BY <4>1, <4>2, <4>3, RowsSteps
    <3>2. ASSUME NEW k \in Workers, SavesInitial(k, i)
          PROVE  SavesInitial(k, i)'
      <4>1. job'[k] = job[k]
        BY <2>3, <3>2, SavesSoon DEF SavesInitial, Saves
      <4> QED
        BY <3>2, <4>1 DEF SavesInitial, At
    <3> QED
      BY <1>1, <2>1, <3>1, <3>2
  <2> QED
    BY <1>1, <2>1, <2>2, <2>3
<1>4. ASSUME NEW h \in Workers, SendInitial(h), job[h].customer # c
      PROVE  initial'[c] = initial[c]
  <2>1. initial' = [initial EXCEPT ![job[h].customer] = @ + 1]
    BY <1>0, <1>4, InitialPaidOnce
  <2> QED
    BY <1>0, <1>4, <2>1 DEF Counts
<1> QED
  BY <1>2, <1>3, <1>4, InitialSteps

LEMMA BonusStep ==
  ASSUME BaseInv, Patient, Calm, ~Disturbs, [AirNext]_airVars, NEW c \in Customers
  PROVE  BonusOK(c)'
<1>0. /\ TypeOK /\ RowsTyped /\ JobInv /\ RowInv /\ JobsTyped /\ Counts
      /\ BonusOK(c) /\ bonus[c] \in Nat
      /\ \A h \in Workers : JobOK(job[h]) /\ CopyOK(h)
  BY DEF BaseInv, JobInv, Patient, Counts
<1>1. /\ Rows \subseteq Rows'
      /\ \A i \in Rows : session'[i].customer = session[i].customer
  BY <1>0, RowsStep
<1>2. ASSUME NEW h \in Workers, SendBonus(h), job[h].customer = c
      PROVE  BonusOK(c)'
  <2>1. /\ At(h, "bonus") /\ rowVars' = rowVars
        /\ bonus' = [bonus EXCEPT ![c] = @ + 1]
    BY <1>0, <1>2, BonusPaidOnce
  <2>2. PICK i \in Rows : /\ i = job[h].row
                         /\ session[i].customer = c
                         /\ session[i].state = ALLOW_CONTACT_REQUESTED
    BY <1>0, <1>2, <2>1, RowKnown DEF CopyOK, At, RowSteps, SellSteps
  <2>3. bonus[c] = 0
    BY <1>0, <1>2, <2>1 DEF CopyOK, At
  <2>4. bonus'[c] = 1
    BY <1>0, <2>1, <2>3 DEF Counts
  <2>5. i \in Rows' /\ session'[i] = session[i]
    BY <2>1, <2>2 DEF rowVars, Rows
  <2> QED
    BY <2>2, <2>4, <2>5 DEF BonusOK, WAITING_FOR_PAYMENT, ALLOW_CONTACT_REQUESTED
<1>3. CASE bonus'[c] = bonus[c]
  <2> SUFFICES ASSUME bonus[c] > 0
               PROVE  \E i \in Rows' :
                        /\ session'[i].customer = c
                        /\ session'[i].state > WAITING_FOR_PAYMENT
    BY <1>0, <1>3 DEF BonusOK
  <2>1. PICK i \in Rows : session[i].customer = c /\ session[i].state > WAITING_FOR_PAYMENT
    BY <1>0 DEF BonusOK
  <2>2. session'[i].state > WAITING_FOR_PAYMENT
    <3>1. CASE UNCHANGED rowVars
      BY <2>1, <3>1 DEF rowVars
    <3>2. ASSUME NEW h \in Workers, CreateSession(h)
          PROVE  session'[i].state > WAITING_FOR_PAYMENT
      BY <2>1, <3>2, OpensOnly
    <3>3. ASSUME NEW h \in Workers, Saves(h)
          PROVE  session'[i].state > WAITING_FOR_PAYMENT
      BY <2>1, <3>3, SavesForward DEF RowSaved
    <3> QED
      BY <3>1, <3>2, <3>3, RowsSteps
  <2> QED
    BY <1>1, <2>1, <2>2
<1>4. ASSUME NEW h \in Workers, SendBonus(h), job[h].customer # c
      PROVE  bonus'[c] = bonus[c]
  <2>1. bonus' = [bonus EXCEPT ![job[h].customer] = @ + 1]
    BY <1>0, <1>4, BonusPaidOnce
  <2> QED
    BY <1>0, <1>4, <2>1 DEF Counts
<1> QED
  BY <1>2, <1>3, <1>4, BonusSteps

(* Nobody is left at the question by a row that is saved. *)
LEMMA QuestionStep ==
  ASSUME BaseInv, Patient, Calm, ~Disturbs, [AirNext]_airVars, NEW i \in Rows'
  PROVE  QuestionOK(i)'
<1>0. /\ TypeOK /\ RowsTyped /\ JobInv /\ RowInv /\ JobsTyped /\ Counts /\ OneRow
      /\ \A h \in Workers : JobOK(job[h]) /\ CopyOK(h)
  BY DEF BaseInv, JobInv, Patient
<1> SUFFICES ASSUME session'[i].state = ALLOW_CONTACT_REQUESTED,
                    bonus'[session'[i].customer] > 0,
                    session'[i].customer \in prefs'
             PROVE  \E h \in Workers : Settles(h, i)'
  BY DEF QuestionOK
<1>1. ASSUME NEW h \in Workers, SendBonus(h), job[h].row = i
      PROVE  Settles(h, i)'
  BY <1>0, <1>1, BonusPaidOnce DEF Sends, Becomes, At, Settles
<1>2. ASSUME NEW h \in Workers, AnswerContact(h), job[h].row = i
      PROVE  Settles(h, i)'
  BY <1>0, <1>2, AnswerContactDoes DEF Sets, Becomes, At, Settles
<1>3. CASE \E h \in Workers : Saves(h) /\ job[h].row = i
  <2>1. PICK h \in Workers : Saves(h) /\ job[h].row = i
    BY <1>3
  <2>2. /\ i \in Rows /\ RowSaved(h) /\ session[i].customer = job[h].customer
        /\ job[h].state = ALLOW_CONTACT_REQUESTED =>
             job[h].customer \notin prefs \/ bonus[job[h].customer] = 0
    BY <2>1, SavesForward
  <2>3. prefs' = prefs /\ bonus' = bonus
    BY <2>1 DEF Saves, Save, SaveClaim, history
  <2> QED
    BY <2>1, <2>2, <2>3 DEF RowSaved
<1>4. CASE \A h \in Workers : Saves(h) => job[h].row # i
  <2>1. i \in Rows /\ session'[i] = session[i]
    <3>1. CASE UNCHANGED rowVars
      BY <3>1 DEF rowVars, Rows
    <3>2. ASSUME NEW h \in Workers, CreateSession(h)
          PROVE  i \in Rows /\ session'[i] = session[i]
      <4>1. /\ Rows' = Rows \cup {Len(session) + 1}
            /\ \A j \in Rows : session'[j] = session[j]
            /\ session'[Len(session) + 1] =
                 [customer |-> job[h].customer, state |-> READY, coin |-> NoCoin]
        BY <3>2, OpensOnly
      <4>2. i # Len(session) + 1
        BY <4>1 DEF READY, ALLOW_CONTACT_REQUESTED
      <4> QED
        BY <4>1, <4>2
    <3>3. ASSUME NEW h \in Workers, Saves(h)
          PROVE  i \in Rows /\ session'[i] = session[i]
      BY <1>4, <3>3, SavesForward DEF RowSaved
    <3> QED
      BY <3>1, <3>2, <3>3, RowsSteps
  <2> DEFINE c == session[i].customer
  <2>2. c \in Customers /\ bonus[c] \in Nat
    <3>1. session[i] \in RowType
      BY <1>0, <2>1 DEF RowsTyped, Rows
    <3> QED
      BY <1>0, <3>1 DEF RowType, Counts
  <2>3. CASE bonus[c] > 0 /\ c \in prefs
    <3>1. PICK h \in Workers : Settles(h, i)
      BY <2>1, <2>3 DEF Patient, QuestionOK
    <3>2. CASE job'[h] = job[h]
      BY <3>1, <3>2 DEF At, Settles
    <3>3. CASE At(h, "save") /\ job'[h] # job[h]
      BY <1>4, <3>1, <3>3, SavesSoon DEF Saves, Settles
    <3>4. CASE At(h, "preferences") /\ job'[h] # job[h]
      <4>1. CheckPreferences(h)
        BY <3>4, PreferencesSoon
      <4>2. job[h].customer = c
        BY <3>1, <3>4, <1>0, RowKnown DEF At, RowSteps, SellSteps, Settles
      <4> QED
        BY <4>1, <4>2, <2>3, <3>1, <1>0, CheckPreferencesDoes
        DEF Sets, Becomes, At, Settles
    <3> QED
      BY <3>1, <3>2, <3>3, <3>4 DEF Settles
  <2>4. CASE bonus'[c] # bonus[c]
    <3>1. PICK h \in Workers : SendBonus(h)
      BY <2>4, BonusSteps
    <3>2. /\ At(h, "bonus")
          /\ bonus' = [bonus EXCEPT ![job[h].customer] = @ + 1]
      BY <1>0, <3>1, BonusPaidOnce
    <3>3. job[h].customer = c
      BY <1>0, <2>2, <2>4, <3>2 DEF Counts
    <3>4. /\ job[h].row \in Rows /\ session[job[h].row].customer = c
          /\ session[job[h].row].state = ALLOW_CONTACT_REQUESTED
      BY <1>0, <3>2, <3>3, RowKnown DEF CopyOK, At, RowSteps, SellSteps
    <3>5. job[h].row = i
      BY <1>0, <2>1, <3>4, OthersAlone DEF ALLOW_CONTACT_REQUESTED, CANCELLED
    <3> QED
      BY <1>1, <3>1, <3>5
  <2>5. CASE c \in prefs' /\ c \notin prefs
    <3>1. PICK h \in Workers : AnswerContact(h)
      BY <2>5, PrefsSteps
    <3>2. /\ At(h, "active") /\ job[h].state = ALLOW_CONTACT_REQUESTED
          /\ prefs' = prefs \cup {job[h].customer}
      BY <1>0, <3>1, AnswerContactDoes
    <3>3. job[h].customer = c
      BY <2>5, <3>2
    <3>4. /\ job[h].row \in Rows /\ session[job[h].row].customer = c
          /\ session[job[h].row].state = ALLOW_CONTACT_REQUESTED
      BY <1>0, <3>2, <3>3, RowKnown DEF CopyOK, At, RowSteps
    <3>5. job[h].row = i
      BY <1>0, <2>1, <3>4, OthersAlone DEF ALLOW_CONTACT_REQUESTED, CANCELLED
    <3> QED
      BY <1>2, <3>1, <3>5
  <2> QED
    BY <2>1, <2>2, <2>3, <2>4, <2>5
<1> QED
  BY <1>3, <1>4

LEMMA PatientStep ==
  ASSUME BaseInv, PatientInv, [AirNext]_airVars
  PROVE  PatientInv'
<1> SUFFICES ASSUME Undisturbed'
             PROVE  Patient'
  BY DEF PatientInv
<1>1. Calm /\ ~Disturbs /\ Patient
  BY CalmStep DEF BaseInv, PatientInv, Calm
<1>2. Alone'
  BY <1>1, AloneStep
<1>3. OneRow' /\ NoCoinYet'
  BY <1>1, OneRowStep
<1>4. \A h \in Workers : CopyOK(h)'
  BY <1>1, CopyOKStep
<1>5. \A c \in Customers : InitialOK(c)' /\ BonusOK(c)'
  BY <1>1, InitialStep, BonusStep
<1>6. \A i \in Rows' : QuestionOK(i)'
  BY <1>1, QuestionStep
<1> QED
  BY <1>2, <1>3, <1>4, <1>5, <1>6 DEF Patient

LEMMA PatientInit == AirInit => PatientInv
<1> SUFFICES ASSUME AirInit
             PROVE  Patient
  BY DEF PatientInv
<1>1. Rows = {} /\ \A h \in Workers : At(h, "idle")
  BY DEF AirInit, Rows, NoJob, At
<1>2. Alone /\ OneRow /\ NoCoinYet /\ \A i \in Rows : QuestionOK(i)
  BY <1>1 DEF Alone, OneRow, NoCoinYet
<1>3. \A h \in Workers : CopyOK(h)
  BY <1>1 DEF CopyOK, At
<1>4. \A c \in Customers : InitialOK(c) /\ BonusOK(c)
  BY DEF AirInit, InitialOK, BonusOK
<1> QED
  BY <1>2, <1>3, <1>4 DEF Patient

(* While customers wait for their answers and nothing breaks, the          *)
(* handlers' copies are up to date and every save goes forward.            *)
THEOREM PatientInvariant == AirSpec => []PatientInv
<1>1. BaseInv /\ PatientInv /\ [AirNext]_airVars => PatientInv'
  BY PatientStep
<1> QED
  BY <1>1, PatientInit, BaseInvariant, PTL DEF AirSpec

(* One airdrop per person: no patient customer gets two initial payments   *)
(* or two bonuses.                                                         *)
THEOREM OneAirdropIfPatientHolds == AirSpec => []OneAirdropIfPatient
<1>1. PatientInv => OneAirdropIfPatient
  BY DEF PatientInv, Patient, InitialOK, BonusOK, OneAirdropIfPatient, OneAirdropEach
<1> QED
  BY <1>1, PatientInvariant, PTL

(* The question for contact is settled by the preferences. *)
THEOREM QuestionSettledHolds == AirSpec => []QuestionSettled
<1>1. BaseInv /\ PrefsInv /\ PatientInv => QuestionSettled
  <2> SUFFICES ASSUME BaseInv, PrefsInv, PatientInv, NEW i \in Rows,
                      session[i].state = ALLOW_CONTACT_REQUESTED,
                      bonus[session[i].customer] > 0,
                      session[i].customer \in prefs,
                      ~(disturbances > 0)
               PROVE  \E h \in Workers : job[h].customer = session[i].customer
    BY DEF QuestionSettled, PrefsInv
  <2>1. Patient
    BY DEF BaseInv, Counts, PatientInv, Undisturbed
  <2>2. PICK h \in Workers : Settles(h, i)
    BY <2>1 DEF Patient, QuestionOK
  <2> QED
    BY <2>2, RowKnown DEF BaseInv, At, RowSteps, SellSteps, Settles
<1> QED
  BY <1>1, BaseInvariant, PrefsInvariant, PatientInvariant, PTL

(* No step of a patient customer's session takes it back to where it could *)
(* get another initial payment, or loses its coin.                         *)
THEOREM NoStepBackHolds == AirSpec => NoStepBack
<1> DEFINE Forward ==
      Undisturbed =>
        \A i \in Rows :
          /\ session[i].state > READY => session'[i].state > READY
          /\ session[i].coin # NoCoin => session'[i].coin = session[i].coin
<1>1. BaseInv /\ PatientInv /\ [AirNext]_airVars => [Forward]_airVars
  <2> SUFFICES ASSUME BaseInv, PatientInv, [AirNext]_airVars, Undisturbed,
                      NEW i \in Rows
               PROVE  /\ session[i].state > READY => session'[i].state > READY
                      /\ session[i].coin # NoCoin => session'[i].coin = session[i].coin
    OBVIOUS
  <2>1. Patient
    BY DEF PatientInv
  <2>2. CASE UNCHANGED rowVars
    BY <2>2 DEF rowVars
  <2>3. ASSUME NEW h \in Workers, CreateSession(h)
        PROVE  session'[i] = session[i]
    BY <2>1, <2>3, OpensOnly
  <2>4. ASSUME NEW h \in Workers, Saves(h)
        PROVE  /\ session[i].state > READY => session'[i].state > READY
               /\ session[i].coin # NoCoin => session'[i].coin = session[i].coin
    BY <2>1, <2>4, SavesForward DEF RowSaved
  <2> QED
    BY <2>2, <2>3, <2>4, RowsSteps
<1> QED
  BY <1>1, BaseInvariant, PatientInvariant, PTL DEF AirSpec, NoStepBack

-----------------------------------------------------------------------------
(* The quota: between the check and the saving of the row it counts, a     *)
(* handler holds a place that the check of another does not see.           *)

(* Handlers past the check that have not paid yet. *)
Offering == {h \in Workers : At(h, "initial")}

(* Handlers that have paid and not saved their row yet. *)
Saving ==
  {h \in Workers :
     /\ At(h, "save")
     /\ job[h].state = WAITING_FOR_PAYMENT
     /\ session[job[h].row].state = READY}

StartedRows == {i \in Rows : session[i].state > READY}

QuotaOK ==
  /\ IsFiniteSet(Units(initial))
  /\ Total(initial) <= Cardinality(StartedRows) + Cardinality(Saving)
  /\ InitialCoinLimit > 0 =>
       Total(initial) + Cardinality(Offering)
         <= InitialCoinLimit + Cardinality(Workers) - 1

QuotaInv == Undisturbed => QuotaOK

QuotaCounts ==
  /\ IsFiniteSet(Offering) /\ IsFiniteSet(Saving) /\ IsFiniteSet(StartedRows)
  /\ Cardinality(Offering) \in Nat /\ Cardinality(Saving) \in Nat
  /\ Cardinality(StartedRows) \in Nat
  /\ Cardinality(Workers) \in Nat /\ InitialCoinLimit \in Nat

LEMMA QuotaFinite ==
  ASSUME RowsTyped
  PROVE  QuotaCounts
<1>1. IsFiniteSet(Rows)
  <2>1. Rows = 1 .. Len(session) /\ Len(session) \in Nat
    BY DEF RowsTyped, Rows
  <2> QED
    BY <2>1, FS_Interval
<1>2. IsFiniteSet(Workers) /\ IsFiniteSet(Coins)
  BY PoolFinite
<1>3. IsFiniteSet(Offering) /\ IsFiniteSet(Saving)
  <2>1. Offering \in SUBSET Workers /\ Saving \in SUBSET Workers
    BY DEF Offering, Saving
  <2> QED
    BY <2>1, <1>2, FS_Subset
<1>4. IsFiniteSet(StartedRows)
  <2>1. StartedRows \in SUBSET Rows
    BY DEF StartedRows
  <2> QED
    BY <2>1, <1>1, FS_Subset
<1>5. InitialCoinLimit \in Nat
  BY <1>2, NumberAvailableType, TotalFinite, TotalType DEF InitialCoinLimit
<1> QED
  BY <1>2, <1>3, <1>4, <1>5, FS_CardinalityType DEF QuotaCounts

LEMMA QuotaFiniteNext == RowsTyped' => QuotaCounts'
<1>1. RowsTyped => QuotaCounts
  BY QuotaFinite
<1> QED
  BY <1>1, PTL

LEMMA StartedStays ==
  ASSUME BaseInv, Patient, [AirNext]_airVars
  PROVE  StartedRows \in SUBSET StartedRows'
<1>1. ASSUME NEW i \in Rows, session[i].state > READY
      PROVE  i \in Rows' /\ session'[i].state > READY
  <2>1. CASE UNCHANGED rowVars
    BY <1>1, <2>1 DEF rowVars, Rows
  <2>2. ASSUME NEW h \in Workers, CreateSession(h)
        PROVE  i \in Rows' /\ session'[i].state > READY
    BY <1>1, <2>2, OpensOnly
  <2>3. ASSUME NEW h \in Workers, Saves(h)
        PROVE  i \in Rows' /\ session'[i].state > READY
    BY <1>1, <2>3, SavesForward DEF RowSaved
  <2> QED
    BY <2>1, <2>2, <2>3, RowsSteps
<1> QED
  BY <1>1 DEF StartedRows

LEMMA SavingStays ==
  ASSUME BaseInv, Patient, Calm, ~Disturbs, [AirNext]_airVars, NEW h \in Saving
  PROVE  h \in Saving' \/ Save(h)
<1>1. h \in Workers /\ At(h, "save")
  BY DEF Saving
<1>2. CASE job'[h] # job[h]
  BY <1>1, <1>2, SavesSoon
<1>3. CASE job'[h] = job[h]
  <2>1. SameRows(job[h].customer)
    BY <1>1, <1>3, CustomerKept DEF Patient, At
  <2>2. job[h].row \in Rows /\ session[job[h].row].customer = job[h].customer
    BY <1>1, RowKnown DEF BaseInv, At, RowSteps
  <2>3. session'[job[h].row] = session[job[h].row]
    BY <2>1, <2>2 DEF SameRows
  <2> QED
    BY <1>1, <1>3, <2>3 DEF Saving, At
<1> QED
  BY <1>2, <1>3

LEMMA OffersNow ==
  ASSUME BaseInv, Calm, ~Disturbs, [AirNext]_airVars, NEW h \in Offering'
  PROVE  h \in Offering \/ Offer(h)
<1>0. /\ TypeOK /\ RowsTyped /\ JobInv /\ JobsTyped
      /\ h \in Workers /\ job'[h].step = "initial"
  BY DEF BaseInv, JobInv, Offering, At
<1>1. CASE job'[h] = job[h]
  BY <1>0, <1>1 DEF Offering, At
<1>2. ASSUME NEW c \in Customers, ReceiveChat(h, c) \/ ReceivePayment(h, c)
      PROVE  FALSE
  <2>1. "route" \in JobSteps /\ "payment" \in JobSteps
    BY DEF JobSteps
  <2> QED
    BY <1>0, <1>2, <2>1, ReceiveDoes, ZenonT(40) DEF ReceiveChat, ReceivePayment, Becomes
<1>3. CASE Chat(h)
  <2>1. CASE \/ Decline(h) \/ RejectOverQuota(h) \/ CreateSession(h)
             \/ ExplainPayment(h) \/ HelpContact(h) \/ Save(h)
    <3>1. Done(h)
      BY <2>1 DEF Decline, RejectOverQuota, CreateSession, ExplainPayment,
                  HelpContact, Save, Finish
    <3> QED
      BY <3>1, <1>0, DoneDoes DEF Finishes, Becomes
  <2>2. CASE Route(h) \/ Welcome(h) \/ CheckQuota(h) \/ GetSession(h)
    BY <2>2, <1>0, RouteDoes, WelcomeDoes, CheckQuotaDoes, GetSessionDoes
    DEF Moves, Sets, Finishes, Becomes
  <2>3. CASE HandleOverQuota(h) \/ AnswerReady(h) \/ SendInitial(h) \/ AnswerContact(h)
    BY <2>3, <1>0, HandleOverQuotaDoes, AnswerReadyDoes, SendInitialDoes,
       AnswerContactDoes
    DEF Moves, Sets, Sends, Finishes, Becomes
  <2> QED
    BY <1>3, <2>1, <2>2, <2>3 DEF Chat
<1>4. CASE Payment(h) /\ job'[h] # job[h]
  <2>1. CASE IgnoreFailed(h) \/ KeepSmall(h) \/ End(h)
    <3>1. Done(h)
      BY <2>1 DEF IgnoreFailed, KeepSmall, End, Finish
    <3> QED
      BY <3>1, <1>0, DoneDoes DEF Finishes, Becomes
  <2>2. CASE \/ FindUnsolicited(h) \/ FindWaiting(h) \/ RefundUnsolicited(h)
             \/ RefundFunds(h) \/ RefundSoldOut(h) \/ LeaveExcept(h)
    BY <2>2, <1>0, FindUnsolicitedDoes, FindWaitingDoes, RefundUnsolicitedDoes,
       RefundFundsDoes, RefundSoldOutDoes, LeaveExceptDoes
    DEF Moves, Sets, Sends, Finishes, Becomes
  <2>3. CASE \/ TakeCoin(h) \/ TakeNothing(h) \/ CheckFunds(h) \/ SendBonus(h)
             \/ CheckPreferences(h)
    BY <2>3, <1>0, TakeCoinDoes, TakeNothingDoes, CheckFundsDoes, SendBonusDoes,
       CheckPreferencesDoes
    DEF Moves, Sets, Sends, Finishes, Becomes
  <2>4. CASE SaveClaim(h, "save_coin", "funds") \/ SaveClaim(h, "save_sold_out", "except")
    <3>1. Moves(h, "funds") \/ Moves(h, "except")
      BY <2>4, <1>0, GotoDoes DEF SaveClaim, JobSteps
    <3> QED
      BY <3>1, <1>0 DEF Moves, Sets, Becomes
  <2>5. CASE Claim(h)
    BY <1>4, <2>5 DEF Claim
  <2> QED
    BY <1>4, <2>1, <2>2, <2>3, <2>4, <2>5 DEF Payment
<1> QED
  BY <1>0, <1>1, <1>2, <1>3, <1>4, CalmTurn

(* An initial payment moves a handler from the one set to the other. *)
LEMMA QuotaAtPayment ==
  ASSUME BaseInv, Patient, QuotaOK, Calm, ~Disturbs, [AirNext]_airVars,
         NEW h \in Workers, SendInitial(h)
  PROVE  QuotaOK'
<1>0. /\ RowsTyped /\ RowsTyped' /\ JobsTyped /\ Counts /\ JobInv /\ RowInv
      /\ JobOK(job[h]) /\ CopyOK(h)
  BY BaseStep DEF BaseInv, JobInv, Patient
<1>1. /\ At(h, "initial") /\ rowVars' = rowVars
      /\ Sends(h, WAITING_FOR_PAYMENT, "save")
      /\ initial' = [initial EXCEPT ![job[h].customer] = @ + 1]
  BY <1>0, InitialPaidOnce
<1>2. /\ job[h].customer \in Customers
      /\ session[job[h].row].state = READY
  BY <1>0, <1>1, CustomerKnown DEF CopyOK, JobOK, At
<1>3. IsFiniteSet(Units(initial)') /\ Total(initial)' = Total(initial) + 1
  <2>1. initial \in [Customers -> Nat] /\ IsFiniteSet(Units(initial))
    BY <1>0 DEF Counts, QuotaOK
  <2>2. IsFiniteSet(Units(initial')) /\ Total(initial') = Total(initial) + 1
    <3> DEFINE k == 1
               c == job[h].customer
    <3>1. /\ k \in Nat /\ c \in Customers /\ initial' \in [Customers -> Nat]
          /\ initial'[c] = initial[c] + k
          /\ \A d \in Customers \ {c} : initial'[d] = initial[d]
      BY <1>1, <1>2, <2>1
    <3> HIDE DEF k, c
    <3>2. IsFiniteSet(Units(initial')) /\ Total(initial') = Total(initial) + k
      BY <3>1, <2>1, TotalAdd
    <3> QED
      BY <3>2 DEF k
  <2> QED
    BY <2>2
<1>4. StartedRows' = StartedRows
  BY <1>1 DEF StartedRows, rowVars, Rows
<1>5. h \in Saving' /\ Saving \in SUBSET (Saving' \ {h})
  <2>1. h \notin Saving
    BY <1>1 DEF Saving, At
  <2>2. h \in Saving'
    BY <1>1, <1>2 DEF Saving, Sends, Becomes, rowVars, At
  <2>3. ~Save(h)
    BY <1>1 DEF Save, At
  <2>4. ASSUME NEW g \in Saving
        PROVE  g \in Saving'
    <3>1. g # h /\ g \in Workers
      BY <2>1, <2>4 DEF Saving
    <3>2. job'[g] = job[g]
      BY <1>1, <3>1 DEF Sends, Becomes
    <3> QED
      BY <2>4, <3>1, <3>2, <1>1 DEF Saving, rowVars, At
  <2> QED
    BY <2>1, <2>2, <2>4
<1>6. Cardinality(Saving) + 1 <= Cardinality(Saving')
  BY <1>0, <1>5, QuotaFiniteNext, OneLess DEF QuotaCounts
<1>7. h \in Offering /\ Offering' \in SUBSET (Offering \ {h})
  BY <1>1 DEF Offering, Sends, Becomes, At
<1>8. Cardinality(Offering') + 1 <= Cardinality(Offering)
  BY <1>0, <1>7, QuotaFinite, OneLess DEF QuotaCounts
<1>9. Total(initial) \in Nat
  BY TotalType DEF QuotaOK
<1>10. /\ Cardinality(Offering) \in Nat /\ Cardinality(Saving) \in Nat
       /\ Cardinality(StartedRows) \in Nat
       /\ Cardinality(Workers) \in Nat /\ InitialCoinLimit \in Nat
  BY <1>0, QuotaFinite DEF QuotaCounts
<1>11. /\ Cardinality(Offering') \in Nat /\ Cardinality(Saving') \in Nat
  BY <1>0, QuotaFiniteNext DEF QuotaCounts
<1>12. InitialCoinLimit' = InitialCoinLimit
  BY DEF InitialCoinLimit
<1>13. /\ Total(initial) <= Cardinality(StartedRows) + Cardinality(Saving)
       /\ InitialCoinLimit > 0 =>
            Total(initial) + Cardinality(Offering)
              <= InitialCoinLimit + Cardinality(Workers) - 1
  BY DEF QuotaOK
<1>14. Total(initial)' <= Cardinality(StartedRows') + Cardinality(Saving')
  BY <1>3, <1>4, <1>6, <1>9, <1>10, <1>11, <1>13
<1>15. InitialCoinLimit > 0 =>
         Total(initial)' + Cardinality(Offering')
           <= InitialCoinLimit + Cardinality(Workers) - 1
  BY <1>3, <1>8, <1>9, <1>10, <1>11, <1>13
<1> QED
  BY <1>3, <1>12, <1>14, <1>15 DEF QuotaOK

(* What is paid is started, or about to be saved as started. *)
LEMMA StartedEnough ==
  ASSUME BaseInv, Patient, Calm, ~Disturbs, [AirNext]_airVars
  PROVE  Cardinality(StartedRows) + Cardinality(Saving)
           <= Cardinality(StartedRows') + Cardinality(Saving')
<1>0. RowsTyped /\ RowsTyped' /\ JobInv
  BY BaseStep DEF BaseInv
<1>1. /\ IsFiniteSet(Saving) /\ IsFiniteSet(StartedRows)
      /\ Cardinality(Saving) \in Nat /\ Cardinality(StartedRows) \in Nat
  BY <1>0, QuotaFinite DEF QuotaCounts
<1>2. /\ IsFiniteSet(Saving') /\ IsFiniteSet(StartedRows')
      /\ Cardinality(Saving') \in Nat /\ Cardinality(StartedRows') \in Nat
  BY <1>0, QuotaFiniteNext DEF QuotaCounts
<1>3. StartedRows \in SUBSET StartedRows'
  BY StartedStays
<1>4. CASE \E h \in Saving : Save(h)
  <2>1. PICK h \in Saving : Save(h)
    BY <1>4
  <2>2. \A g \in Saving : g # h => g \in Saving'
    <3>1. ASSUME NEW g \in Saving, g # h
          PROVE  ~Save(g)
      <4>1. g \in Workers /\ h \in Workers /\ At(g, "save") /\ At(h, "save")
        BY <2>1 DEF Saving
      <4>2. job'[g] = job[g]
        BY <2>1, <3>1, <4>1, <1>0, DoneDoes DEF Save, Finish, Finishes, Becomes, JobInv
      <4> QED
        BY <4>1, <4>2, <1>0, SavesMoves DEF Saves, JobInv
    <3> QED
      BY <3>1, SavingStays
  <2>3. Saving \in SUBSET (Saving' \cup {h})
    BY <2>2
  <2>4. Cardinality(Saving) <= Cardinality(Saving') + 1
    BY <2>3, <1>2, OneMore
  <2>5. /\ job[h].row \in StartedRows'
        /\ job[h].row \notin StartedRows
    <3>1. h \in Workers /\ job[h].state = WAITING_FOR_PAYMENT
          /\ session[job[h].row].state = READY
      BY <2>1 DEF Saving
    <3>2. job[h].row \in Rows /\ RowSaved(h)
      BY <2>1, <3>1, SavesForward DEF Saves
    <3> QED
      BY <3>1, <3>2 DEF RowSaved, StartedRows, READY, WAITING_FOR_PAYMENT
  <2>6. Cardinality(StartedRows) + 1 <= Cardinality(StartedRows')
    <3>1. StartedRows \in SUBSET (StartedRows' \ {job[h].row})
      BY <1>3, <2>5
    <3> QED
      BY <3>1, <2>5, <1>2, OneLess
  <2> QED
    BY <2>4, <2>6, <1>1, <1>2
<1>5. CASE \A h \in Saving : ~Save(h)
  <2>1. Saving \in SUBSET Saving'
    BY <1>5, SavingStays
  <2>2. /\ Cardinality(Saving) <= Cardinality(Saving')
        /\ Cardinality(StartedRows) <= Cardinality(StartedRows')
    BY <2>1, <1>2, <1>3, NoMore
  <2> QED
    BY <2>2, <1>1, <1>2
<1> QED
  BY <1>4, <1>5

LEMMA QuotaElse ==
  ASSUME BaseInv, Patient, QuotaOK, Calm, ~Disturbs, [AirNext]_airVars,
         initial' = initial
  PROVE  QuotaOK'
<1>0. RowsTyped /\ RowsTyped' /\ JobInv /\ JobsTyped
  BY BaseStep DEF BaseInv, JobInv
<1>1. /\ IsFiniteSet(Units(initial))
      /\ Total(initial) \in Nat
      /\ Total(initial) <= Cardinality(StartedRows) + Cardinality(Saving)
      /\ InitialCoinLimit > 0 =>
           Total(initial) + Cardinality(Offering)
             <= InitialCoinLimit + Cardinality(Workers) - 1
  BY TotalType DEF QuotaOK
<1>2. /\ IsFiniteSet(Offering) /\ IsFiniteSet(Saving)
      /\ Cardinality(Offering) \in Nat /\ Cardinality(Saving) \in Nat
      /\ Cardinality(StartedRows) \in Nat
      /\ Cardinality(Workers) \in Nat /\ InitialCoinLimit \in Nat
  BY <1>0, QuotaFinite DEF QuotaCounts
<1>3. /\ IsFiniteSet(Offering') /\ Cardinality(Offering') \in Nat
      /\ Cardinality(Saving') \in Nat /\ Cardinality(StartedRows') \in Nat
  BY <1>0, QuotaFiniteNext DEF QuotaCounts
<1>4. Total(initial) <= Cardinality(StartedRows') + Cardinality(Saving')
  BY <1>1, <1>2, <1>3, StartedEnough
<1>5. InitialCoinLimit > 0 =>
        Total(initial) + Cardinality(Offering')
          <= InitialCoinLimit + Cardinality(Workers) - 1
  <2>1. CASE \E h \in Workers : Offer(h) /\ job'[h].step = "initial"
    <3>1. Cardinality(StartedRows) < InitialCoinLimit
      <4>1. PICK h \in Workers : Offer(h) /\ job'[h].step = "initial"
        BY <2>1
      <4>2. Started < InitialCoinLimit
        BY <4>1, <1>0, OfferDoes DEF Sets, Becomes
      <4> QED
        BY <4>2 DEF Started, StartedRows
    <3>2. Offering' \cap Saving = {}
      <4> SUFFICES ASSUME NEW h \in Saving, h \in Offering'
                   PROVE  FALSE
        OBVIOUS
      <4>1. h \in Workers /\ At(h, "save") /\ job'[h].step = "initial"
        BY DEF Saving, Offering, At
      <4>2. Offer(h)
        BY <4>1, OffersNow DEF Offering, At
      <4> QED
        BY <4>1, <4>2 DEF Offer, At
    <3>3. Cardinality(Offering') + Cardinality(Saving) <= Cardinality(Workers)
      <4>1. Offering' \cup Saving \in SUBSET Workers
        BY DEF Offering, Saving
      <4>2. Cardinality(Offering' \cup Saving) <= Cardinality(Workers)
        BY <4>1, PoolFinite, NoMore
      <4>3. Cardinality(Offering' \cup Saving)
              = Cardinality(Offering') + Cardinality(Saving) - Cardinality(Offering' \cap Saving)
        BY <1>2, <1>3, FS_Union
      <4>4. Cardinality(Offering' \cap Saving) = 0
        BY <3>2, FS_EmptySet
      <4> QED
        BY <4>2, <4>3, <4>4, <1>2, <1>3
    <3> QED
      BY <3>1, <3>3, <1>1, <1>2, <1>3
  <2>2. CASE \A h \in Workers : ~(Offer(h) /\ job'[h].step = "initial")
    <3>1. ASSUME NEW h \in Offering'
          PROVE  h \in Offering
      <4>1. h \in Workers /\ job'[h].step = "initial"
        BY DEF Offering, At
      <4> QED
        BY <4>1, <2>2, OffersNow
    <3>2. Cardinality(Offering') <= Cardinality(Offering)
      BY <3>1, <1>2, NoMore
    <3> QED
      BY <3>2, <1>1, <1>2, <1>3
  <2> QED
    BY <2>1, <2>2
<1>6. /\ Units(initial)' = Units(initial) /\ Total(initial)' = Total(initial)
      /\ InitialCoinLimit' = InitialCoinLimit
  BY DEF Units, UnitsAt, Total, InitialCoinLimit
<1> QED
  BY <1>1, <1>4, <1>5, <1>6 DEF QuotaOK

LEMMA QuotaStep ==
  ASSUME BaseInv, PatientInv, QuotaInv, [AirNext]_airVars
  PROVE  QuotaInv'
<1> SUFFICES ASSUME Undisturbed'
             PROVE  QuotaOK'
  BY DEF QuotaInv
<1>1. Calm /\ ~Disturbs /\ Patient /\ QuotaOK
  BY CalmStep DEF BaseInv, PatientInv, QuotaInv, Calm
<1> QED
  BY <1>1, InitialSteps, QuotaAtPayment, QuotaElse

LEMMA QuotaInit == AirInit => QuotaInv
<1> SUFFICES ASSUME AirInit
             PROVE  QuotaOK
  BY DEF QuotaInv
<1>1. /\ Rows = {} /\ session = <<>> /\ recent = <<>>
      /\ job = [h \in Workers |-> NoJob]
      /\ initial = [c \in Customers |-> 0]
  BY DEF AirInit, Rows
<1>2. Offering = {} /\ Saving = {} /\ StartedRows = {}
  BY <1>1 DEF Offering, Saving, StartedRows, NoJob, At
<1>3. IsFiniteSet(Units(initial)) /\ Total(initial) = 0
  BY <1>1, TotalZero
<1>4. Cardinality({}) = 0
  BY FS_EmptySet
<1>5. Cardinality(Workers) \in Nat /\ InitialCoinLimit \in Nat
  BY BaseInit, QuotaFinite DEF BaseInv, QuotaCounts
<1> QED
  BY <1>2, <1>3, <1>4, <1>5 DEF QuotaOK

(* While nothing is disturbed, every initial payment is counted by a row   *)
(* or by the handler that is about to save one, and the handlers past the  *)
(* check hold no more places than there are handlers.                      *)
THEOREM QuotaInvariant == AirSpec => []QuotaInv
<1>1. BaseInv /\ PatientInv /\ QuotaInv /\ [AirNext]_airVars => QuotaInv'
  BY QuotaStep
<1> QED
  BY <1>1, QuotaInit, BaseInvariant, PatientInvariant, PTL DEF AirSpec

(* The initial payments pass the limit by no more than the threads that    *)
(* can be between the check and the row it counts, but for one.            *)
THEOREM BoundedOvershootHolds == AirSpec => []BoundedOvershoot
<1>1. BaseInv /\ QuotaInv => BoundedOvershoot
  <2> SUFFICES ASSUME BaseInv, QuotaInv, Undisturbed, InitialCoinLimit > 0
               PROVE  Total(initial) <= InitialCoinLimit + Cardinality(Workers) - 1
    BY DEF BoundedOvershoot, InitialPaid
  <2>1. /\ IsFiniteSet(Units(initial))
        /\ Total(initial) + Cardinality(Offering)
             <= InitialCoinLimit + Cardinality(Workers) - 1
    BY DEF QuotaInv, QuotaOK
  <2>2. /\ Total(initial) \in Nat /\ Cardinality(Offering) \in Nat
        /\ Cardinality(Workers) \in Nat /\ InitialCoinLimit \in Nat
    BY <2>1, TotalType, QuotaFinite DEF BaseInv, QuotaCounts
  <2> QED
    BY <2>1, <2>2
<1> QED
  BY <1>1, BaseInvariant, QuotaInvariant, PTL
=============================================================================
