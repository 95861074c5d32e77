--------------------------- MODULE PaymentsProofs ---------------------------
(***************************************************************************)
(* Proofs about module Payments, for any number of calls, any funds and    *)
(* any number of faults.                                                   *)
(***************************************************************************)
EXTENDS Payments, TLAPS

(* Every variable keeps its type; the wallet is not overdrawn, as every    *)
(* transaction is built from its funds (send_mob_to_address).              *)
THEOREM TypeCorrect == Spec => []TypeOK
<1>1. Init => TypeOK
  BY PaymentsBounds DEF Init, TypeOK, Steps, Running, PaymentStatus, TxoStates
<1>2. TypeOK /\ [Next]_vars => TypeOK'
  <2> SUFFICES ASSUME TypeOK, [Next]_vars
               PROVE  TypeOK'
    OBVIOUS
  <2> USE PaymentsBounds
      DEF TypeOK, Steps, Running, PaymentStatus, TxoStates
  <2>1. CASE UNCHANGED vars
    BY <2>1 DEF vars
  <2>2. ASSUME NEW c \in Calls, GetAddress(c)
        PROVE  TypeOK'
    BY <2>2 DEF GetAddress, Move
  <2>3. ASSUME NEW c \in Calls, FindNoAddress(c)
        PROVE  TypeOK'
    BY <2>3 DEF FindNoAddress, Move
  <2>4. ASSUME NEW c \in Calls, TellDeactivated(c)
        PROVE  TypeOK'
    BY <2>4 DEF TellDeactivated, Move
  <2>5. ASSUME NEW c \in Calls, Submit(c)
        PROVE  TypeOK'
    BY <2>5 DEF Submit, Move, Transact, Funded
  <2>6. ASSUME NEW c \in Calls, GetTxo(c)
        PROVE  TypeOK'
    BY <2>6 DEF GetTxo, Move
  <2>7. ASSUME NEW c \in Calls, SendReceipt(c)
        PROVE  TypeOK'
    BY <2>7 DEF SendReceipt, Move
  <2>8. ASSUME NEW c \in Calls, StoreReceipt(c)
        PROVE  TypeOK'
    BY <2>8 DEF StoreReceipt, Move, SetPayment
  <2>9. ASSUME NEW c \in Calls, Apologise(c)
        PROVE  TypeOK'
    BY <2>9 DEF Apologise, Move
  <2>10. ASSUME NEW c \in Calls, SavePayment(c)
        PROVE  TypeOK'
    BY <2>10 DEF SavePayment, Move
  <2>11. ASSUME NEW c \in Calls, LogResponse(c)
        PROVE  TypeOK'
    BY <2>11 DEF LogResponse, Move
  <2>12. ASSUME NEW c \in Calls, Land(c)
        PROVE  TypeOK'
    BY <2>12 DEF Land
  <2>13. ASSUME NEW c \in Calls, CatchFailure(c)
        PROVE  TypeOK'
    BY <2>13 DEF CatchFailure, Move, Fault, SetPayment
  <2>14. ASSUME NEW c \in Calls, SubmitUnheard(c)
        PROVE  TypeOK'
    BY <2>14 DEF SubmitUnheard, Move, Transact, Funded, Fault
  <2>15. ASSUME NEW c \in Calls, BuildFails(c)
        PROVE  TypeOK'
    BY <2>15 DEF BuildFails, Move, Fault
  <2>16. ASSUME NEW c \in Calls, Expire(c)
        PROVE  TypeOK'
    BY <2>16 DEF Expire, Fault
  <2>17. ASSUME NEW c \in Calls, ReceiptFails(c)
        PROVE  TypeOK'
    BY <2>17 DEF ReceiptFails, Move, Fault
  <2>18. ASSUME NEW c \in Calls, StoreFails(c)
        PROVE  TypeOK'
    BY <2>18 DEF StoreFails, Move, Fault
  <2>19. ASSUME NEW c \in Calls, ApologyFails(c)
        PROVE  TypeOK'
    BY <2>19 DEF ApologyFails, Move, Fault
  <2>20. ASSUME NEW c \in Calls, RecordFails(c)
        PROVE  TypeOK'
    BY <2>20 DEF RecordFails, Move, Fault
  <2>21. ASSUME NEW c \in Calls, FindInvalidAddress(c)
        PROVE  TypeOK'
    BY <2>21 DEF FindInvalidAddress, Move
  <2> QED
    BY <2>1, <2>2, <2>3, <2>4, <2>5, <2>6, <2>7, <2>8, <2>9, <2>10, <2>11,
    <2>12, <2>13, <2>14, <2>15, <2>16, <2>17, <2>18, <2>19, <2>20, <2>21
    DEF Next, Go, Fail
<1> QED
  BY <1>1, <1>2, PTL DEF Spec

-----------------------------------------------------------------------------
Settled(c) == submitted[c] > 0 /\ txo[c] = "landed" /\ c \in informed

(* What a call has done by each of its steps.  Going back to "build" costs *)
(* a fault each time, so the transactions submitted by then are faults.    *)
CallInv ==
  \A c \in Calls :
    /\ step[c] \in Running \ {"save", "log"} => payment[c] = "none"
    /\ step[c] \in {"save", "log", "returned"} => payment[c] # "none"
    /\ step[c] \in {"address", "deactivated", "invalid"} => submitted[c] = 0
    /\ step[c] \in {"land", "receipt", "store", "apologise"} => submitted[c] > 0
    /\ step[c] \in {"receipt", "store", "apologise"} => txo[c] = "landed"
    /\ step[c] \in {"store", "apologise"} => c \in informed
    /\ payment[c] = "Failure" => submitted[c] = 0
    /\ payment[c] = "TransactionSuccess" => Settled(c)
    /\ row[c] \in {"none", payment[c]}
    /\ step[c] = "build" => submitted[c] <= faults
    /\ submitted[c] <= 1 + faults

(* CallInv is an invariant: each step of a call leaves what its successor  *)
(* relies on, the retries of send_mob_to_address included.                 *)
THEOREM CallInvariant == Spec => [](TypeOK /\ CallInv)
<1>1. Init => CallInv
  <2> SUFFICES ASSUME Init, NEW c \in Calls
               PROVE  CallInv!(c)
    BY DEF CallInv
  <2>1. step[c] = "address" /\ payment[c] = "none" /\ row[c] = "none"
        /\ submitted[c] = 0 /\ faults = 0
    BY DEF Init
  <2> QED
    BY <2>1
<1>2. TypeOK /\ CallInv /\ [Next]_vars => CallInv'
  <2> SUFFICES ASSUME TypeOK, CallInv, [Next]_vars
               PROVE  CallInv'
    OBVIOUS
  <2> USE PaymentsBounds DEF TypeOK, CallInv, Steps, Running, PaymentStatus,
        TxoStates, Settled
  <2>1. CASE UNCHANGED vars
    BY <2>1 DEF vars
  <2>2. ASSUME NEW c \in Calls, GetAddress(c)
        PROVE  CallInv'
    BY <2>2 DEF GetAddress, Move
  <2>3. ASSUME NEW c \in Calls, FindNoAddress(c)
        PROVE  CallInv'
    BY <2>3 DEF FindNoAddress, Move
  <2>4. ASSUME NEW c \in Calls, TellDeactivated(c)
        PROVE  CallInv'
    BY <2>4 DEF TellDeactivated, Move
  <2>5. ASSUME NEW c \in Calls, Submit(c)
        PROVE  CallInv'
    BY <2>5 DEF Submit, Move, Transact, Funded
  <2>6. ASSUME NEW c \in Calls, GetTxo(c)
        PROVE  CallInv'
    BY <2>6 DEF GetTxo, Move
  <2>7. ASSUME NEW c \in Calls, SendReceipt(c)
        PROVE  CallInv'
    BY <2>7 DEF SendReceipt, Move
  <2>8. ASSUME NEW c \in Calls, StoreReceipt(c)
        PROVE  CallInv'
    BY <2>8 DEF StoreReceipt, Move, SetPayment
  <2>9. ASSUME NEW c \in Calls, Apologise(c)
        PROVE  CallInv'
    BY <2>9 DEF Apologise, Move
  <2>10. ASSUME NEW c \in Calls, SavePayment(c)
        PROVE  CallInv'
    BY <2>10 DEF SavePayment, Move
  <2>11. ASSUME NEW c \in Calls, LogResponse(c)
        PROVE  CallInv'
    BY <2>11 DEF LogResponse, Move
  <2>12. ASSUME NEW c \in Calls, Land(c)
        PROVE  CallInv'
    BY <2>12 DEF Land
  <2>13. ASSUME NEW c \in Calls, CatchFailure(c)
        PROVE  CallInv'
    BY <2>13 DEF CatchFailure, Move, Fault, SetPayment
  <2>14. ASSUME NEW c \in Calls, SubmitUnheard(c)
        PROVE  CallInv'
    BY <2>14 DEF SubmitUnheard, Move, Transact, Funded, Fault
  <2>15. ASSUME NEW c \in Calls, BuildFails(c)
        PROVE  CallInv'
    BY <2>15 DEF BuildFails, Move, Fault
  <2>16. ASSUME NEW c \in Calls, Expire(c)
        PROVE  CallInv'
    BY <2>16 DEF Expire, Fault
  <2>17. ASSUME NEW c \in Calls, ReceiptFails(c)
        PROVE  CallInv'
    BY <2>17 DEF ReceiptFails, Move, Fault
  <2>18. ASSUME NEW c \in Calls, StoreFails(c)
        PROVE  CallInv'
    BY <2>18 DEF StoreFails, Move, Fault
  <2>19. ASSUME NEW c \in Calls, ApologyFails(c)
        PROVE  CallInv'
    BY <2>19 DEF ApologyFails, Move, Fault
  <2>20. ASSUME NEW c \in Calls, RecordFails(c)
        PROVE  CallInv'
    BY <2>20 DEF RecordFails, Move, Fault
  <2>21. ASSUME NEW c \in Calls, FindInvalidAddress(c)
        PROVE  CallInv'
    BY <2>21 DEF FindInvalidAddress, Move
  <2> QED
    BY <2>1, <2>2, <2>3, <2>4, <2>5, <2>6, <2>7, <2>8, <2>9, <2>10, <2>11,
    <2>12, <2>13, <2>14, <2>15, <2>16, <2>17, <2>18, <2>19, <2>20, <2>21
    DEF Next, Go, Fail
<1> QED
  BY <1>1, <1>2, TypeCorrect, PTL DEF Spec

(* The retries of send_mob_to_address pay at most once per fault more than *)
(* they should.                                                            *)
THEOREM PaymentsBoundedHolds == Spec => []PaymentsBounded
<1>1. CallInv => PaymentsBounded
  BY DEF CallInv, PaymentsBounded
<1> QED
  BY <1>1, CallInvariant, PTL

(* A recorded success is in the ledger, and the customer has the receipt.  *)
THEOREM SuccessIsTrueHolds == Spec => []SuccessIsTrue
<1>1. TypeOK /\ CallInv => SuccessIsTrue
  BY DEF TypeOK, CallInv, SuccessIsTrue, Settled
<1> QED
  BY <1>1, CallInvariant, PTL

(* A recorded failure has moved no money.                                  *)
THEOREM FailureIsTrueHolds == Spec => []FailureIsTrue
<1>1. TypeOK /\ CallInv => FailureIsTrue
  BY DEF TypeOK, CallInv, FailureIsTrue
<1> QED
  BY <1>1, CallInvariant, PTL

-----------------------------------------------------------------------------
(* send_reply_payment implements what its callers are modelled to expect   *)
(* of it (air_drop_session.py and item_drop_session.py, by way of AirDrop  *)
(* and ItemDrop): however its requests fail, a step is a transfer, a new   *)
(* start, an outcome, a failed request or a stutter.                       *)
THEOREM ReplyPromiseHolds == Spec => ReplyPromise
<1>1. Init => Reply!Init
  BY DEF Init, Reply!Init, OutcomeOf, Due
<1>2. TypeOK /\ CallInv /\ [Next]_vars => [Reply!Next]_(Reply!vars)
  <2> SUFFICES ASSUME TypeOK, CallInv, [Next]_vars
               PROVE  [Reply!Next]_(Reply!vars)
    OBVIOUS
  <2> DEFINE outcome == [c \in Calls |-> OutcomeOf(c)]
             seen == <<submitted, Due, outcome>>
  <2>1. CASE UNCHANGED vars
    BY <2>1 DEF vars, Reply!vars, OutcomeOf, Due
  <2>2. ASSUME NEW c \in Calls, GetAddress(c)
        PROVE  UNCHANGED <<seen, faults>>
    <3>1. UNCHANGED <<submitted, faults>>
      BY <2>2 DEF GetAddress, Move
    <3>2. UNCHANGED Due
      BY <2>2 DEF GetAddress, Move, TypeOK, CallInv, Due
    <3>3. UNCHANGED outcome
      BY <2>2 DEF GetAddress, Move, TypeOK, OutcomeOf
    <3> QED
      BY <3>1, <3>2, <3>3
  <2>3. ASSUME NEW c \in Calls, FindNoAddress(c)
        PROVE  UNCHANGED <<seen, faults>>
    <3>1. UNCHANGED <<submitted, faults>>
      BY <2>3 DEF FindNoAddress, Move
    <3>2. UNCHANGED Due
      BY <2>3 DEF FindNoAddress, Move, TypeOK, CallInv, Due
    <3>3. UNCHANGED outcome
      BY <2>3 DEF FindNoAddress, Move, TypeOK, OutcomeOf
    <3> QED
      BY <3>1, <3>2, <3>3
  <2>4. ASSUME NEW c \in Calls, FindInvalidAddress(c)
        PROVE  UNCHANGED <<seen, faults>>
    <3>1. UNCHANGED <<submitted, faults>>
      BY <2>4 DEF FindInvalidAddress, Move
    <3>2. UNCHANGED Due
      BY <2>4 DEF FindInvalidAddress, Move, TypeOK, CallInv, Due
    <3>3. UNCHANGED outcome
      BY <2>4 DEF FindInvalidAddress, Move, TypeOK, OutcomeOf
    <3> QED
      BY <3>1, <3>2, <3>3
  <2>5. ASSUME NEW c \in Calls, GetTxo(c)
        PROVE  UNCHANGED <<seen, faults>>
    <3>1. UNCHANGED <<submitted, faults>>
      BY <2>5 DEF GetTxo, Move
    <3>2. UNCHANGED Due
      BY <2>5 DEF GetTxo, Move, TypeOK, CallInv, Due
    <3>3. UNCHANGED outcome
      BY <2>5 DEF GetTxo, Move, TypeOK, OutcomeOf
    <3> QED
      BY <3>1, <3>2, <3>3
  <2>6. ASSUME NEW c \in Calls, SendReceipt(c)
        PROVE  UNCHANGED <<seen, faults>>
    <3>1. UNCHANGED <<submitted, faults>>
      BY <2>6 DEF SendReceipt, Move
    <3>2. UNCHANGED Due
      BY <2>6 DEF SendReceipt, Move, TypeOK, CallInv, Due
    <3>3. UNCHANGED outcome
      BY <2>6 DEF SendReceipt, Move, TypeOK, OutcomeOf
    <3> QED
      BY <3>1, <3>2, <3>3
  <2>7. ASSUME NEW c \in Calls, StoreReceipt(c)
        PROVE  UNCHANGED <<seen, faults>>
    <3>1. UNCHANGED <<submitted, faults>>
      BY <2>7 DEF StoreReceipt, Move, SetPayment
    <3>2. UNCHANGED Due
      BY <2>7 DEF StoreReceipt, Move, SetPayment, TypeOK, CallInv, Due
    <3>3. UNCHANGED outcome
      BY <2>7 DEF StoreReceipt, Move, SetPayment, TypeOK, OutcomeOf
    <3> QED
      BY <3>1, <3>2, <3>3
  <2>8. ASSUME NEW c \in Calls, SavePayment(c)
        PROVE  UNCHANGED <<seen, faults>>
    <3>1. UNCHANGED <<submitted, faults>>
      BY <2>8 DEF SavePayment, Move
    <3>2. UNCHANGED Due
      BY <2>8 DEF SavePayment, Move, TypeOK, CallInv, Due
    <3>3. UNCHANGED outcome
      BY <2>8 DEF SavePayment, Move, TypeOK, OutcomeOf
    <3> QED
      BY <3>1, <3>2, <3>3
  <2>9. ASSUME NEW c \in Calls, Land(c)
        PROVE  UNCHANGED <<seen, faults>>
    <3>1. UNCHANGED <<submitted, faults>>
      BY <2>9 DEF Land
    <3>2. UNCHANGED Due
      BY <2>9 DEF Land, TypeOK, CallInv, Due
    <3>3. UNCHANGED outcome
      BY <2>9 DEF Land, TypeOK, OutcomeOf
    <3> QED
      BY <3>1, <3>2, <3>3
  <2>10. ASSUME NEW c \in Calls, CatchFailure(c)
        PROVE  Reply!Fault
    <3>1. UNCHANGED submitted /\ faults' = faults + 1
      BY <2>10 DEF CatchFailure, Move, Fault, SetPayment
    <3>2. UNCHANGED Due
      BY <2>10 DEF CatchFailure, Move, Fault, SetPayment, TypeOK, CallInv, Due
    <3>3. UNCHANGED outcome
      BY <2>10 DEF CatchFailure, Move, Fault, SetPayment, TypeOK, OutcomeOf
    <3> QED
      BY <3>1, <3>2, <3>3 DEF Reply!Fault
  <2>11. ASSUME NEW c \in Calls, BuildFails(c)
        PROVE  Reply!Fault
    <3>1. UNCHANGED submitted /\ faults' = faults + 1
      BY <2>11 DEF BuildFails, Move, Fault
    <3>2. UNCHANGED Due
      BY <2>11 DEF BuildFails, Move, Fault, TypeOK, CallInv, Due
    <3>3. UNCHANGED outcome
      BY <2>11 DEF BuildFails, Move, Fault, TypeOK, OutcomeOf
    <3> QED
      BY <3>1, <3>2, <3>3 DEF Reply!Fault
  <2>12. ASSUME NEW c \in Calls, Expire(c)
        PROVE  Reply!Fault
    <3>1. UNCHANGED submitted /\ faults' = faults + 1
      BY <2>12 DEF Expire, Fault
    <3>2. UNCHANGED Due
      BY <2>12 DEF Expire, Fault, TypeOK, CallInv, Due
    <3>3. UNCHANGED outcome
      BY <2>12 DEF Expire, Fault, TypeOK, OutcomeOf
    <3> QED
      BY <3>1, <3>2, <3>3 DEF Reply!Fault
  <2>13. ASSUME NEW c \in Calls, ReceiptFails(c)
        PROVE  Reply!Fault
    <3>1. UNCHANGED submitted /\ faults' = faults + 1
      BY <2>13 DEF ReceiptFails, Move, Fault
    <3>2. UNCHANGED Due
      BY <2>13 DEF ReceiptFails, Move, Fault, TypeOK, CallInv, Due
    <3>3. UNCHANGED outcome
      BY <2>13 DEF ReceiptFails, Move, Fault, TypeOK, OutcomeOf
    <3> QED
      BY <3>1, <3>2, <3>3 DEF Reply!Fault
  <2>14. ASSUME NEW c \in Calls, StoreFails(c)
        PROVE  Reply!Fault
    <3>1. UNCHANGED submitted /\ faults' = faults + 1
      BY <2>14 DEF StoreFails, Move, Fault
    <3>2. UNCHANGED Due
      BY <2>14 DEF StoreFails, Move, Fault, TypeOK, CallInv, Due
    <3>3. UNCHANGED outcome
      BY <2>14 DEF StoreFails, Move, Fault, TypeOK, OutcomeOf
    <3> QED
      BY <3>1, <3>2, <3>3 DEF Reply!Fault
  <2>15. ASSUME NEW c \in Calls, Submit(c)
        PROVE  Reply!Pay(c)
    <3>1. submitted' = [submitted EXCEPT ![c] = submitted[c] + 1] /\ UNCHANGED faults
      BY <2>15 DEF Submit, Move, Transact, Funded
    <3>2. c \in Due
      BY <2>15 DEF Submit, Move, Transact, Funded, Due
    <3>3. Due' = Due \ {c}
      BY <2>15, <3>1 DEF Submit, Move, Transact, Funded, TypeOK, Due
    <3>4. UNCHANGED outcome /\ outcome[c] = "none"
      BY <2>15 DEF Submit, Move, Transact, Funded, TypeOK, OutcomeOf
    <3> QED
      BY <3>1, <3>2, <3>3, <3>4 DEF Reply!Pay, Reply!Transfer
  <2>16. ASSUME NEW c \in Calls, SubmitUnheard(c)
        PROVE  Reply!PayUnheard(c)
    <3>1. submitted' = [submitted EXCEPT ![c] = submitted[c] + 1] /\ faults' = faults + 1
      BY <2>16 DEF SubmitUnheard, Move, Transact, Funded, Fault
    <3>2. c \in Due
      BY <2>16 DEF SubmitUnheard, Move, Transact, Funded, Fault, Due
    <3>3. UNCHANGED Due
      BY <2>16, <3>1 DEF SubmitUnheard, Move, Transact, Funded, Fault, TypeOK, Due
    <3>4. UNCHANGED outcome /\ outcome[c] = "none"
      BY <2>16 DEF SubmitUnheard, Move, Transact, Funded, Fault, TypeOK, OutcomeOf
    <3> QED
      BY <3>1, <3>2, <3>3, <3>4 DEF Reply!PayUnheard, Reply!Transfer
  <2>17. ASSUME NEW c \in Calls, ApologyFails(c)
        PROVE  Reply!Retry(c)
    <3>1. UNCHANGED submitted /\ faults' = faults + 1
      BY <2>17 DEF ApologyFails, Move, Fault
    <3>2. Due' = Due \cup {c}
      BY <2>17 DEF ApologyFails, Move, Fault, TypeOK, Due
    <3>3. UNCHANGED outcome /\ outcome[c] = "none"
      BY <2>17 DEF ApologyFails, Move, Fault, TypeOK, OutcomeOf
    <3> QED
      BY <3>1, <3>2, <3>3 DEF Reply!Retry
  <2>18. ASSUME NEW c \in Calls, TellDeactivated(c)
        PROVE  Reply!End(c)
    <3>1. UNCHANGED submitted /\ UNCHANGED faults
      BY <2>18 DEF TellDeactivated, Move
    <3>2. step[c] # "build" /\ step'[c] # "build"
      BY <2>18 DEF TellDeactivated, Move, TypeOK
    <3>3. UNCHANGED Due
      BY <2>18, <3>1 DEF TellDeactivated, Move, TypeOK, Due
    <3>4. c \in Due <=> submitted[c] = 0
      BY <3>2 DEF Due
    <3>5. outcome[c] = "none"
      BY <2>18 DEF TellDeactivated, Move, OutcomeOf
    <3>6. outcome' = [outcome EXCEPT ![c] = OutcomeOf(c)']
      BY <2>18 DEF TellDeactivated, Move, TypeOK, OutcomeOf
    <3>7. OutcomeOf(c)' \in Reply!Outcomes
          /\ (Reply!Received(OutcomeOf(c)') <=> submitted[c] # 0)
      BY <2>18, <3>1
         DEF TellDeactivated, Move, TypeOK, CallInv, Settled, Steps, Running,
             PaymentStatus, OutcomeOf, Reply!Outcomes, Reply!Received
    <3> QED
      BY <3>1, <3>3, <3>4, <3>5, <3>6, <3>7 DEF Reply!End
  <2>19. ASSUME NEW c \in Calls, Apologise(c)
        PROVE  Reply!End(c)
    <3>1. UNCHANGED submitted /\ UNCHANGED faults
      BY <2>19 DEF Apologise, Move
    <3>2. step[c] # "build" /\ step'[c] # "build"
      BY <2>19 DEF Apologise, Move, TypeOK
    <3>3. UNCHANGED Due
      BY <2>19, <3>1 DEF Apologise, Move, TypeOK, Due
    <3>4. c \in Due <=> submitted[c] = 0
      BY <3>2 DEF Due
    <3>5. outcome[c] = "none"
      BY <2>19 DEF Apologise, Move, OutcomeOf
    <3>6. outcome' = [outcome EXCEPT ![c] = OutcomeOf(c)']
      BY <2>19 DEF Apologise, Move, TypeOK, OutcomeOf
    <3>7. OutcomeOf(c)' \in Reply!Outcomes
          /\ (Reply!Received(OutcomeOf(c)') <=> submitted[c] # 0)
      BY <2>19, <3>1
         DEF Apologise, Move, TypeOK, CallInv, Settled, Steps, Running,
             PaymentStatus, OutcomeOf, Reply!Outcomes, Reply!Received
    <3> QED
      BY <3>1, <3>3, <3>4, <3>5, <3>6, <3>7 DEF Reply!End
  <2>20. ASSUME NEW c \in Calls, LogResponse(c)
        PROVE  Reply!End(c)
    <3>1. UNCHANGED submitted /\ UNCHANGED faults
      BY <2>20 DEF LogResponse, Move
    <3>2. step[c] # "build" /\ step'[c] # "build"
      BY <2>20 DEF LogResponse, Move, TypeOK
    <3>3. UNCHANGED Due
      BY <2>20, <3>1 DEF LogResponse, Move, TypeOK, Due
    <3>4. c \in Due <=> submitted[c] = 0
      BY <3>2 DEF Due
    <3>5. outcome[c] = "none"
      BY <2>20 DEF LogResponse, Move, OutcomeOf
    <3>6. outcome' = [outcome EXCEPT ![c] = OutcomeOf(c)']
      BY <2>20 DEF LogResponse, Move, TypeOK, OutcomeOf
    <3>7. OutcomeOf(c)' \in Reply!Outcomes
          /\ (Reply!Received(OutcomeOf(c)') <=> submitted[c] # 0)
      BY <2>20, <3>1
         DEF LogResponse, Move, TypeOK, CallInv, Settled, Steps, Running,
             PaymentStatus, OutcomeOf, Reply!Outcomes, Reply!Received
    <3> QED
      BY <3>1, <3>3, <3>4, <3>5, <3>6, <3>7 DEF Reply!End
  <2>21. ASSUME NEW c \in Calls, RecordFails(c)
        PROVE  Reply!End(c)
    <3>1. UNCHANGED submitted /\ faults' = faults + 1
      BY <2>21 DEF RecordFails, Move, Fault
    <3>2. step[c] # "build" /\ step'[c] # "build"
      BY <2>21 DEF RecordFails, Move, Fault, TypeOK
    <3>3. UNCHANGED Due
      BY <2>21, <3>1 DEF RecordFails, Move, Fault, TypeOK, Due
    <3>4. c \in Due <=> submitted[c] = 0
      BY <3>2 DEF Due
    <3>5. outcome[c] = "none"
      BY <2>21 DEF RecordFails, Move, Fault, OutcomeOf
    <3>6. outcome' = [outcome EXCEPT ![c] = OutcomeOf(c)']
      BY <2>21 DEF RecordFails, Move, Fault, TypeOK, OutcomeOf
    <3>7. OutcomeOf(c)' \in Reply!Outcomes
          /\ (Reply!Received(OutcomeOf(c)') <=> submitted[c] # 0)
      BY <2>21, <3>1
         DEF RecordFails, Move, Fault, TypeOK, CallInv, Settled, Steps, Running,
             PaymentStatus, OutcomeOf, Reply!Outcomes, Reply!Received
    <3> QED
      BY <3>1, <3>3, <3>4, <3>5, <3>6, <3>7 DEF Reply!End
  <2> QED
    BY <2>1, <2>2, <2>3, <2>4, <2>5, <2>6, <2>7, <2>8, <2>9, <2>10, <2>11,
    <2>12, <2>13, <2>14, <2>15, <2>16, <2>17, <2>18, <2>19, <2>20, <2>21 DEF
    Next, Go, Fail, Reply!Next, Reply!vars
<1> QED
  BY <1>1, <1>2, CallInvariant, PTL DEF Spec, ReplyPromise, Reply!Spec
=============================================================================
