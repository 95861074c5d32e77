------------------------------ MODULE Payments ------------------------------
(***************************************************************************)
(* Outgoing payments: what send_reply_payment does between a handler that  *)
(* wants to return some MOB and the rows that record it.                   *)
(*                                                                         *)
(* Each call runs in a thread of its own.  send_mob_to_address is retried  *)
(* as a whole, without limit, whenever anything in it raises; so are       *)
(* get_txo_result, send_payment_receipt and create_receiver_receipt within *)
(* it.  Full-service, the network, signald and the database may fail a     *)
(* request, and full-service may do what it was asked for and still not    *)
(* be heard.                                                               *)
(***************************************************************************)
EXTENDS Naturals

CONSTANTS
  Calls,        \* calls of send_reply_payment, of a positive amount
  Funds,        \* payments the wallet can make
  MaxFaults     \* bound: requests that fail

ASSUME PaymentsBounds == Funds \in Nat /\ MaxFaults \in Nat

VARIABLES
  step,         \* where each call stands
  payment,      \* status of the call's Payment object, "none" without one
  row,          \* status of its row in the database
  txo,          \* its last transaction, as the ledger has it
  wallet,       \* payments the wallet can still make
  faults,       \* requests that failed so far
  submitted,    \* history: transactions submitted by each call
  informed      \* history: calls whose receipt reached the customer

vars == <<step, payment, row, txo, wallet, faults, submitted, informed>>

Running ==
  {"address", "deactivated", "invalid", "build", "land", "receipt", "store",
   "apologise", "save", "log"}
Steps == Running \cup {"returned", "stopped"}
PaymentStatus == {"none", "Failure", "TransactionSuccess"}
TxoStates == {"none", "pending", "landed", "expired"}

Init ==
  /\ step = [c \in Calls |-> "address"]
  /\ payment = [c \in Calls |-> "none"]
  /\ row = [c \in Calls |-> "none"]
  /\ txo = [c \in Calls |-> "none"]
  /\ wallet = Funds
  /\ faults = 0
  /\ submitted = [c \in Calls |-> 0]
  /\ informed = {}

-----------------------------------------------------------------------------
Move(c, from, to) ==
  /\ step[c] = from
  /\ step' = [step EXCEPT ![c] = to]

SetPayment(c, status) == payment' = [payment EXCEPT ![c] = status]

Fault ==
  /\ faults < MaxFaults
  /\ faults' = faults + 1

(* _send_mob_to_customer asks signald for the customer's address ... *)
GetAddress(c) ==
  /\ Move(c, "address", "build")
  /\ UNCHANGED <<payment, row, txo, wallet, faults, submitted, informed>>

(* ... there is none, which the customer is told before the call returns   *)
(* None and payment.save() raises an AttributeError ...                    *)
FindNoAddress(c) ==
  /\ Move(c, "address", "deactivated")
  /\ UNCHANGED <<payment, row, txo, wallet, faults, submitted, informed>>

TellDeactivated(c) ==
  /\ Move(c, "deactivated", "stopped")
  /\ UNCHANGED <<payment, row, txo, wallet, faults, submitted, informed>>

(* ... or there is one that is no address: empty or malformed, it is not   *)
(* None, and send_mob_to_address, retried without limit, fails on its      *)
(* conversion each time, before anything is built ...                      *)
FindInvalidAddress(c) ==
  /\ Move(c, "address", "invalid")
  /\ UNCHANGED <<payment, row, txo, wallet, faults, submitted, informed>>

(* ... or signald fails, which send_reply_payment catches and records as a *)
(* failed payment.                                                         *)
CatchFailure(c) ==
  /\ \E from \in {"address", "deactivated"} : Move(c, from, "save")
  /\ Fault
  /\ SetPayment(c, "Failure")
  /\ UNCHANGED <<row, txo, wallet, submitted, informed>>

-----------------------------------------------------------------------------
(* As it would be if the wallet had to keep a reserve. *)
FundedWithReserve == wallet > 1

(* As it would be if the last check were off by one. *)
FundedOffByOne == wallet >= 0

(* Full-service builds a transaction only from funds it has. *)
Funded == wallet > 0

Transact(c) ==
  /\ Funded
  /\ wallet' = wallet - 1
  /\ txo' = [txo EXCEPT ![c] = "pending"]
  /\ submitted' = [submitted EXCEPT ![c] = @ + 1]

Submit(c) ==
  /\ Move(c, "build", "land")
  /\ Transact(c)
  /\ UNCHANGED <<payment, row, faults, informed>>

(* The transaction is submitted, but its reply is lost or is not what the  *)
(* code expects; the retry builds another one.                             *)
SubmitUnheard(c) ==
  /\ Move(c, "build", "build")
  /\ Transact(c)
  /\ Fault
  /\ UNCHANGED <<payment, row, informed>>

(* Nothing is submitted, and send_mob_to_address tries again. *)
BuildFails(c) ==
  /\ Move(c, "build", "build")
  /\ Fault
  /\ UNCHANGED <<payment, row, txo, wallet, submitted, informed>>

(* The ledger takes the transaction, or it expires. *)
Land(c) ==
  /\ txo[c] = "pending"
  /\ txo' = [txo EXCEPT ![c] = "landed"]
  /\ UNCHANGED <<step, payment, row, wallet, faults, submitted, informed>>

Expire(c) ==
  /\ txo[c] = "pending"
  /\ Fault
  /\ txo' = [txo EXCEPT ![c] = "expired"]
  /\ UNCHANGED <<step, payment, row, wallet, submitted, informed>>

(* As it would be if the wait for the transaction gave up at some time. *)
GetTxoOrGiveUp(c) ==
  /\ Move(c, "land", IF txo[c] = "landed" THEN "receipt" ELSE "build")
  /\ UNCHANGED <<payment, row, txo, wallet, faults, submitted, informed>>

(* As it would be if the exception of get_txo ended in the else clause. *)
GetTxoUnlanded(c) ==
  /\ Move(c, "land", "receipt")
  /\ UNCHANGED <<payment, row, txo, wallet, faults, submitted, informed>>

(* get_txo_result is retried until the transaction is in the ledger: its   *)
(* own except clause is all that ends an attempt, so the one around the    *)
(* call in send_mob_to_address is never reached.                           *)
GetTxo(c) ==
  /\ txo[c] = "landed"
  /\ Move(c, "land", "receipt")
  /\ UNCHANGED <<payment, row, txo, wallet, faults, submitted, informed>>

(* The receipt is made and sent, and both are tried until they work. *)
SendReceipt(c) ==
  /\ Move(c, "receipt", "store")
  /\ informed' = informed \cup {c}
  /\ UNCHANGED <<payment, row, txo, wallet, faults, submitted>>

(* A receipt may have been delivered although signald did not say so. *)
ReceiptFails(c) ==
  /\ Move(c, "receipt", "receipt")
  /\ Fault
  /\ informed' \in {informed, informed \cup {c}}
  /\ UNCHANGED <<payment, row, txo, wallet, submitted>>

(* SignalPayment.objects.create, and the Payment is complete ... *)
StoreReceipt(c) ==
  /\ Move(c, "store", "save")
  /\ SetPayment(c, "TransactionSuccess")
  /\ UNCHANGED <<row, txo, wallet, faults, submitted, informed>>

(* ... or the database fails: the customer is told that there is no        *)
(* receipt, and the call returns None, on which payment.save() raises.     *)
StoreFails(c) ==
  /\ Move(c, "store", "apologise")
  /\ Fault
  /\ UNCHANGED <<payment, row, txo, wallet, submitted, informed>>

(* As it would be if a payment without a receipt counted as failed. *)
ApologiseForFailure(c) ==
  /\ Move(c, "apologise", "save")
  /\ SetPayment(c, "Failure")
  /\ UNCHANGED <<row, txo, wallet, faults, submitted, informed>>

Apologise(c) ==
  /\ Move(c, "apologise", "stopped")
  /\ UNCHANGED <<payment, row, txo, wallet, faults, submitted, informed>>

(* As it would be without the retry decorator of send_mob_to_address. *)
ApologyIsFailure(c) ==
  /\ Move(c, "apologise", "save")
  /\ Fault
  /\ SetPayment(c, "Failure")
  /\ UNCHANGED <<row, txo, wallet, submitted, informed>>

(* When that message fails too, the retry pays once more. *)
ApologyFails(c) ==
  /\ Move(c, "apologise", "build")
  /\ Fault
  /\ UNCHANGED <<payment, row, txo, wallet, submitted, informed>>

-----------------------------------------------------------------------------
(* send_reply_payment saves the Payment, then the message that carries it  *)
(* and the response.                                                       *)
SavePayment(c) ==
  /\ Move(c, "save", "log")
  /\ row' = [row EXCEPT ![c] = payment[c]]
  /\ UNCHANGED <<payment, txo, wallet, faults, submitted, informed>>

LogResponse(c) ==
  /\ Move(c, "log", "returned")
  /\ UNCHANGED <<payment, row, txo, wallet, faults, submitted, informed>>

(* The database fails, and the exception stops the handler. *)
RecordFails(c) ==
  /\ \E from \in {"save", "log"} : Move(c, from, "stopped")
  /\ Fault
  /\ UNCHANGED <<payment, row, txo, wallet, submitted, informed>>

Go(c) ==
  \/ GetAddress(c) \/ FindNoAddress(c) \/ TellDeactivated(c)
  \/ FindInvalidAddress(c)
  \/ Submit(c) \/ GetTxo(c) \/ SendReceipt(c) \/ StoreReceipt(c)
  \/ Apologise(c) \/ SavePayment(c) \/ LogResponse(c)

Fail(c) ==
  \/ CatchFailure(c) \/ SubmitUnheard(c) \/ BuildFails(c) \/ Expire(c)
  \/ ReceiptFails(c) \/ StoreFails(c) \/ ApologyFails(c) \/ RecordFails(c)

Next == \E c \in Calls : Go(c) \/ Land(c) \/ Fail(c)

Spec == Init /\ [][Next]_vars

(* Every thread goes on when it can, retries included, and a transaction   *)
(* that does not expire lands.                                             *)
FairSpec ==
  /\ Spec
  /\ \A c \in Calls : WF_vars(Go(c)) /\ WF_vars(Land(c))

-----------------------------------------------------------------------------
TypeOK ==
  /\ step \in [Calls -> Steps]
  /\ payment \in [Calls -> PaymentStatus]
  /\ row \in [Calls -> PaymentStatus]
  /\ txo \in [Calls -> TxoStates]
  /\ wallet \in 0 .. Funds
  /\ faults \in 0 .. MaxFaults
  /\ submitted \in [Calls -> Nat]
  /\ informed \subseteq Calls

(* The retries pay again only after a fault: a call submits at most one    *)
(* transaction more than requests have failed (payments.py:158-197).       *)
PaymentsBounded == \A c \in Calls : submitted[c] <= 1 + faults

(* A payment recorded as a success is in the ledger and its receipt with   *)
(* the customer, however many attempts came before.                        *)
SuccessIsTrue ==
  \A c \in Calls :
    row[c] = "TransactionSuccess" =>
      submitted[c] > 0 /\ txo[c] = "landed" /\ c \in informed

(* A payment recorded as a failure has moved no money: all that can go     *)
(* wrong after the submission is retried, not caught by the except clause  *)
(* of send_reply_payment (payments.py:107).                                *)
FailureIsTrue == \A c \in Calls : row[c] = "Failure" => submitted[c] = 0

(* How AirDrop and ItemDrop see a call. *)
OutcomeOf(c) ==
  CASE step[c] = "returned" ->
         IF payment[c] = "TransactionSuccess" THEN "sent" ELSE "failed"
    [] step[c] = "stopped" ->
         IF submitted[c] = 0 THEN "deactivated" ELSE "unstored"
    [] OTHER -> "none"

(* A call that builds has to pay, and so has one that never paid. *)
Due == {c \in Calls : submitted[c] = 0 \/ step[c] = "build"}

Reply == INSTANCE ReplyPayment
           WITH money <- submitted, due <- Due,
                outcome <- [c \in Calls |-> OutcomeOf(c)]

(* A call is what its callers are modelled to expect: each transfer beyond *)
(* the first takes a fault, a call that starts over ends only after one    *)
(* more transfer, and the outcome tells whether any was made.              *)
ReplyPromise == Reply!Spec

(* What a thread may wait for without end: funds, a transaction that never *)
(* lands, or the conversion of an address that is none.                    *)
Stranded(c) ==
  \/ step[c] = "build" /\ wallet = 0
  \/ step[c] = "land" /\ txo[c] = "expired"
  \/ step[c] = "invalid"

(* Every call ends, in spite of any number of failures, or its own thread  *)
(* is stranded; what strands another thread is no excuse.                  *)
CallReturns ==
  \A c \in Calls :
    step[c] = "address" ~> step[c] \in {"returned", "stopped"} \/ Stranded(c)

-----------------------------------------------------------------------------
(* "Attempt to send MOB to customer; retry if we fail." (payments.py:160): *)
(* it is tried again when it failed, not when it was paid.                 *)
PaidOnce == \A c \in Calls : submitted[c] <= 1
=============================================================================
