------------------------------ MODULE ItemDrop ------------------------------
(***************************************************************************)
(* An item drop: a customer is shown the catalogue, pays the price, is     *)
(* asked for a size and may cancel for a refund, of which the store covers *)
(* the network fees a limited number of times.                             *)
(*                                                                         *)
(* As in AirDrop, handlers of the subscriber's pool each work on a copy of *)
(* a DropSession row and save the whole of it, and every access to the     *)
(* database and every outgoing payment is a step.                          *)
(*                                                                         *)
(* The conversation ends with the size.  Sku.order is called on a row of   *)
(* AvailableSkuManager, whose annotation number_ordered, an int, hides the *)
(* method of that name: in_stock() raises a TypeError, whatever size is    *)
(* named, and no Order is ever made.  So the states from WAITING_FOR_NAME  *)
(* on cannot be reached, every size counts as available, and a cancelled   *)
(* session has no order to cancel.                                         *)
(***************************************************************************)
EXTENDS Integers, Sequences, FiniteSets

CONSTANTS
  Workers,          \* threads of the subscriber's pool
  Customers,
  NoCustomer,
  Price,            \* price_in_mob
  Fee,              \* the network's minimum fee
  Amounts,          \* what a customer may pay at a time ...
  MaxAmount,        \* ... and at most
  MaxFees,          \* max_refund_transaction_fees_covered
  MaxMessages,      \* bound: messages handled in all
  MaxDisturbances   \* bound: payments made again or gone wrong, messages and
                    \* database calls that fail, crashes, and messages of a
                    \* customer who has one in a handler

ASSUME MoneyType == Price \in Nat /\ Fee \in Nat \ {0}
ASSUME AmountsType == MaxAmount \in Nat /\ Amounts \subseteq 0 .. MaxAmount
ASSUME PriceCoversFee == Fee < Price
ASSUME FeesType == MaxFees \in Nat
ASSUME ItemDropBounds == MaxMessages \in Nat /\ MaxDisturbances \in Nat
ASSUME NoCustomerFresh == NoCustomer \notin Customers
ASSUME PoolFinite == IsFiniteSet(Workers)

VARIABLES
  session,       \* the DropSession rows of the drop, by primary key
  refunds,       \* refunds[c]: number_of_times_refunded of the rows of
                 \* CustomerDropRefunds for c, by primary key
  stock,         \* does some sku of the item have a quantity?
  restricted,    \* customers the drop's number_restriction excludes
  open,          \* is the drop between its start and its end time?
  job,           \* what each handler is doing
  messages,      \* messages handled so far
  disturbances,  \* disturbances so far
  paid,          \* history: what each customer paid for ...
  returned,      \* ... and got back in all
  fees,          \* history: fees covered for each customer's cancellations
  underpaid      \* history: each customer's payments of less than the price
                 \* that were taken for the item

rowVars == <<session, refunds>>
dropVars == <<stock, restricted, open>>
boundVars == <<messages, disturbances>>
history == <<paid, returned, fees, underpaid>>
vars == <<rowVars, dropVars, job, boundVars, history>>

(* SessionState, as far as an item drop gets. *)
REFUNDED == -2
CANCELLED == -1
READY == 0
WAITING_FOR_PAYMENT == 1
WAITING_FOR_SIZE == 2
SessionStates ==
  {REFUNDED, CANCELLED, READY, WAITING_FOR_PAYMENT, WAITING_FOR_SIZE}
ActiveStates == {READY, WAITING_FOR_PAYMENT, WAITING_FOR_SIZE}

NoKey == 0

(* The locals of a handler: the keys of its rows of DropSession and        *)
(* CustomerDropRefunds, its copies of state and number_of_times_refunded,  *)
(* the amount of a payment, should_refund_transaction_fee, and whether the *)
(* caller of what it does will save the session again.                     *)
NoJob ==
  [step |-> "idle", customer |-> NoCustomer, row |-> NoKey, state |-> READY,
   entry |-> NoKey, times |-> 0, amount |-> 0, cover |-> FALSE, again |-> FALSE]

JobSteps ==
  {"idle", "route", "new", "create", "catalog", "list", "request", "chat",
   "size", "payment", "unsolicited", "not_enough", "excess", "stock",
   "ask_size", "sold_out", "get_refunds", "create_refunds", "cover", "refund",
   "save"}

Init ==
  /\ session = <<>>
  /\ refunds = [c \in Customers |-> <<>>]
  /\ stock \in BOOLEAN
  /\ restricted \in SUBSET Customers
  /\ open = TRUE
  /\ job = [h \in Workers |-> NoJob]
  /\ messages = 0
  /\ disturbances = 0
  /\ paid = [c \in Customers |-> 0]
  /\ returned = [c \in Customers |-> 0]
  /\ fees = [c \in Customers |-> 0]
  /\ underpaid = [c \in Customers |-> 0]

-----------------------------------------------------------------------------
(* Queries *)

Rows == DOMAIN session

RowsOf(c, states) ==
  {i \in Rows : session[i].customer = c /\ session[i].state \in states}

(* active_drop_sessions(): none once the drop is over. *)
ActiveRows(c) == IF open THEN RowsOf(c, ActiveStates) ELSE {}

(* first() under Meta.ordering: a row of the highest state, whichever was  *)
(* saved last.                                                             *)
First(S) == {i \in S : \A j \in S : session[j].state <= session[i].state}

-----------------------------------------------------------------------------
(* Steps of a handler *)

At(h, step) == job[h].step = step

Goto(h, step) == job' = [job EXCEPT ![h].step = step]

SetState(h, state, step) ==
  job' = [job EXCEPT ![h].state = state, ![h].step = step]

Done(h) == job' = [job EXCEPT ![h] = NoJob]

Read(h, i, step) ==
  job' = [job EXCEPT ![h].row = i, ![h].state = session[i].state,
                     ![h].step = step]

OnlyJob == UNCHANGED <<rowVars, dropVars, boundVars, history>>

(* drop_session.save() writes the whole row. *)
SaveRow(h, state) ==
  session' = [session EXCEPT ![job[h].row].state = state]

Disturb ==
  /\ disturbances < MaxDisturbances
  /\ disturbances' = disturbances + 1

(* A handler takes a message of c from the queue.  A patient customer has  *)
(* none with another handler.                                              *)
Receive(h, c, step, amount) ==
  /\ At(h, "idle")
  /\ messages < MaxMessages
  /\ messages' = messages + 1
  /\ IF \E g \in Workers : job[g].customer = c
     THEN Disturb ELSE UNCHANGED disturbances
  /\ job' = [job EXCEPT ![h] =
              [NoJob EXCEPT !.step = step, !.customer = c, !.amount = amount]]
  /\ UNCHANGED <<rowVars, dropVars, history>>

ReceiveChat(h, c) == Receive(h, c, "route", 0)
ReceivePayment(h, c) == \E a \in Amounts : Receive(h, c, "payment", a)

(* default_handler: an active session is gone on with, in the handler of   *)
(* its state; without one the store is closed or a session is made.        *)
StepOf(state) ==
  CASE state = READY -> "catalog"
    [] state = WAITING_FOR_PAYMENT -> "chat"
    [] state = WAITING_FOR_SIZE -> "size"

GoOn(h) ==
  /\ At(h, "route")
  /\ \E i \in First(ActiveRows(job[h].customer)) :
       Read(h, i, StepOf(session[i].state))
  /\ OnlyJob

(* As it would be if a session that waits for a size were not active. *)
StartNewAfterPayment(h) ==
  /\ At(h, "route")
  /\ RowsOf(job[h].customer, {READY, WAITING_FOR_PAYMENT}) = {}
  /\ IF open THEN Goto(h, "new") ELSE Done(h)
  /\ OnlyJob

StartNew(h) ==
  /\ At(h, "route")
  /\ ActiveRows(job[h].customer) = {}
  /\ IF open THEN Goto(h, "new") ELSE Done(h)
  /\ OnlyJob

(* handle_no_active_item_drop_session: get_or_create finds one READY row,  *)
(* or none, or two and raises MultipleObjectsReturned.                     *)
GetSession(h) ==
  /\ At(h, "new")
  /\ LET ready == RowsOf(job[h].customer, {READY})
     IN  CASE ready = {} -> Goto(h, "create")
           [] \/ Cardinality(ready) > 1
              \/ job[h].customer \in restricted -> Done(h)
           [] OTHER -> \E i \in ready : Read(h, i, "catalog")
  /\ OnlyJob

(* The restriction is tested when the row is there.  A restricted customer *)
(* is told so, but the new state of the session is not saved.              *)
CreateSession(h) ==
  /\ At(h, "create")
  /\ session' =
       Append(session, [customer |-> job[h].customer, state |-> READY])
  /\ IF job[h].customer \in restricted
     THEN Done(h)
     ELSE job' = [job EXCEPT ![h].row = Len(session) + 1, ![h].step = "catalog"]
  /\ UNCHANGED <<refunds, dropVars, boundVars, history>>

-----------------------------------------------------------------------------
(* The catalogue *)

(* The session is saved once more by the caller, or the handler is done.   *)
Leave(h) ==
  IF job[h].again
  THEN job' = [job EXCEPT ![h].again = FALSE, ![h].step = "save"]
  ELSE Done(h)

(* show_catalog_and_display_payment_instructions, for a customer without a *)
(* payments address at that time.                                          *)
ExplainPayments(h) ==
  /\ At(h, "catalog")
  /\ Leave(h)
  /\ OnlyJob

(* For one with an address the catalogue is read twice: an item out of     *)
(* stock is reported, one that loses its stock in between raises an        *)
(* IndexError in get_options.                                              *)
ShowCatalog(h) ==
  /\ At(h, "catalog")
  /\ Goto(h, IF stock THEN "list" ELSE "request")
  /\ OnlyJob

ListOptions(h) ==
  /\ At(h, "list")
  /\ IF stock THEN Goto(h, "request") ELSE Done(h)
  /\ OnlyJob

(* Either way the payment is asked for and the session waits for it: an    *)
(* OUT_OF_STOCK that show_catalog set is overwritten before the save().    *)
RequestPayment(h) ==
  /\ At(h, "request")
  /\ SaveRow(h, WAITING_FOR_PAYMENT)
  /\ IF job[h].again
     THEN job' = [job EXCEPT ![h].state = WAITING_FOR_PAYMENT,
                             ![h].again = FALSE, ![h].step = "save"]
     ELSE Done(h)
  /\ UNCHANGED <<refunds, dropVars, boundVars, history>>

(* WAITING_FOR_PAYMENT: whatever the customer writes, the catalogue is     *)
(* shown again and the session saved; "cancel" cancels it before that.     *)
Chat(h) ==
  /\ At(h, "chat")
  /\ job' = [job EXCEPT ![h].again = TRUE, ![h].step = "catalog"]
  /\ OnlyJob

HandleCancel(h) ==
  /\ At(h, "chat")
  /\ SaveRow(h, CANCELLED)
  /\ job' = [job EXCEPT ![h].state = CANCELLED, ![h].again = TRUE,
                        ![h].step = "catalog"]
  /\ UNCHANGED <<refunds, dropVars, boundVars, history>>

(* The last save() of a handler. *)
Save(h) ==
  /\ At(h, "save")
  /\ SaveRow(h, job[h].state)
  /\ Leave(h)
  /\ UNCHANGED <<refunds, dropVars, boundVars, history>>

-----------------------------------------------------------------------------
(* Outgoing payments, as in AirDrop: money that is sent may be sent n      *)
(* times more, once for each request that failed after a transfer.         *)

Outcomes == {"sent", "failed", "deactivated", "unstored"}
Received(o) == o \in {"sent", "unstored"}
Continues(o) == o \in {"sent", "failed"}
Repeats == 0 .. MaxDisturbances

Attempt(o, n) ==
  /\ n > 0 => Received(o)
  /\ LET faults == n + (IF o = "sent" THEN 0 ELSE 1)
     IN  /\ disturbances + faults <= MaxDisturbances
         /\ disturbances' = disturbances + faults

(* send_reply_payment of an amount. *)
Pay(h, o, n, amount) ==
  /\ Attempt(o, n)
  /\ returned' = IF Received(o)
                 THEN [returned EXCEPT ![job[h].customer] =
                         @ + (1 + n) * amount]
                 ELSE returned
  /\ UNCHANGED <<rowVars, dropVars, messages, paid, fees, underpaid>>

(* The handler then goes on with a state of its copy, or is stopped. *)
Send(h, amount, state, step) ==
  \E o \in Outcomes, n \in Repeats :
    /\ Pay(h, o, n, amount)
    /\ IF Continues(o) THEN SetState(h, state, step) ELSE Done(h)

-----------------------------------------------------------------------------
(* Incoming payments *)

WaitingRows(c) == RowsOf(c, {WAITING_FOR_PAYMENT})

(* handle_payment: the transaction did not succeed. *)
IgnoreFailed(h) ==
  /\ At(h, "payment")
  /\ Done(h)
  /\ OnlyJob

CountPayment(h) ==
  paid' = [paid EXCEPT ![job[h].customer] = @ + job[h].amount]

(* handle_unsolicited_payment returns it less the fee, if that is more. *)
FindUnsolicited(h) ==
  /\ At(h, "payment")
  /\ WaitingRows(job[h].customer) = {}
  /\ IF Fee < job[h].amount THEN Goto(h, "unsolicited") ELSE Done(h)
  /\ CountPayment(h)
  /\ UNCHANGED <<rowVars, dropVars, boundVars, returned, fees, underpaid>>

RefundUnsolicited(h) ==
  /\ At(h, "unsolicited")
  /\ \E o \in Outcomes, n \in Repeats : Pay(h, o, n, job[h].amount - Fee)
  /\ Done(h)

(* Payments.handle_item_payment.  What is neither too little nor too much  *)
(* ends the handler with a KeyError: WE_RECEIVED_MOB has a placeholder of  *)
(* another name than the one it is given.                                  *)
StepFor(amount) ==
  CASE amount < Price /\ Fee < amount -> "not_enough"
    [] amount < Price /\ amount <= Fee -> "stock"
    [] amount > Price + Fee -> "excess"

Exact(amount) == Price <= amount /\ amount <= Price + Fee

FindWaiting(h) ==
  /\ At(h, "payment")
  /\ \E i \in First(WaitingRows(job[h].customer)) :
       IF Exact(job[h].amount)
       THEN Done(h) ELSE Read(h, i, StepFor(job[h].amount))
  /\ CountPayment(h)
  /\ underpaid' = IF job[h].amount < Price
                  THEN [underpaid EXCEPT ![job[h].customer] = @ + 1]
                  ELSE underpaid
  /\ UNCHANGED <<rowVars, dropVars, boundVars, returned, fees>>

(* An underpayment is returned less the fee, and the item sold all the     *)
(* same.                                                                   *)
ReturnUnderpayment(h) ==
  /\ At(h, "not_enough")
  /\ Send(h, job[h].amount - Fee, job[h].state, "stock")

(* As it would be if the price were not taken off. *)
ReturnWholeExcess(h) ==
  /\ At(h, "excess")
  /\ Send(h, job[h].amount - Fee, job[h].state, "stock")

ReturnExcess(h) ==
  /\ At(h, "excess")
  /\ Send(h, job[h].amount - Price - Fee, job[h].state, "stock")

CheckStock(h) ==
  /\ At(h, "stock")
  /\ Goto(h, IF stock THEN "ask_size" ELSE "sold_out")
  /\ OnlyJob

(* handle_out_of_stock returns the price and the fee, saves the session,   *)
(* and handle_item_payment saves it again.                                 *)
RefundSoldOut(h) ==
  /\ At(h, "sold_out")
  /\ \E o \in Outcomes, n \in Repeats :
       /\ Pay(h, o, n, Price + Fee)
       /\ IF Continues(o)
          THEN job' = [job EXCEPT ![h].state = REFUNDED, ![h].again = TRUE,
                                  ![h].step = "save"]
          ELSE Done(h)

(* The sizes are read again for the question. *)
AskSize(h) ==
  /\ At(h, "ask_size")
  /\ IF stock THEN SetState(h, WAITING_FOR_SIZE, "save") ELSE Done(h)
  /\ OnlyJob

-----------------------------------------------------------------------------
(* WAITING_FOR_SIZE: nothing but "cancel" and "refund" has an effect, a    *)
(* size neither.                                                           *)
AnswerSize(h) ==
  /\ At(h, "size")
  /\ Done(h)
  /\ OnlyJob

(* As it would be if the session were saved before the refund. *)
CancelSizeAtOnce(h) ==
  /\ At(h, "size")
  /\ SaveRow(h, REFUNDED)
  /\ Goto(h, "get_refunds")
  /\ UNCHANGED <<refunds, dropVars, boundVars, history>>

CancelSize(h) ==
  /\ At(h, "size")
  /\ Goto(h, "get_refunds")
  /\ OnlyJob

(* handle_cancel_and_refund: get_or_create of the row that counts the      *)
(* customer's refunds; no constraint keeps two handlers from creating one  *)
(* each, after which it raises.                                            *)
GetRefunds(h) ==
  /\ At(h, "get_refunds")
  /\ LET counts == refunds[job[h].customer]
     IN  CASE Len(counts) = 0 -> Goto(h, "create_refunds")
           [] Len(counts) = 1 -> job' = [job EXCEPT ![h].entry = 1,
                                   ![h].times = counts[1], ![h].step = "cover"]
           [] OTHER -> Done(h)
  /\ OnlyJob

CreateRefunds(h) ==
  /\ At(h, "create_refunds")
  /\ refunds' = [refunds EXCEPT ![job[h].customer] = Append(@, 0)]
  /\ job' = [job EXCEPT ![h].entry = Len(refunds[job[h].customer]) + 1,
                        ![h].step = "cover"]
  /\ UNCHANGED <<session, dropVars, boundVars, history>>

(* As it would be if the number were not counted up. *)
CoverFeeUncounted(h) ==
  /\ At(h, "cover")
  /\ job[h].times < MaxFees
  /\ job' = [job EXCEPT ![h].cover = TRUE, ![h].step = "refund"]
  /\ fees' = [fees EXCEPT ![job[h].customer] = @ + 1]
  /\ UNCHANGED <<rowVars, dropVars, boundVars, paid, returned, underpaid>>

(* As it would be if the limit were one that may be exceeded once. *)
CoverFeeOffByOne(h) ==
  /\ At(h, "cover")
  /\ job[h].times <= MaxFees
  /\ refunds' =
       [refunds EXCEPT ![job[h].customer][job[h].entry] = job[h].times + 1]
  /\ job' = [job EXCEPT ![h].cover = TRUE, ![h].step = "refund"]
  /\ fees' = [fees EXCEPT ![job[h].customer] = @ + 1]
  /\ UNCHANGED <<session, dropVars, boundVars, paid, returned, underpaid>>

(* The fee is covered while the copy of the row says so. *)
CoverFee(h) ==
  /\ At(h, "cover")
  /\ job[h].times < MaxFees
  /\ refunds' =
       [refunds EXCEPT ![job[h].customer][job[h].entry] = job[h].times + 1]
  /\ job' = [job EXCEPT ![h].cover = TRUE, ![h].step = "refund"]
  /\ fees' = [fees EXCEPT ![job[h].customer] = @ + 1]
  /\ UNCHANGED <<session, dropVars, boundVars, paid, returned, underpaid>>

KeepFee(h) ==
  /\ At(h, "cover")
  /\ job[h].times >= MaxFees
  /\ Goto(h, "refund")
  /\ OnlyJob

RefundPrice(h) ==
  /\ At(h, "refund")
  /\ Send(h, IF job[h].cover THEN Price + Fee ELSE Price - Fee,
          REFUNDED, "save")

-----------------------------------------------------------------------------
(* A message to the customer, a query or a save() raises in the middle of  *)
(* a handler.                                                              *)
HandlerStops(h) ==
  /\ ~At(h, "idle")
  /\ Disturb
  /\ Done(h)
  /\ UNCHANGED <<rowVars, dropVars, messages, history>>

(* The subscriber's process dies in the middle of its handlers.            *)
Crash ==
  /\ \E h \in Workers : ~At(h, "idle")
  /\ Disturb
  /\ job' = [h \in Workers |-> NoJob]
  /\ UNCHANGED <<rowVars, dropVars, messages, history>>

(* The quantities of the skus are edited in the admin pages. *)
EditStock ==
  /\ stock' = ~stock
  /\ UNCHANGED <<rowVars, restricted, open, job, boundVars, history>>

(* The drop's end time passes. *)
EndDrop ==
  /\ open
  /\ open' = FALSE
  /\ UNCHANGED <<rowVars, stock, restricted, job, boundVars, history>>

Handle(h) ==
  \/ GoOn(h) \/ StartNew(h) \/ GetSession(h) \/ CreateSession(h)
  \/ ExplainPayments(h) \/ ShowCatalog(h) \/ ListOptions(h) \/ RequestPayment(h)
  \/ Chat(h) \/ HandleCancel(h) \/ Save(h)
  \/ AnswerSize(h) \/ CancelSize(h) \/ GetRefunds(h) \/ CreateRefunds(h)
  \/ CoverFee(h) \/ KeepFee(h) \/ RefundPrice(h)

HandlePayment(h) ==
  \/ IgnoreFailed(h) \/ FindUnsolicited(h) \/ RefundUnsolicited(h)
  \/ FindWaiting(h) \/ ReturnUnderpayment(h) \/ ReturnExcess(h)
  \/ CheckStock(h) \/ RefundSoldOut(h) \/ AskSize(h)

Next ==
  \/ \E h \in Workers :
       \/ \E c \in Customers : ReceiveChat(h, c) \/ ReceivePayment(h, c)
       \/ Handle(h) \/ HandlePayment(h) \/ HandlerStops(h)
  \/ Crash
  \/ EditStock
  \/ EndDrop

Spec == Init /\ [][Next]_vars

-----------------------------------------------------------------------------
JobType ==
  [step : JobSteps, customer : Customers \cup {NoCustomer},
   row : Rows \cup {NoKey}, state : SessionStates,
   entry : Nat, times : 0 .. MaxFees, amount : Amounts \cup {0},
   cover : BOOLEAN, again : BOOLEAN]

(* A refund row never counts further than the limit; a handler holds keys  *)
(* of rows that exist.                                                     *)
TypeOK ==
  /\ session \in Seq([customer : Customers, state : SessionStates])
  /\ refunds \in [Customers -> Seq(0 .. MaxFees)]
  /\ stock \in BOOLEAN
  /\ restricted \subseteq Customers
  /\ open \in BOOLEAN
  /\ job \in [Workers -> JobType]
  /\ \A h \in Workers :
       job[h].entry # NoKey => job[h].entry \in DOMAIN refunds[job[h].customer]
  /\ messages \in 0 .. MaxMessages
  /\ disturbances \in 0 .. MaxDisturbances
  /\ paid \in [Customers -> Nat]
  /\ returned \in [Customers -> Nat]
  /\ fees \in [Customers -> Nat]
  /\ underpaid \in [Customers -> Nat]

(* What one disturbance may cost the store: a refund, or a payment that is *)
(* returned once more, less the fee.                                       *)
Cost == IF MaxAmount - Fee <= Price + Fee THEN Price + Fee ELSE MaxAmount - Fee

(* A customer gets back no more than was paid, across any number of        *)
(* sessions, cancellations and changes of stock, but for a price and fee   *)
(* with every payment of less than the price (handle_item_payment sells    *)
(* the item all the same) and the cost of every disturbance: of an overlap *)
(* of two messages or a crash (item_drop_session.py:151-168 pays before it *)
(* saves the session), and of a payment that is made again.                *)
ReturnsBounded ==
  \A c \in Customers :
    returned[c] <= paid[c] + (Price + Fee) * underpaid[c] + Cost * disturbances

(* number_of_times_refunded is read, compared and written back without a   *)
(* lock: each disturbance lets at most one fee more be covered than        *)
(* max_refund_transaction_fees_covered.                                    *)
FeesBounded == \A c \in Customers : fees[c] <= MaxFees + disturbances

(* A message, a payment and a cancellation are meant for the one session   *)
(* that goes on.  get_or_create inserts a second only when handlers        *)
(* overlap: each disturbance adds at most one, and a cancelled session     *)
(* that a stale copy brings back needs one, too.                           *)
ActiveSessionsBounded ==
  \A c \in Customers :
    Cardinality(RowsOf(c, ActiveStates)) <= 1 + disturbances

(* While nothing is disturbed the books balance: every refunded session    *)
(* has had its price returned, less the fee.                               *)
RefundedIsReturned ==
  disturbances = 0 =>
    \A c \in Customers :
      returned[c] >= (Price - Fee) * Cardinality(RowsOf(c, {REFUNDED}))

-----------------------------------------------------------------------------
(* "Cancelling your purchase and refunding your payment"                   *)
(* (chat_strings.py:174): what is refunded is the payment, so that no      *)
(* customer gets back more than was paid and the fees the store covers.    *)
RefundIsPayment ==
  \A c \in Customers : returned[c] <= paid[c] + Fee * fees[c]
=============================================================================
