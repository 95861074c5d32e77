------------------------------ MODULE AirDrop ------------------------------
(***************************************************************************)
(* An air drop: customers chat their way to an initial payment, send a     *)
(* small payment back and get it returned with a bonus coin on top.        *)
(*                                                                         *)
(* The threads of the subscriber's pool handle one incoming message each,  *)
(* over the DropSession rows in the database.  A handler reads its row     *)
(* once, works on that copy and saves the whole of it; every database      *)
(* access and every outgoing payment is a step of its own.  Claiming a     *)
(* bonus coin takes the steps of module BonusCoins, whose workers are the  *)
(* handlers.                                                               *)
(***************************************************************************)
EXTENDS BonusCoins, Integers, SequencesExt, Totals

CONSTANTS
  Customers,     \* customers who meet the drop's country restriction and
                 \* have a payments address
  NoCustomer,
  MaxMessages,      \* bound: messages handled in all
  MaxDisturbances   \* bound: payments made again or gone wrong, messages and
                    \* database calls that fail, crashes, and messages of a
                    \* customer who has one in a handler

ASSUME AirDropBounds == MaxMessages \in Nat /\ MaxDisturbances \in Nat
ASSUME MaxCallsLargeEnough == MaxMessages <= MaxCalls
ASSUME NoCustomerFresh == NoCustomer \notin Customers
ASSUME PoolFinite == IsFiniteSet(Workers) /\ IsFiniteSet(Coins)

VARIABLES
  session,       \* the DropSession rows of the drop, by primary key
  recent,        \* their keys, least recently saved first
  prefs,         \* customers with a CustomerStorePreferences row
  open,          \* is the drop between its start and its end time?
  job,           \* what each handler is doing
  messages,      \* messages handled so far
  disturbances,  \* disturbances so far
  initial,       \* history: initial payments each customer received
  bonus,         \* history: bonus payments each customer received
  repeated,      \* history: those of them that a retry made again
  kept           \* history: customers whose payment a handler kept

coinVars == <<number_claimed, pc, coin, seen, calls, claims, raced>>
rowVars == <<session, recent>>
boundVars == <<messages, disturbances>>
history == <<initial, bonus, repeated, kept>>
airVars ==
  <<coinVars, rowVars, prefs, open, job, boundVars, history>>

(* SessionState, as far as an air drop uses it. *)
CANCELLED == -1
READY == 0
WAITING_FOR_PAYMENT == 1
ALLOW_CONTACT_REQUESTED == 6
COMPLETED == 7
OUT_OF_STOCK == 9
SessionStates ==
  {CANCELLED, READY, WAITING_FOR_PAYMENT, ALLOW_CONTACT_REQUESTED, COMPLETED,
   OUT_OF_STOCK}

NoRow == 0

(* The locals of a handler: the key and the two fields of its copy of a    *)
(* row, the refunded flag of handle_airdrop_payment, and, for the          *)
(* properties, whether it answers a payment and has sent one.              *)
NoJob ==
  [step |-> "idle", customer |-> NoCustomer, row |-> NoRow, state |-> READY,
   coin |-> NoCoin, refunded |-> FALSE, paid |-> FALSE, sends |-> 0]

JobSteps ==
  {"idle", "route", "new", "quota", "get", "create", "active", "offer",
   "initial", "save", "payment", "unsolicited", "claim", "save_coin",
   "save_sold_out", "funds", "refund_funds", "except", "bonus", "preferences",
   "end"}

AirInit ==
  /\ Init
  /\ session = <<>>
  /\ recent = <<>>
  /\ prefs \in SUBSET Customers
  /\ open = TRUE
  /\ job = [h \in Workers |-> NoJob]
  /\ messages = 0
  /\ disturbances = 0
  /\ initial = [c \in Customers |-> 0]
  /\ bonus = [c \in Customers |-> 0]
  /\ repeated = 0
  /\ kept = {}

-----------------------------------------------------------------------------
(* Queries *)

Rows == DOMAIN session

RowsOf(c, states) ==
  {i \in Rows : session[i].customer = c /\ session[i].state \in states}

ActiveStates == {s \in SessionStates : READY <= s /\ s < COMPLETED}
SoldStates == {ALLOW_CONTACT_REQUESTED, COMPLETED}
ErroredStates == {s \in SessionStates : s > COMPLETED}

(* active_drop_sessions(): none once the drop is over. *)
ActiveRows(c) == IF open THEN RowsOf(c, ActiveStates) ELSE {}

(* first() under Meta.ordering: the highest state, then the last saved. *)
First(S) ==
  LET top == {i \in S : \A j \in S : session[j].state <= session[i].state}
      at == {k \in DOMAIN recent : recent[k] \in top}
  IN  recent[CHOOSE k \in at : \A l \in at : l <= k]

(* As it would be if a session counted only after its payment. *)
StartedLate ==
  Cardinality({i \in Rows : session[i].state > WAITING_FOR_PAYMENT})

Started == Cardinality({i \in Rows : session[i].state > READY})

(* num_initial_sent() counts rows of active drops only. *)
InitialSent == IF open THEN Started ELSE 0

BonusSent == Total(number_claimed)

InitialCoinLimit == Total(NumberAvailable)

(* Drop.under_quota, for an air drop. *)
UnderQuota ==
  /\ InitialSent < InitialCoinLimit
  /\ InitialCoinLimit - InitialSent > 0
  /\ BonusSent < InitialCoinLimit - InitialSent

(* BaseDropSession.under_drop_quota *)
UnderDropQuota == Started < InitialCoinLimit

-----------------------------------------------------------------------------
(* Steps of a handler *)

At(h, step) == job[h].step = step

Goto(h, step) == job' = [job EXCEPT ![h].step = step]

(* The handler sets the state of its copy and goes on. *)
SetState(h, state, step) ==
  job' = [job EXCEPT ![h].state = state, ![h].step = step]

(* The handler is done with its message. *)
Done(h) == job' = [job EXCEPT ![h] = NoJob]

OnlyJob ==
  UNCHANGED <<coinVars, rowVars, prefs, open, boundVars, history>>

(* drop_session.save() writes the whole row. *)
SaveRow(h) ==
  LET i == job[h].row
      k == CHOOSE k \in DOMAIN recent : recent[k] = i
  IN
  /\ session' = [session EXCEPT ![i] =
                  [customer |-> @.customer, state |-> job[h].state,
                   coin |-> job[h].coin]]
  /\ recent' = Append(RemoveAt(recent, k), i)

Disturb ==
  /\ disturbances < MaxDisturbances
  /\ disturbances' = disturbances + 1

(* A handler takes a message of c from the queue.  A patient customer has  *)
(* none with another handler.                                              *)
Receive(h, c, step) ==
  /\ At(h, "idle")
  /\ messages < MaxMessages
  /\ messages' = messages + 1
  /\ IF \E g \in Workers : job[g].customer = c
     THEN Disturb ELSE UNCHANGED disturbances
  /\ job' = [job EXCEPT ![h] = [NoJob EXCEPT !.step = step, !.customer = c]]
  /\ UNCHANGED <<coinVars, rowVars, prefs, open, history>>

ReceiveChat(h, c) == Receive(h, c, "route")
ReceivePayment(h, c) == Receive(h, c, "payment")

(* default_handler looks for the customer's active session. *)
Route(h) ==
  /\ At(h, "route")
  /\ LET rows == ActiveRows(job[h].customer)
         i == First(rows)
     IN  IF rows = {}
         THEN Goto(h, "new")
         ELSE job' = [job EXCEPT ![h].step = "active", ![h].row = i,
                                 ![h].state = session[i].state,
                                 ![h].coin = session[i].coin]
  /\ OnlyJob

(* handle_no_active_airdrop_drop_session, in its order. *)
Decline(h) ==
  /\ At(h, "new")
  /\ \/ ~open
     \/ RowsOf(job[h].customer, SoldStates \cup ErroredStates) # {}
  /\ Done(h)
  /\ OnlyJob

Welcome(h) ==
  /\ At(h, "new")
  /\ open
  /\ RowsOf(job[h].customer, SoldStates \cup ErroredStates) = {}
  /\ Goto(h, "quota")
  /\ OnlyJob

RejectOverQuota(h) ==
  /\ At(h, "quota")
  /\ ~UnderQuota
  /\ Done(h)
  /\ OnlyJob

(* The wallet has the funds for an initial payment, or it does not and     *)
(* NotEnoughFundsException ends the handler.                               *)
CheckQuota(h) ==
  /\ At(h, "quota")
  /\ UnderQuota
  /\ Goto(h, "get") \/ Done(h)
  /\ OnlyJob

(* get_or_create is a SELECT and, when it finds nothing, an INSERT: no     *)
(* constraint of the table keeps two handlers from inserting.              *)
GetSession(h) ==
  /\ At(h, "get")
  /\ IF RowsOf(job[h].customer, {READY}) = {}
     THEN Goto(h, "create") ELSE Done(h)
  /\ OnlyJob

(* As it would be if the row's time of update were not set. *)
CreateSessionUndated(h) ==
  /\ At(h, "create")
  /\ session' = Append(session, [customer |-> job[h].customer, state |-> READY,
                                 coin |-> NoCoin])
  /\ Done(h)
  /\ UNCHANGED <<coinVars, recent, prefs, open, boundVars, history>>

CreateSession(h) ==
  /\ At(h, "create")
  /\ session' = Append(session, [customer |-> job[h].customer, state |-> READY,
                                 coin |-> NoCoin])
  /\ recent' = Append(recent, Len(session) + 1)
  /\ Done(h)
  /\ UNCHANGED <<coinVars, prefs, open, boundVars, history>>

(* As it would be if handle_over_quota cancelled the session. *)
HandleOverQuotaByCancelling(h) ==
  /\ At(h, "active")
  /\ ~UnderQuota
  /\ SetState(h, CANCELLED, "save")
  /\ OnlyJob

(* handle_active_airdrop_drop_session checks the quota first, whatever the *)
(* state of the session.                                                   *)
HandleOverQuota(h) ==
  /\ At(h, "active")
  /\ ~UnderQuota
  /\ SetState(h, OUT_OF_STOCK, "save")
  /\ OnlyJob

Active(h, state) == At(h, "active") /\ UnderQuota /\ job[h].state = state

(* READY: yes, no, or anything else, which saves the copy as it was read. *)
AnswerReady(h) ==
  /\ Active(h, READY)
  /\ \/ SetState(h, CANCELLED, "save")
     \/ Goto(h, "offer")
     \/ Goto(h, "save")
  /\ OnlyJob

(* "yes": the quota and the wallet are checked once more. *)
Offer(h) ==
  /\ At(h, "offer")
  /\ \/ UnderDropQuota /\ Goto(h, "initial")
     \/ SetState(h, CANCELLED, "save")   \* over quota, or no funds
  /\ OnlyJob

(* WAITING_FOR_PAYMENT only gets explanations. *)
ExplainPayment(h) ==
  /\ Active(h, WAITING_FOR_PAYMENT)
  /\ Done(h)
  /\ OnlyJob

(* As it would be if a "no" left no preferences behind. *)
AnswerContactUnrecorded(h) ==
  /\ Active(h, ALLOW_CONTACT_REQUESTED)
  /\ prefs' \in {prefs, prefs \cup {job[h].customer}}
  /\ SetState(h, COMPLETED, "save")
  /\ UNCHANGED <<coinVars, rowVars, open, boundVars, history>>

(* ALLOW_CONTACT_REQUESTED: an answer is recorded in the preferences; the  *)
(* rest is help.                                                           *)
AnswerContact(h) ==
  /\ Active(h, ALLOW_CONTACT_REQUESTED)
  /\ prefs' = prefs \cup {job[h].customer}
  /\ SetState(h, COMPLETED, "save")
  /\ UNCHANGED <<coinVars, rowVars, open, boundVars, history>>

HelpContact(h) ==
  /\ Active(h, ALLOW_CONTACT_REQUESTED)
  /\ Done(h)
  /\ OnlyJob

(* A handler that comes to its end without an answer to a payment has kept *)
(* the customer's money.                                                   *)
Finish(h) ==
  /\ Done(h)
  /\ kept' = IF job[h].paid /\ job[h].sends = 0
             THEN kept \cup {job[h].customer} ELSE kept

(* The last save() of a handler. *)
Save(h) ==
  /\ At(h, "save")
  /\ SaveRow(h)
  /\ Finish(h)
  /\ UNCHANGED <<coinVars, prefs, open, boundVars, initial, bonus, repeated>>

-----------------------------------------------------------------------------
(* Outgoing payments *)

(* send_reply_payment may send the money; fail, which is recorded and      *)
(* otherwise ignored; return no Payment, when the customer has deactivated *)
(* payments, and stop the handler with an AttributeError; or send the      *)
(* money and still return no Payment, when the receipt cannot be stored.   *)
(* Money that is sent may be sent n times more, once for each request that *)
(* failed after a transfer (ReplyPayment says it of module Payments).      *)
Outcomes == {"sent", "failed", "deactivated", "unstored"}
Received(o) == o \in {"sent", "unstored"}
Continues(o) == o \in {"sent", "failed"}
Repeats == 0 .. MaxDisturbances

Attempt(o, n) ==
  /\ n > 0 => Received(o)
  /\ LET faults == n + (IF o = "sent" THEN 0 ELSE 1)
     IN  /\ disturbances + faults <= MaxDisturbances
         /\ disturbances' = disturbances + faults

(* The transfers of a payment to its customer. *)
Pay(paid, h, o, n) ==
  IF Received(o) THEN [paid EXCEPT ![job[h].customer] = @ + 1 + n] ELSE paid

(* The handler tries a payment, then goes on to a step or is stopped. *)
Send(h, o, n, state, step) ==
  /\ Attempt(o, n)
  /\ IF Continues(o)
     THEN job' = [job EXCEPT ![h].sends = @ + 1, ![h].state = state,
                             ![h].step = step]
     ELSE Done(h)

(* As it would be if the session were not moved on. *)
SendInitialAndStay(h) ==
  /\ At(h, "initial")
  /\ \E o \in Outcomes, n \in Repeats :
       /\ Send(h, o, n, READY, "save")
       /\ initial' = Pay(initial, h, o, n)
  /\ UNCHANGED <<coinVars, rowVars, prefs, open, messages, bonus, repeated,
                 kept>>

SendInitial(h) ==
  /\ At(h, "initial")
  /\ \E o \in Outcomes, n \in Repeats :
       /\ Send(h, o, n, WAITING_FOR_PAYMENT, "save")
       /\ initial' = Pay(initial, h, o, n)
  /\ UNCHANGED <<coinVars, rowVars, prefs, open, messages, bonus, repeated,
                 kept>>

-----------------------------------------------------------------------------
(* Incoming payments *)

WaitingRows(c) == RowsOf(c, {WAITING_FOR_PAYMENT})

(* handle_payment: the transaction did not succeed. *)
IgnoreFailed(h) ==
  /\ At(h, "payment")
  /\ Done(h)
  /\ OnlyJob

(* Nobody waits for it. *)
FindUnsolicited(h) ==
  /\ At(h, "payment")
  /\ WaitingRows(job[h].customer) = {}
  /\ job' = [job EXCEPT ![h].step = "unsolicited", ![h].paid = TRUE]
  /\ OnlyJob

(* A session of this customer waits for it, of an open drop or not. *)
FindWaiting(h) ==
  /\ At(h, "payment")
  /\ WaitingRows(job[h].customer) # {}
  /\ LET i == First(WaitingRows(job[h].customer))
     IN  job' = [job EXCEPT ![h].step = "claim", ![h].paid = TRUE,
                            ![h].row = i, ![h].state = session[i].state,
                            ![h].coin = session[i].coin]
  /\ Call(h)
  /\ UNCHANGED <<rowVars, prefs, open, boundVars, history>>

(* A reply that changes nothing but the handler. *)
Refund(h, step) ==
  /\ \E o \in Outcomes, n \in Repeats : Send(h, o, n, job[h].state, step)
  /\ UNCHANGED <<coinVars, rowVars, prefs, open, messages, history>>

(* handle_unsolicited_payment returns it less the fee, if that is more. *)
RefundUnsolicited(h) == At(h, "unsolicited") /\ Refund(h, "end")

KeepSmall(h) ==
  /\ At(h, "unsolicited")
  /\ Done(h)
  /\ OnlyJob

(* find_and_claim_unclaimed_coin, in the steps of BonusCoins. *)
Claim(h) ==
  /\ At(h, "claim")
  /\ ClaimStep(h)
  /\ UNCHANGED <<rowVars, prefs, open, job, boundVars, history>>

(* claim_random_coin_for_session notes the coin, or its absence, in the    *)
(* handler's copy of the session ...                                       *)
TakeCoin(h) ==
  /\ At(h, "claim")
  /\ pc[h] = "claimed"
  /\ job' = [job EXCEPT ![h].coin = coin[h], ![h].step = "save_coin",
                        ![h].state = ALLOW_CONTACT_REQUESTED]
  /\ Return(h)
  /\ UNCHANGED <<rowVars, prefs, open, boundVars, history>>

(* As it would be if the exception were not raised again. *)
TakeNothingQuietly(h) ==
  /\ At(h, "claim")
  /\ pc[h] = "out_of_stock"
  /\ SetState(h, OUT_OF_STOCK, "bonus")
  /\ Return(h)
  /\ UNCHANGED <<rowVars, prefs, open, boundVars, history>>

TakeNothing(h) ==
  /\ At(h, "claim")
  /\ pc[h] = "out_of_stock"
  /\ SetState(h, OUT_OF_STOCK, "save_sold_out")
  /\ Return(h)
  /\ UNCHANGED <<rowVars, prefs, open, boundVars, history>>

(* ... and saves it. *)
SaveClaim(h, from, to) ==
  /\ At(h, from)
  /\ SaveRow(h)
  /\ Goto(h, to)
  /\ UNCHANGED <<coinVars, prefs, open, boundVars, history>>

(* The wallet covers the bonus, or the payment is returned at once. *)
CheckFunds(h) ==
  /\ At(h, "funds")
  /\ Goto(h, "bonus") \/ Goto(h, "refund_funds")
  /\ OnlyJob

(* As it would be if the flag were not set. *)
RefundFundsUnflagged(h) ==
  /\ At(h, "refund_funds")
  /\ Refund(h, "except")

RefundFunds(h) ==
  /\ At(h, "refund_funds")
  /\ \E o \in Outcomes, n \in Repeats :
       /\ Attempt(o, n)
       /\ IF Continues(o)
          THEN job' = [job EXCEPT ![h].sends = @ + 1, ![h].refunded = TRUE,
                                  ![h].step = "except"]
          ELSE Done(h)
  /\ UNCHANGED <<coinVars, rowVars, prefs, open, messages, history>>

(* The except clause serves both errors: it returns the payment unless     *)
(* that was done.                                                          *)
RefundSoldOut(h) ==
  /\ At(h, "except")
  /\ ~job[h].refunded
  /\ Refund(h, "end")

(* As it would be if the except clause only logged. *)
LeaveExceptAlways(h) ==
  /\ At(h, "except")
  /\ Goto(h, "end")
  /\ OnlyJob

LeaveExcept(h) ==
  /\ At(h, "except")
  /\ job[h].refunded
  /\ Goto(h, "end")
  /\ OnlyJob

(* The bonus goes out together with the payment and its fee ... *)
SendBonus(h) ==
  /\ At(h, "bonus")
  /\ \E o \in Outcomes, n \in Repeats :
       /\ Send(h, o, n, job[h].state, "preferences")
       /\ bonus' = Pay(bonus, h, o, n)
       /\ repeated' = repeated + n
  /\ UNCHANGED <<coinVars, rowVars, prefs, open, messages, initial, kept>>

(* ... and then a customer with preferences is done, another is asked for  *)
(* them.                                                                   *)
CheckPreferences(h) ==
  /\ At(h, "preferences")
  /\ SetState(h, IF job[h].customer \in prefs THEN COMPLETED
                 ELSE ALLOW_CONTACT_REQUESTED,
              "save")
  /\ OnlyJob

(* The handler returns. *)
End(h) ==
  /\ At(h, "end")
  /\ Finish(h)
  /\ UNCHANGED <<coinVars, rowVars, prefs, open, boundVars, initial, bonus,
                 repeated>>

(* A message to the customer, a query or a save() raises and stops the     *)
(* handler before what it was about to do: nothing in it catches that.     *)
(* Payments fail in their own way, and in the middle of a claim only a     *)
(* crash is modelled.                                                      *)
HandlerFails(h) ==
  /\ job[h].step \notin {"idle", "claim"}
  /\ Disturb
  /\ Done(h)
  /\ UNCHANGED <<coinVars, rowVars, prefs, open, messages, history>>

-----------------------------------------------------------------------------
(* The subscriber's process dies in the middle of its handlers.  Their     *)
(* messages stay PROCESSING and are not handled again (MessageQueue).      *)
Crash ==
  /\ Disturb
  /\ job' = [h \in Workers |-> NoJob]
  /\ pc' = [h \in Workers |-> "idle"]
  /\ coin' = [h \in Workers |-> NoCoin]
  /\ seen' = [h \in Workers |-> 0]
  /\ UNCHANGED <<number_claimed, calls, claims, raced, rowVars, prefs, open,
                 messages, history>>

(* The drop's end time passes. *)
EndDrop ==
  /\ open
  /\ open' = FALSE
  /\ UNCHANGED <<coinVars, rowVars, prefs, job, boundVars, history>>

Chat(h) ==
  \/ Route(h) \/ Decline(h) \/ Welcome(h) \/ RejectOverQuota(h)
  \/ CheckQuota(h) \/ GetSession(h) \/ CreateSession(h)
  \/ HandleOverQuota(h) \/ AnswerReady(h) \/ Offer(h) \/ SendInitial(h)
  \/ ExplainPayment(h) \/ AnswerContact(h) \/ HelpContact(h) \/ Save(h)

Payment(h) ==
  \/ IgnoreFailed(h) \/ FindUnsolicited(h) \/ FindWaiting(h)
  \/ RefundUnsolicited(h) \/ KeepSmall(h)
  \/ Claim(h) \/ TakeCoin(h) \/ TakeNothing(h)
  \/ SaveClaim(h, "save_coin", "funds")
  \/ SaveClaim(h, "save_sold_out", "except")
  \/ CheckFunds(h) \/ RefundFunds(h) \/ RefundSoldOut(h) \/ LeaveExcept(h)
  \/ SendBonus(h) \/ CheckPreferences(h) \/ End(h)

AirNext ==
  \/ \E h \in Workers :
       \/ \E c \in Customers : ReceiveChat(h, c) \/ ReceivePayment(h, c)
       \/ Chat(h) \/ Payment(h) \/ HandlerFails(h)
  \/ Crash
  \/ EndDrop

AirSpec == AirInit /\ [][AirNext]_airVars

-----------------------------------------------------------------------------
JobType ==
  [step : JobSteps, customer : Customers \cup {NoCustomer},
   row : Rows \cup {NoRow}, state : SessionStates, coin : Coins \cup {NoCoin},
   refunded : BOOLEAN, paid : BOOLEAN, sends : Nat]

(* Rows and their order of saving stay in step; a handler is where it can  *)
(* be and holds the key of a row that exists.                              *)
AirTypeOK ==
  /\ TypeOK
  /\ session \in Seq([customer : Customers, state : SessionStates,
                      coin : Coins \cup {NoCoin}])
  /\ recent \in Seq(Rows)
  /\ Len(recent) = Len(session) /\ \A i \in Rows : \E k \in Rows : recent[k] = i
  /\ prefs \subseteq Customers
  /\ open \in BOOLEAN
  /\ job \in [Workers -> JobType]
  /\ messages \in 0 .. MaxMessages
  /\ disturbances \in 0 .. MaxDisturbances
  /\ initial \in [Customers -> Nat]
  /\ bonus \in [Customers -> Nat]
  /\ repeated \in Nat
  /\ kept \subseteq Customers

Undisturbed == disturbances = 0

(* "we're only allowing one MOB airdrop per person" (chat_strings.py:130). *)
OneAirdropEach == \A c \in Customers : initial[c] <= 1 /\ bonus[c] <= 1

(* It is so while customers wait for the answer to each message and        *)
(* nothing breaks, however the handlers of different customers interleave. *)
OneAirdropIfPatient == Undisturbed => OneAirdropEach

(* What an impatient customer, a failure or a crash can add to that: two   *)
(* sessions created at once, a session that a stale copy takes back, a     *)
(* payment made without being noted, or made again, each yield one airdrop *)
(* more and no chain of them.                                              *)
AirdropsBounded ==
  \A c \in Customers :
    initial[c] <= 1 + disturbances /\ bonus[c] <= 1 + disturbances

(* The initial payments received by all customers. *)
InitialPaid == Total(initial)

(* The quota is checked before the initial payment and counted after it,   *)
(* so handlers that pass the check together overshoot the limit, but by no *)
(* more than the pool has threads to spare (drop_session.py:31-36).        *)
BoundedOvershoot ==
  Undisturbed /\ InitialCoinLimit > 0 =>
    InitialPaid <= InitialCoinLimit + Cardinality(Workers) - 1

(* Every coin on a session's row comes from a claim of its own, and so     *)
(* does every bonus that no retry made again, also when copies of a row    *)
(* are saved over each other.  A retry makes one again only after a fault. *)
EveryBonusClaimed ==
  /\ \A c \in Coins :
       Cardinality({i \in Rows : session[i].coin = c}) <= claims[c]
  /\ Total(bonus) <= Total(claims) + repeated
  /\ repeated <= disturbances

(* Unless a save() overlapped another claim of its coin, no more bonuses   *)
(* are paid than there are units and retries that paid one again, whatever *)
(* else fails or dies in between: an overshoot of the initial payments is  *)
(* not one of the bonuses (base.py:228-290, air_drop_session.py:28-58).    *)
BonusesWithinStock ==
  (\A c \in Coins : ~raced[c]) => Total(bonus) <= InitialCoinLimit + repeated

(* The question for contact is settled by the customer's preferences: a    *)
(* session is completed only for a customer who has them, and one who has  *)
(* them and was paid the bonus is not left at the question, whichever of   *)
(* the payment's handler and the answer's came to know of them             *)
(* (air_drop_session.py:69-80, drop_session.py:69-90).                    *)
QuestionSettled ==
  \A i \in Rows :
    LET c == session[i].customer IN
    /\ session[i].state = COMPLETED => c \in prefs
    /\ session[i].state = ALLOW_CONTACT_REQUESTED
       /\ bonus[c] > 0 /\ c \in prefs =>
         disturbances > 0 \/ \E h \in Workers : job[h].customer = c

(* No handler calls send_reply_payment twice: the refunded flag and the    *)
(* two error paths of handle_airdrop_payment leave one refund or one bonus *)
(* to each payment, however often its retries then transfer it.            *)
AnsweredOnce == \A h \in Workers : job[h].sends <= 1

(* A handler that reaches its end has tried to return the payment it       *)
(* answers, on every path but that of a payment smaller than the fee.      *)
NothingKept == kept = {}

(* Saving stale copies does not undo progress while customers are patient: *)
(* a session that got its initial payment never returns to a state where   *)
(* it could get another, and a claimed coin stays on its row.              *)
NoStepBack ==
  [][Undisturbed =>
       \A i \in Rows :
         /\ session[i].state > READY => session'[i].state > READY
         /\ session[i].coin # NoCoin =>
              session'[i].coin = session[i].coin]_airVars

-----------------------------------------------------------------------------
(* "Send us 0.001 MOB, and we'll send it back, plus more!"                 *)
(* (chat_strings.py:122): the payment of a customer who got the initial    *)
(* coins and no bonus yet is not taken for an unsolicited one.             *)
PaymentExpected ==
  \A h \in Workers :
    At(h, "unsolicited") =>
      ~(initial[job[h].customer] > 0 /\ bonus[job[h].customer] = 0)
=============================================================================
