# MOBot in TLA+

A verification project for MOBot, the Signal chat bot that runs air drops and
item drops of MobileCoin. The modules are TLA+ translations of the Python
source; TLC checks them on small instances and TLAPS proves the theorems listed
below for every value of the constants. Paths are relative to
`src/src/mobot_client/` unless they start with `src/`.

## The system

A *listener* process receives messages from signald and stores them as rows of
the `Message` table. A *subscriber* polls the table, claims a message, and a
pool of eight threads handles the claimed messages: a chat message goes through
a list of regular expressions to a handler (usually `default_handler`), a
payment goes to `handle_payment`. Handlers read and write `DropSession`,
`BonusCoin`, `Order` and preference rows, send texts through signald and money
through full-service. All coordination is in PostgreSQL, in autocommit mode at
READ COMMITTED; there are no table locks and almost no constraints, two
conditional UPDATEs excepted.

| Component | Source | State | Operations | Correct when | Status |
|---|---|---|---|---|---|
| Bonus coin claims | `models/base.py:228-320` | `number_claimed` of each coin | claim by optimistic UPDATE, retry, save | a unit is given away once; the column counts the claims; calls return | modelled |
| Message queue, subscriber | `models/messages.py`, `core/subscriber.py`, `core/context.py`, `concurrency/` | `status` of each message, the pool's FIFO, the threads | select, claim, submit, handle, write the status; crash, restart | a message has one owner, is handled at most once, and is answered if nothing fails | modelled |
| Air drop conversation | `air_drop_session.py`, `drop_session.py`, `drop_runner.py` | `DropSession` rows, preferences, payments sent | the handlers of a session and of a payment | one airdrop per customer, within the quota; every payment back is answered exactly once | modelled |
| Item drop conversation | `item_drop_session.py`, `drop_runner.py:83-144`, `payments/payments.py:237-303` | sessions, stock, refund counters | show the catalogue, pay, ask for the size, cancel, refund | what goes out is bounded by what came in; refunds and sessions balance | modelled as far as it can be reached |
| Signal logger | `src/src/signal_logger/main.py`, `models/messages.py:55-80,146-164`, `payments/client.py` | raw rows, incoming payments, messages, four threads | read, wait for the payment, store, mark as read | what is stored is settled, what is read is stored, no message waits for ever on the account of another | modelled |
| Outgoing payments | `payments/payments.py:61-220` | wallet, transactions, payments, receipts | send with nested retries, record | the record is true; one transaction per reply | modelled |
| Preferences | `drop_runner.py:189-217`, `drop_session.py:69-89` | preference rows | subscribe, unsubscribe, contact answer | one row per customer | contact answer only (`AirDrop`) |
| Process management | `management/commands/run_mobot_client.py`, chart | two processes in a container | start, end, restart | both run while the container does | partly |
| Routing, messenger, admin, settings, maintenance commands, `timeouts.py` | see PROJECT.json | none of their own | | | not modelled |

How they interact: the listener and the subscriber share only the `Message`
table. Handlers of different threads share only the database. Payments and
texts are blocking calls made by a handler between its read of a row and its
`save()`, which writes all columns of the row from the copy it read.

What is hard here: the interleavings of threads over rows that are read, worked
on for seconds and written back; messages of one customer in two threads at
once; a crash between claim, payment and save; payments and texts that fail
half-way; retries without an end. PROJECT.json lists each hazard at its line
with the properties that watch it.

## Modules

| Module | What it is |
|---|---|
| `CoinPool` | abstract: taking a unit of a stock is one step, refusal means that all stocks are empty |
| `BonusCoins` | `find_and_claim_unclaimed_coin`, one action per database access |
| `AtMostOnceQueue` | abstract: a message is taken, handled and settled at most once; failures may lose taken messages |
| `MessageQueue` | the table, the subscribers' polling loops and their pools, crashes and failures |
| `AirDrop` | extends `BonusCoins`: the air drop conversation over `DropSession` rows; its handlers are the workers of `BonusCoins` |
| `ItemDrop` | the item drop conversation over `DropSession` and `CustomerDropRefunds` rows |
| `ReplyPayment` | abstract: a reply makes a transfer, and one more for each fault that makes it start over; its outcome tells whether there was any |
| `Payments` | `send_reply_payment` with everything it retries, over a wallet and a ledger |
| `SignalLogger` | the listener: stream, pool, incoming payments |
| `MCBonusCoins`, `MCMessageQueue`, `MCAirDrop`, `MCItemDrop`, `MCPayments`, `MCSignalLogger` | instances for TLC |
| `BonusCoinsProofs`, `MessageQueueProofs`, `PaymentsProofs`, `SignalLoggerProofs`, `ItemDropProofs` | theorems and proofs |
| `AirDropProofs`, `AirDropMoneyProofs` | theorems and proofs of `AirDrop`: where its handlers stand; who is paid what |
| `Totals`, `TotalsProofs` | the total of a function into the naturals, as a cardinality; lemmas about totals and finite sets |

How they fit: `SignalLogger` ends where `MessageQueue` begins, its `Save` is
`Store` of the other. `MessageQueue` ends where a handler begins; `AirDrop` and
`ItemDrop` are the handlers, in as many threads as they like, and take each
message once, which is the theorem `HandledAtMostOnceHolds`. They take an
outgoing payment for one step with one of four outcomes and a number of
repeated transfers, each of which costs a disturbance: that is `ReplyPayment`,
and `ReplyPromiseHolds` proves that `Payments` is one, to its end and whatever
is retried. `AirDrop` extends `BonusCoins`, which implements `CoinPool` until
two claims overlap.

A definition named `...OffByOne`, `...Unchecked`, `FooAlways` and so on, with a
comment that begins "As it would be", is not part of a specification: it is a
plausible mistake in the definition that follows it, and shows that the
property it belongs to would notice.

### BonusCoins

`number_claimed` is the column. Each worker has the program counter `pc` and the
local `coin` object with its attribute `seen`. `Find`/`FindNothing` are the
SELECT with the weighted choice (any coin with units left has a positive
weight), `ClaimOptimistic`/`RetryClaim` the conditional UPDATE that matches the
row or not, `RefreshFromDb` the second read, `SaveCoin` the `save()` of the
whole object, `Return` the end of the call. The retry decorator starts again at
the SELECT; its waiting time is not modelled. The test
`coin.number_remaining() < 1` (`models/base.py:282`) cannot be true of a row the
SELECT returned and has no action. `claims` and `raced` are history: what was
really claimed, and on which coins a claim fell between another call's UPDATE
and `save()`.

### MessageQueue

`status` is the column, `pc`/`message` the polling loop of `run_chat`,
`submitted` the FIFO of the thread pool, `work` what its threads do. `Store` is
the listener. `Select` is `not_processing().first()`: one arbitrary waiting
message of the first customer that has any, because the query orders by
`customer_id` only. `Claim` is the conditional UPDATE; a loop whose message was
claimed by another stays in `claim` (`Beaten`), because the retry has no stop.
`StartWork` to `Leave` are `process_message` in its `ChatContext`: what
`_isolated_handler` swallows makes no difference to the status, an error before
the handler gives `ERROR`, and so does one after it, in the log line that reads
the message's payment once more (`LogFails`). `WorkerFails` is a failing
database access of `ChatContext`, which leaves the row PROCESSING. `PollFails`
is a failing access of the loop: the `None` that `_get_and_process` returns then
ends `run_chat`, while the pool drains and the process stays. `Crash` loses the
memory of a process, `Restart` starts it with an empty one. Messages of other
stores, and the text sent under heavy load, are left out.

Several subscribers are more than the chart starts (`replicaCount: 1`,
`Recreate`), but they are what the conditional UPDATE and its retry are for.

### AirDrop

`session` holds the rows (customer, state, coin), `recent` their order by
`updated`, which `first()` uses after the state. A handler is a `job`: its
`step`, the customer, the key and the copied fields of its row. Every SELECT,
`save()` and outgoing payment is a step, so everything may happen in between;
the two COUNTs of a quota check are one step. `Route` is `default_handler`,
`Decline` ... `CreateSession` are `handle_no_active_airdrop_drop_session` with
`get_or_create` as a SELECT and an INSERT, `HandleOverQuota` ... `Save` the
active session, `FindWaiting` ... `End` a payment. `Claim` takes the steps of
`BonusCoins`.

An outgoing payment has four outcomes (`Outcomes`): sent; failed and recorded,
which no caller looks at; not sent because the customer has no payments address
any more, where `send_reply_payment` calls `save()` on `None` and the handler
ends with an exception; sent but with no receipt stored, where the same happens.
Money that is sent may be sent `n` times more (`Attempt`), once for each request
that failed after a transfer; `repeated` counts the bonuses among them. The
transfers of one call are one step: nothing but the history reads them, and a
crash between two of them leaves what a call with fewer of them and a crash
after it leave. `HandlerFails` stops a handler before any of its steps, when a
text, a query or a `save()` raises; what raises in the middle of a claim is left
to the crash. A payment that never returns (`Payments!Stranded`) is a handler
that takes no further step. The wallet's funds are a free choice at each check.
`Crash` ends all handlers at once; their messages are not handled again (that is
`MessageQueue`'s theorem). `EndDrop` lets the end time pass.

Abstractions, and why they are harmless:
- `Customers` are those who meet the country restriction and have an address:
  the others are answered with a text and leave no state.
- A chat message has no text; each branch a text can select is a choice.
- A payment is larger or smaller than the fee by choice (`KeepSmall`).
- `manual_override` is false: if it is set, the bot does nothing.
- `subscribe` and `unsubscribe` are not interleaved: they change `allows_contact`
  only, and cannot create a row (the column has no default and is not null).
- The quota is the code's: `under_quota` compares the bonus coins claimed with the
  initial payments left, so every finished customer counts twice and a drop says
  that all is distributed when about half is. This needs no interleaving and no
  property is about it.
- One drop, with at least one bonus coin row: without one `num_bonus_sent` is
  `None` and `under_quota` raises before anything changes.

A disturbance is a payment that fails or is made again, a failed text or
database access, a crash, or a message that arrives while a handler works on
another of the same customer; `MaxDisturbances` bounds them together. What holds
"if nothing is disturbed" is what a customer who waits for each answer is
promised by a bot whose calls succeed, next to any number of other customers.

### ItemDrop

As in `AirDrop` a handler is a `job` with copies of its rows, and every query,
`save()` and payment is a step. `GoOn`, `StartNew` are `default_handler`,
`GetSession` and `CreateSession` the `get_or_create` of a new session, `ShowCatalog`
... `RequestPayment` the catalogue, which reads the skus twice, `Chat` and
`HandleCancel` the state WAITING_FOR_PAYMENT, `FindWaiting` ... `AskSize` a payment,
`CancelSize` ... `RefundPrice` the state WAITING_FOR_SIZE with
`handle_cancel_and_refund`. Some of what the code does may surprise a reader of
the model:
- The conversation ends with the size. `skus` are read through
  `AvailableSkuManager`, whose annotation `number_ordered` is an attribute of each
  row and hides the method of that name; `Sku.in_stock` calls the integer.
  `AnswerSize` therefore changes nothing, no `Order` is ever made, the stock is
  changed only by the admin pages (`EditStock`), and name, address and
  confirmation are not modelled.
- A payment between the price and the price plus the fee is kept, and its
  handler ends with a `KeyError` (`Exact`).
- A payment below the price is returned, less the fee, and treated as a
  purchase (`ReturnUnderpayment` goes on with `CheckStock`).
- "cancel" before the payment cancels the session, shows the catalogue again
  and so puts it back to WAITING_FOR_PAYMENT (`HandleCancel`, `RequestPayment`).
- The state of a restricted customer's session is not saved (`CreateSession`), so
  the second message is served (`GoOn`).

Amounts are small numbers: the price is 3, the fee 1, and 1, 2, 3 and 5 are a
payment that does not cover the fee, one below the price, the exact one and one
with an excess worth returning. `MaxAmount` is the largest a customer pays at a
time: what is returned once more by a retry may be an unsolicited payment of
that size, so that a disturbance costs the store the larger of the price plus
the fee and of that amount less the fee (`Cost`). `underpaid` counts, for each
customer, the payments below the price that were taken for the item. Whether the
customer has a payments address is a choice at each check. The texts, `info`,
`chart`, `privacy` and `help` are the choice `Chat` and `AnswerSize`.

### Payments

A call is a thread in `send_reply_payment`, its `step` the request it makes
next. `GetAddress`, `FindNoAddress`, `FindInvalidAddress`, `CatchFailure` are
`_send_mob_to_customer`, `Submit` ... `ApologyFails` `send_mob_to_address`,
`SavePayment`, `LogResponse` the rest. `payment` is the object, `row` what the
database has of it. A retry is a step back: of everything to `build`, of a
receipt to `receipt`, of `get_txo` by waiting. An address that is none passes
the test for `None` and fails in each attempt, before anything is built: the
call stays in `invalid`. Full-service and the ledger are external: `Funded`,
`Land`, `Expire`. Amounts are left out, each call pays one unit of `Funds`; a
call of an amount that the fee reduces to nothing returns `None` before anything
is sent, as without an address.

Three except clauses are worth knowing: the one of `send_reply_payment`
(`payments.py:107`) catches only what precedes the submission, as all that
follows is retried; the one around `get_txo_result` (`payments.py:180`) is never
reached; the one that tells the customer that there is no receipt pays again
when that message fails.

### SignalLogger

`stage` is how far a thread came with a message, `stored` the `Message` rows,
`payment` the row of the incoming payment, `arrival` the place in the stream.
`Receive`, `StreamEnds`, `Drained` are `listen` and the shutdown of the executor,
`Begin` ... `Acknowledge` `_parse_message`. A check of the receipt that fails before
the row of the payment exists is retried and changes nothing, and so has no
action: the thread stays in `check`, for ever if the wallet never accepts the
receipt or never answers with its `txo`. One that fails after it (`RetryCall`)
leads to a second `create()` for the same receipt, an `IntegrityError` and the
next retry: `check` again, and now without a way out. A transaction that never
lands leaves the thread in `wait`. All three are `Held`. A status that
`PaymentStatus` does not have and a failing database are failing checks too, and
the `ProcessingError` that is to record one cannot be saved, since its message
has no row. `Crash` loses what was read and not stored.

## What the runs check

| Run | Instance | Result |
|---|---|---|
| `bonus_coins` | 3 threads, coins with 1 and 2 units, 5 calls, fair threads | `NeverOverdrawn`, `ClaimsCounted`, `PoolUntilRace`, `CallReturns` hold |
| `bonus_coins_overclaim` | the same | `ClaimsWithinStock` fails: a unit is given away twice |
| `message_queue` | 2 subscribers, pools of 2, 3 messages of 2 customers, 1 crash, 1 failure, fair | `OneOwner`, `HandledAtMostOnce`, refinement `Promise`, `EveryMessageClaimed`, `EveryMessageAnswered` hold |
| `message_queue_per_customer` | 1 subscriber | `OneMessagePerCustomer` fails |
| `air_drop` | 2 handlers, 3 customers, 1 bonus coin with one unit, 6 messages, 1 disturbance | `EveryBonusClaimed`, `AnsweredOnce`, `NothingKept`, `BoundedOvershoot`, `BonusesWithinStock` hold |
| `air_drop_contact` | 2 handlers, 2 customers, 1 bonus coin with three units, 6 messages, 1 disturbance | `OneAirdropIfPatient`, `AirdropsBounded`, `QuestionSettled`, `NoStepBack` hold |
| `air_drop_send_back` | 1 customer, 1 bonus coin, one handler | `PaymentExpected` fails |
| `item_drop` | 2 handlers, 1 customer, 6 messages, 1 disturbance, one fee covered | `ReturnsBounded`, `FeesBounded`, `ActiveSessionsBounded`, `RefundedIsReturned` hold |
| `item_drop_refund` | 1 handler, nothing disturbed | `RefundIsPayment` fails: pay 1, get the price and the fee |
| `payments` | 3 calls, 4 units, 3 faults, fair | `PaymentsBounded`, `SuccessIsTrue`, `FailureIsTrue`, `ReplyPromise`, `CallReturns` hold |
| `payments_paid_once` | 1 call | `PaidOnce` fails |
| `signal_logger` | pool of 2, a text, two payments, an empty message, 2 failures, 1 crash, fair | `SettledWhenStored`, `ReadIsKept`, `GracefulStop`, `BoundedOvertaking`, `EveryMessageEnds` hold |

The failing properties say what a comment, a text to the customer or a test says
of the program; PROJECT.json quotes the line in each finding.

Some properties name what the code does not promise, so that the rest can be
promised without a gap:
- Money: a lost reply makes `send_mob_to_address` pay again, and so `EveryBonusClaimed`
  and `BonusesWithinStock` count the bonuses that a retry repeated (`repeated`),
  `AirdropsBounded` allows one airdrop more for each disturbance, and
  `ReturnsBounded` the price and the fee for each underpayment and `Cost` for each
  disturbance. A disturbance never starts a chain of further payments.
- Waiting: `CallReturns` of `Payments` excuses a thread that is itself `Stranded`: the
  wallet is empty, its transaction expired, or the address is none.
  `EveryMessageClaimed` is excused from the moment on at which no loop polls, each
  stopped by a failed poll or `Beaten` in a race (`NobodyPolls`); one loop that is
  neither must claim what is stored. `EveryMessageEnds` is excused for a message
  that the wallet holds for ever, and for all when it holds the whole pool.
  `CallReturns` of `BonusCoins` holds because the calls of the other threads
  (`MaxCalls`) and the stock are finite: a call can lose the race as often as
  somebody else wins it.
- `GracefulStop` says what is left when the listener ends by itself, and not that
  anything starts it again: nothing does while the container runs.

### Bounds

Unbounded counters are cut by guards: `MaxCalls`, `MaxMessages`, `MaxFaults`,
`MaxCrashes`, `MaxFailures`, `MaxDisturbances`. Two coins with one and two units
let a call be refused, lose the race, and lose a claim while units are left;
three threads are the least with which a claim falls between another's UPDATE
and `save()` and a third profits. Two subscribers are the least that race, pools
of two let two messages of one customer meet, and a task wait while two others
run. Six air drop messages are what one customer needs to finish (hello, yes,
payment, answer) with two of another in between; three customers and two threads
are the least where the overshoot of the quota could exceed its bound. The quota
counts a finished customer twice, as started and as claimed, so with fewer than
three units every message after the bonus meets the quota and nobody answers the
question for contact; `air_drop_contact` has three. There each customer's
preferences are known or not; in `air_drop`, whose three customers never come to
the question, those of none or of all (`KnownSpec`). `AirDrop` keeps `MaxCalls`
at `MaxMessages`, since a payment claims at most once. Six item drop messages
are two rounds of hello, payment, cancel, so that the second refund is the one
whose fee is not covered; customers do not share rows of an item drop, so one is
enough. Three payments with four units leave one for a payment made twice, and
let the last call find the wallet empty when two are. Two failures in
`SignalLogger` are as many as its pool has threads, so that all may be held; two
threads and four messages make one wait and one be overtaken. One disturbance is
a payment made twice as well as a crash or an overlap; the theorems allow any
number. The largest run, `item_drop`, has 2.3 million states. Deadlock is not
checked where a bound ends the behaviours, or where a thread may be held for
ever.

### Fairness

`BonusCoins!FairSpec` and `MessageQueue!FairSpec` assume that a thread that can
take a step takes one: they are operating system threads and each step is a
database access that returns. `MessageQueue` also assumes that a dead container
is restarted (the deployment's default restart policy) and that handlers
return. `Payments!FairSpec` adds that a transaction that does not expire lands;
which one expires is open, as a fault. `SignalLogger!FairSpec` is fair to the steps
of a thread that are its own (`Own`): that the wallet answers for a receipt
(`CreatePayment`) or settles a transaction (`Settle`) is not assumed, as the code
polls and retries without limit because it may not. Nothing is assumed of
customers, no failure or crash is fair, and neither is the restart of the
listener.
Weak fairness is enough: no property needs that a particular thread wins a
race, only that a race has a winner.

## What is proved

`BonusCoinsProofs`, for any workers, coins, stocks and number of calls,
assuming only `NumberAvailableType`, `MaxCallsType` and `NoCoinFresh`:
- `TypeCorrect`: `TypeOK` is inductive.
- `NeverOverdrawnHolds`: the column never exceeds the stock. The inductive
  invariant adds that what a worker holds in `seen` does not exceed it either,
  since a stale `save()` writes exactly that.
- `ClaimsCountedHolds`: without an overlap on a coin the column counts its
  claims. `ClaimsCounted` says nothing of the workers about to save; `CountInv`
  adds that at most one holds the coin, and that what it refreshed is the
  column.
- `StockUntilRace`: hence no coin is claimed beyond its stock before an overlap.
- `PoolUntilRaceHolds`: the refinement of `CoinPool` up to the first overlap,
  step by step from `CountInv`.

`MessageQueueProofs`, for any messages, customers, subscribers, pool size and
number of crashes and failures, assuming `BoundsType` and `NoMessageFresh`:
- `TypeCorrect`.
- `OneOwnerHolds`: `OneOwner` is inductive together with `TypeOK`. The lemmas
  `AppendHolds`, `AppendDistinct` and `TailHolds` say what a FIFO without
  repetitions holds after `Append` and `Tail`.
- `HandledAtMostOnceHolds`: from `HandledInv`, which adds that a message still on
  its way to a handler has not been handled.
- `PromiseHolds`: the refinement of `AtMostOnceQueue`; each action is the abstract
  step named in `PromiseStep` or a stutter.

`PaymentsProofs`, for any calls, funds and faults, assuming `PaymentsBounds`:
- `TypeCorrect`, with the wallet never overdrawn.
- `PaymentsBoundedHolds`, `SuccessIsTrueHolds`, `FailureIsTrueHolds`: from one
  inductive invariant (`CallInv`) that says, for each step of a call, what was
  submitted, what the ledger has and what the customer has. None of the three
  is inductive: they speak of the row, which is written last.
- `ReplyPromiseHolds`: the refinement of `ReplyPayment`, for whole calls. A call is
  due to pay while it builds and while it never paid (`Due`); the lost reply and
  the failed apology are what makes it due again, and each takes a fault.

`SignalLoggerProofs`, for any messages, pool, failures and crashes, assuming
`ListenerBounds`:
- `TypeCorrect`, and `GracefulStopHolds`, which is inductive with it.
- `SettledWhenStoredHolds`, `ReadIsKeptHolds`: from `StageInv`, which ties the stage
  of a message to its rows.
- `BoundedOvertakingHolds`: from `PoolInv`, which says that no more threads are busy
  than the pool has and that no message in a thread is later than one still
  queued; the messages overtaken are then busy ones other than the overtaker.

`AirDropProofs` and `AirDropMoneyProofs`, for any handlers, customers, coins with
any stocks, quotas, messages and disturbances, assuming the types of the
constants, that the placeholders `NoCustomer` and `NoCoin` are fresh, and that
the pool is finite (`PoolFinite`):
- `AirTypeCorrect`, `AnsweredOnceHolds`, `NothingKeptHolds` follow from `BaseInv`.
  Its core is `JobInv`: for every step, what a handler that stands there has done
  (given back, claimed, read) and what its copy of the row can be. The
  properties speak of the last steps of a handler only, so none is inductive.
- `EveryBonusClaimedHolds`: from `ClaimInv`. The rows that keep a coin, in the
  table or in a handler's copy, and the calls that hold one are no more than its
  claims, and all bonuses paid or about to be paid no more than all claims and
  the bonuses repeated by retries, which are no more than the disturbances.
- `OneAirdropIfPatientHolds`, `NoStepBackHolds`: from `PatientInv`. Undisturbed, a
  customer has one handler, whose copy is the row, and each further state, payment
  and bonus of the customer comes with a row that went forward.
- `QuestionSettledHolds`: from `PrefsInv` (a session that is completed, or that a
  handler is about to save as completed, is of a customer with preferences) and
  the part of `PatientInv` about the question.
- `BoundedOvershootHolds`: from `QuotaInv`. Undisturbed, the initial payments are no
  more than the sessions started or about to be saved, and together with the
  handlers past the check no more than the quota and one for each other thread.
- `ClaimsAreBonusCoins`, `AirDropImplementsPool`: every step of an air drop is one
  of `BonusCoins`, invisible to it, or a crash, so what was proved of a step there
  (`StockStep`, `CountStep`, `PoolStepHolds`) is cited and only the crash is new. It
  takes the coins out of the handlers' hands and undoes no claim.
- `BonusesWithinStockHolds`: from these and `EveryBonusClaimed`. As long as no two
  claims of a coin overlapped between UPDATE and save(), the column counts the
  claims, keeps to the stock, and each bonus has a claim or is a repetition; so
  the overshoot of the initial payments is not one of the bonuses.

`ItemDropProofs`, for any handlers, customers, price, fee, amounts and limit of
covered fees, assuming `MoneyType`, `AmountsType`, `PriceCoversFee`, `FeesType`, `ItemDropBounds`,
`NoCustomerFresh` and `PoolFinite`:
- `TypeCorrect`: from `BaseInv`, which is `JobInv` (where a handler stands says which
  rows it has, what its payment amounts to, which state it is to save) and
  `Counted` (the variables that count are numbers).
- `FeesBoundedHolds`: from `FeesInv`. A handler that may still cover a fee counts as
  if it had. While a customer's handler is alone its copy of the counter is the
  row; a second row of the counter, which two handlers may create, blocks all
  later refunds, and both come with a disturbance.
- `ReturnsBoundedHolds`: from `ReturnsInv`, the books of a customer. What was
  returned, the worth of the sessions and handlers that can still lead to a
  refund (`Held`, where the first handler at a sold session is excused, as the two
  are one refund) and what handlers are to give back or sell (`Owed`) are no more
  than what was paid, the worth of the underpayments and the costs of the
  disturbances. The bound itself is not
  inductive: it does not say that a session waiting for its size was paid for.
- `ActiveSessionsBoundedHolds`: from `SessionsInv`. The sessions that go on, in the
  table or in a handler's copy, are counted together with the handlers that may
  still open one: a handler that found none makes up for the one it opens, and
  only while one has not yet looked may there be one more. A stale copy that
  brings a cancelled session back was counted all the time (`Kept`).
- `RefundedIsReturnedHolds`: from `RefundInv`, which counts the session a handler is
  about to save as refunded too, since it is paid before it is saved.

Totals and numbers of rows are cardinalities (`Totals`), so that these proofs
need no induction over data, which is out of the prover's reach. The properties
were checked by TLC on the instances above before they were proved.

Only model-checked: the liveness properties (`CallReturns` of `BonusCoins` and of
`Payments`, `EveryMessageClaimed`, `EveryMessageAnswered`, `EveryMessageEnds`), which
are out of the prover's reach, and `AirdropsBounded`. All other invariants and
action properties of the passing runs are theorems.

## Plan

Next: a proof of `AirdropsBounded`; and that `AirDrop` and `ItemDrop` make their
payments as `ReplyPayment` says, so that what `Payments` promises of a reply holds in
a conversation by refinement and not by inspection of `Attempt`.

## Not modelled

The item drop after the size (`validated_address`, `confirm_order`, the shipping
confirmation, `Order`) cannot be reached, as said above. `subscribe` and
`unsubscribe` set one column of one row, which no model reads; two preference
rows of one customer come about without any interleaving. Of `Payments` the
balance check `has_enough_funds_for_payment` is a free choice in `AirDrop`; that two
handlers pass it on the same funds is covered by `Payments` only, where one of them
is then `Stranded`.

`timeouts.py` is dead code: nothing imports it. Chat routing chooses a handler by
a regular expression and keeps no state. Texts, logging, formatting, the admin
pages, settings, the one-shot commands, the chart and the privacy page have no
behaviour these models could say something about; where one of them matters
(a text that cannot be sent, a container that is restarted) it is an action of
the models above.
