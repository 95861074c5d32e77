--------------------------- MODULE ItemDropProofs ---------------------------
(***************************************************************************)
(* Proofs about module ItemDrop, for any handlers, customers, price, fee   *)
(* and limit of covered fees, and any number of messages and disturbances. *)
(*                                                                         *)
(* First what each step does to the job of its handler and to the rows:    *)
(* lemmas to cite instead of the actions.  Then five inductive invariants, *)
(* each with a step lemma and the theorem it is for:                       *)
(*                                                                         *)
(*   BaseInv     where a handler stands says what it knows (JobInv), and   *)
(*               the variables that count are numbers (Counted)  TypeOK    *)
(*   FeesInv     a handler that may cover a fee counts as if it had        *)
(*                                                          FeesBounded    *)
(*   ReturnsInv  the books of a customer: what was returned, what is held  *)
(*               and what is owed                        ReturnsBounded    *)
(*   SessionsInv the handlers of a customer, and the sessions that go on   *)
(*               or may be saved as such          ActiveSessionsBounded    *)
(*   RefundInv   the sessions that are or will be saved as refunded        *)
(*                                                   RefundedIsReturned    *)
(***************************************************************************)
EXTENDS ItemDrop, SequenceTheorems, TotalsProofs

-----------------------------------------------------------------------------
(* What a step does to the job of its handler, field by field. *)

AnyJob ==
  [step : JobSteps, customer : Customers \cup {NoCustomer}, row : Nat,
   state : SessionStates, entry : Nat, times : 0 .. MaxFees,
   amount : Amounts \cup {0}, cover : BOOLEAN, again : BOOLEAN]

JobsTyped == job \in [Workers -> AnyJob]

OthersSame(h) == \A g \in Workers \ {h} : job'[g] = job[g]

Becomes(h, step, customer, row, state, entry, times, amount, cover, again) ==
  /\ JobsTyped' /\ OthersSame(h)
  /\ job'[h].step = step
  /\ job'[h].customer = customer
  /\ job'[h].row = row
  /\ job'[h].state = state
  /\ job'[h].entry = entry
  /\ job'[h].times = times
  /\ job'[h].amount = amount
  /\ job'[h].cover = cover
  /\ job'[h].again = again

Sets(h, step, state, again) ==
  Becomes(h, step, job[h].customer, job[h].row, state, job[h].entry,
          job[h].times, job[h].amount, job[h].cover, again)

Moves(h, step) == Sets(h, step, job[h].state, job[h].again)

Reads(h, step, i) ==
  Becomes(h, step, job[h].customer, i, session[i].state, job[h].entry,
          job[h].times, job[h].amount, job[h].cover, job[h].again)

Counts(h, step, entry, times) ==
  Becomes(h, step, job[h].customer, job[h].row, job[h].state, entry,
          times, job[h].amount, job[h].cover, job[h].again)

Finishes(h) ==
  Becomes(h, "idle", NoCustomer, NoKey, READY, NoKey, 0, 0, FALSE, FALSE)

LEMMA States ==
  /\ REFUNDED \in SessionStates /\ CANCELLED \in SessionStates
  /\ READY \in SessionStates /\ WAITING_FOR_PAYMENT \in SessionStates
  /\ WAITING_FOR_SIZE \in SessionStates
  /\ SessionStates =
       {REFUNDED, CANCELLED, READY, WAITING_FOR_PAYMENT, WAITING_FOR_SIZE}
  /\ WAITING_FOR_SIZE \notin {REFUNDED, CANCELLED, READY, WAITING_FOR_PAYMENT}
  /\ REFUNDED \notin {CANCELLED, READY, WAITING_FOR_PAYMENT}
  /\ READY \notin {CANCELLED, WAITING_FOR_PAYMENT}
  /\ CANCELLED # WAITING_FOR_PAYMENT
BY DEF SessionStates, REFUNDED, CANCELLED, READY, WAITING_FOR_PAYMENT,
       WAITING_FOR_SIZE

(* The amounts, with their assumptions. *)
LEMMA Money ==
  /\ Price \in Nat /\ Fee \in Nat /\ 0 < Fee /\ Fee < Price
  /\ Amounts \subseteq Nat /\ MaxFees \in Nat
  /\ Cost \in Nat /\ Price + Fee <= Cost
  /\ \A a \in Amounts : a - Fee <= Cost
<1>1. MaxAmount \in Nat /\ Amounts \subseteq 0 .. MaxAmount
  BY AmountsType
<1>2. /\ Price \in Nat /\ Fee \in Nat /\ 0 < Fee /\ Fee < Price
      /\ MaxFees \in Nat
  BY MoneyType, PriceCoversFee, FeesType
<1>3. ASSUME NEW a \in Amounts
      PROVE  a \in Nat /\ a <= MaxAmount
  BY <1>1
<1>4. Cost \in Nat /\ Price + Fee <= Cost /\ MaxAmount - Fee <= Cost
  BY <1>1, <1>2 DEF Cost
<1>5. \A a \in Amounts : a - Fee <= Cost
  BY <1>1, <1>2, <1>3, <1>4
<1> QED
  BY <1>2, <1>3, <1>4, <1>5

LEMMA AmountIsNumber ==
  ASSUME JobsTyped, NEW h \in Workers
  PROVE  job[h].amount \in Nat
<1>1. job[h] \in AnyJob
  BY DEF JobsTyped
<1>2. job[h].amount \in Amounts \/ job[h].amount = 0
  BY <1>1 DEF AnyJob
<1>3. \A a \in Amounts : a \in Nat
  BY Money
<1> QED
  BY <1>2, <1>3

LEMMA GotoDoes ==
  ASSUME JobsTyped, NEW h \in Workers, NEW s \in JobSteps, Goto(h, s)
  PROVE  Moves(h, s)
BY DEF JobsTyped, AnyJob, Goto, Moves, Sets, Becomes, OthersSame

LEMMA SetStateDoes ==
  ASSUME JobsTyped, NEW h \in Workers, NEW s \in JobSteps,
         NEW state \in SessionStates, SetState(h, state, s)
  PROVE  Sets(h, s, state, job[h].again)
BY DEF JobsTyped, AnyJob, SetState, Sets, Becomes, OthersSame

LEMMA DoneDoes ==
  ASSUME JobsTyped, NEW h \in Workers, Done(h)
  PROVE  Finishes(h)
<1>1. NoJob \in AnyJob
  BY Money, States DEF NoJob, AnyJob, JobSteps, NoKey
<1>2. JobsTyped'
  BY <1>1 DEF JobsTyped, Done
<1>3. job'[h] = NoJob /\ OthersSame(h)
  BY DEF JobsTyped, Done, OthersSame
<1> QED
  BY <1>2, <1>3 DEF Finishes, Becomes, NoJob

(* A handler changes again, its step, and perhaps its state. *)
Again(h, again, s) == [job EXCEPT ![h].again = again, ![h].step = s]
AgainSet(h, state, again, s) ==
  [job EXCEPT ![h].state = state, ![h].again = again, ![h].step = s]

LEMMA AgainDoes ==
  ASSUME JobsTyped, NEW h \in Workers, NEW s \in JobSteps, NEW b \in BOOLEAN,
         job' = Again(h, b, s)
  PROVE  Sets(h, s, job[h].state, b)
BY DEF JobsTyped, AnyJob, Again, Sets, Becomes, OthersSame

LEMMA AgainSetDoes ==
  ASSUME JobsTyped, NEW h \in Workers, NEW s \in JobSteps, NEW b \in BOOLEAN,
         NEW state \in SessionStates, job' = AgainSet(h, state, b, s)
  PROVE  Sets(h, s, state, b)
BY ZenonT(40) DEF JobsTyped, AnyJob, AgainSet, Sets, Becomes, OthersSame

LEMMA LeaveDoes ==
  ASSUME JobsTyped, NEW h \in Workers, Leave(h)
  PROVE  IF job[h].again THEN Sets(h, "save", job[h].state, FALSE) ELSE Finishes(h)
<1>1. "save" \in JobSteps
  BY DEF JobSteps
<1>2. CASE job[h].again
  BY <1>1, <1>2, AgainDoes DEF Leave, Again
<1>3. CASE ~job[h].again
  BY <1>3, DoneDoes DEF Leave
<1> QED
  BY <1>2, <1>3

-----------------------------------------------------------------------------
(* The rows. *)

RowType == [customer : Customers, state : SessionStates]

RowsTyped == session \in Seq(RowType)

RefundsTyped == refunds \in [Customers -> Seq(0 .. MaxFees)]

LEMMA RowFields ==
  ASSUME RowsTyped, NEW i \in Rows
  PROVE  /\ i \in Nat /\ i # NoKey
         /\ session[i].customer \in Customers
         /\ session[i].state \in SessionStates
<1>1. session[i] \in RowType /\ i \in 1 .. Len(session)
  BY DEF RowsTyped, Rows
<1> QED
  BY <1>1 DEF RowType, NoKey

LEMMA ReadDoes ==
  ASSUME JobsTyped, RowsTyped, NEW h \in Workers, NEW i \in Rows,
         NEW s \in JobSteps, Read(h, i, s)
  PROVE  Reads(h, s, i)
<1>1. i \in Nat /\ session[i].state \in SessionStates
  BY RowFields
<1> QED
  BY <1>1, ZenonT(40) DEF JobsTyped, AnyJob, Read, Reads, Becomes, OthersSame

(* What save() does to the rows.                                           *)
Saves(h, state) ==
  /\ RowsTyped' /\ Rows' = Rows
  /\ \A i \in Rows : session'[i].customer = session[i].customer
  /\ session'[job[h].row].state = state
  /\ \A i \in Rows \ {job[h].row} : session'[i] = session[i]

LEMMA SaveRowDoes ==
  ASSUME RowsTyped, NEW h \in Workers, job[h].row \in Rows,
         NEW state \in SessionStates, SaveRow(h, state)
  PROVE  Saves(h, state)
<1> DEFINE i == job[h].row
           r == [customer |-> session[i].customer, state |-> state]
<1>1. session \in Seq(RowType) /\ i \in 1 .. Len(session) /\ Rows = 1 .. Len(session)
  BY DEF RowsTyped, Rows
<1>2. session[i] \in RowType
  BY <1>1
<1>3. r \in RowType /\ session' = [session EXCEPT ![i] = r]
  <2>1. [session[i] EXCEPT !.state = state] = r
    BY <1>2 DEF RowType
  <2>2. session' = [session EXCEPT ![i] = [session[i] EXCEPT !.state = state]]
    BY DEF SaveRow
  <2> QED
    BY <1>2, <2>1, <2>2 DEF RowType
<1>4. r.customer = session[i].customer /\ r.state = state
  OBVIOUS
<1> HIDE DEF r
<1>5. /\ session' \in Seq(RowType)
      /\ Len(session') = Len(session)
      /\ session'[i] = r
      /\ \A j \in Rows \ {i} : session'[j] = session[j]
  BY <1>1, <1>3
<1>6. Rows' = Rows
  BY <1>1, <1>5 DEF Rows
<1> QED
  BY <1>1, <1>4, <1>5, <1>6 DEF Saves, RowsTyped

-----------------------------------------------------------------------------
(* The steps of a handler. *)

LEMMA ReceiveDoes ==
  ASSUME JobsTyped, NEW h \in Workers, NEW c \in Customers, NEW s \in JobSteps,
         NEW a \in Amounts \cup {0}, Receive(h, c, s, a)
  PROVE  /\ At(h, "idle")
         /\ Becomes(h, s, c, NoKey, READY, NoKey, 0, a, FALSE, FALSE)
         /\ \/ disturbances' = disturbances /\ \A g \in Workers : job[g].customer # c
            \/ Disturb
         /\ messages < MaxMessages /\ messages' = messages + 1
         /\ UNCHANGED <<rowVars, dropVars, history>>
<1> DEFINE r == [NoJob EXCEPT !.step = s, !.customer = c, !.amount = a]
<1>1. /\ NoJob \in AnyJob
      /\ NoJob.row = NoKey /\ NoJob.state = READY /\ NoJob.entry = NoKey
      /\ NoJob.times = 0 /\ NoJob.cover = FALSE /\ NoJob.again = FALSE
  BY Money, States DEF NoJob, AnyJob, JobSteps, NoKey
<1>2. job' = [job EXCEPT ![h] = r]
  BY DEF Receive
<1>3. /\ r \in AnyJob
      /\ r.step = s /\ r.customer = c /\ r.amount = a
      /\ r.row = NoKey /\ r.state = READY /\ r.entry = NoKey
      /\ r.times = 0 /\ r.cover = FALSE /\ r.again = FALSE
  BY <1>1, ZenonT(40) DEF AnyJob
<1> HIDE DEF r
<1>4. JobsTyped' /\ OthersSame(h) /\ job'[h] = r
  BY <1>2, <1>3 DEF JobsTyped, OthersSame
<1>5. Becomes(h, s, c, NoKey, READY, NoKey, 0, a, FALSE, FALSE)
  BY <1>3, <1>4 DEF Becomes
<1>6. \/ disturbances' = disturbances /\ \A g \in Workers : job[g].customer # c
      \/ Disturb
  BY DEF Receive
<1> QED
  BY <1>5, <1>6 DEF Receive

LEMMA GoOnDoes ==
  ASSUME JobsTyped, RowsTyped, NEW h \in Workers, GoOn(h)
  PROVE  /\ At(h, "route")
         /\ \E i \in RowsOf(job[h].customer, ActiveStates) :
              Reads(h, StepOf(session[i].state), i)
         /\ OnlyJob
<1>1. PICK i \in First(ActiveRows(job[h].customer)) :
        Read(h, i, StepOf(session[i].state))
  BY DEF GoOn
<1>2. i \in RowsOf(job[h].customer, ActiveStates)
  BY DEF First, ActiveRows
<1>3. i \in Rows /\ session[i].state \in ActiveStates
  BY <1>2 DEF RowsOf
<1>4. StepOf(session[i].state) \in JobSteps
  BY <1>3 DEF StepOf, ActiveStates, JobSteps
<1> QED
  BY <1>1, <1>2, <1>3, <1>4, ReadDoes DEF GoOn

LEMMA StartNewDoes ==
  ASSUME JobsTyped, NEW h \in Workers, StartNew(h)
  PROVE  /\ At(h, "route")
         /\ \/ RowsOf(job[h].customer, ActiveStates) = {} /\ Moves(h, "new")
            \/ Finishes(h)
         /\ OnlyJob
BY GotoDoes, DoneDoes DEF StartNew, ActiveRows, JobSteps

LEMMA GetSessionDoes ==
  ASSUME JobsTyped, RowsTyped, NEW h \in Workers, GetSession(h)
  PROVE  /\ At(h, "new")
         /\ \/ Moves(h, "create")
            \/ Finishes(h)
            \/ \E i \in RowsOf(job[h].customer, {READY}) : Reads(h, "catalog", i)
         /\ OnlyJob
<1> DEFINE ready == RowsOf(job[h].customer, {READY})
<1>1. "create" \in JobSteps /\ "catalog" \in JobSteps
  BY DEF JobSteps
<1>2. Goto(h, "create") \/ Done(h) \/ \E i \in ready : Read(h, i, "catalog")
  BY DEF GetSession
<1>3. ASSUME NEW i \in ready, Read(h, i, "catalog")
      PROVE  Reads(h, "catalog", i)
  <2>1. i \in Rows
    BY DEF RowsOf
  <2> QED
    BY <1>1, <1>3, <2>1, ReadDoes
<1> QED
  BY <1>1, <1>2, <1>3, GotoDoes, DoneDoes DEF GetSession

(* A session is opened. *)
Opens(h) ==
  /\ RowsTyped'
  /\ Len(session) + 1 \in Nat \ Rows /\ Len(session) + 1 # NoKey
  /\ Rows' = Rows \cup {Len(session) + 1}
  /\ session'[Len(session) + 1].customer = job[h].customer
  /\ session'[Len(session) + 1].state = READY
  /\ \A i \in Rows : session'[i] = session[i]

LEMMA CreateSessionDoes ==
  ASSUME JobsTyped, RowsTyped, NEW h \in Workers, CreateSession(h),
         job[h].customer \in Customers
  PROVE  /\ At(h, "create")
         /\ Opens(h)
         /\ \/ Finishes(h)
            \/ Becomes(h, "catalog", job[h].customer, Len(session) + 1,
                       job[h].state, job[h].entry, job[h].times, job[h].amount,
                       job[h].cover, job[h].again)
         /\ UNCHANGED <<refunds, dropVars, boundVars, history>>
<1> DEFINE r == [customer |-> job[h].customer, state |-> READY]
           n == Len(session) + 1
<1>1. session \in Seq(RowType) /\ Len(session) \in Nat /\ Rows = 1 .. Len(session)
  BY DEF RowsTyped, Rows
<1>2. r \in RowType
  BY States DEF RowType
<1>3. session' = Append(session, r)
  BY DEF CreateSession
<1>4. r.customer = job[h].customer /\ r.state = READY
  OBVIOUS
<1> HIDE DEF r
<1>5. /\ session' \in Seq(RowType) /\ Len(session') = n /\ session'[n] = r
      /\ \A i \in 1 .. Len(session) : session'[i] = session[i]
  BY <1>1, <1>2, <1>3
<1>6. Rows' = Rows \cup {n} /\ n \notin Rows /\ n # NoKey /\ n \in Nat
  BY <1>1, <1>5 DEF Rows, NoKey
<1>7. Opens(h)
  BY <1>1, <1>4, <1>5, <1>6 DEF Opens, RowsTyped
<1>8. CASE job[h].customer \in restricted
  BY <1>7, <1>8, DoneDoes DEF CreateSession
<1>9. CASE job[h].customer \notin restricted
  <2>1. n \in Nat /\ "catalog" \in JobSteps
    BY <1>6 DEF JobSteps
  <2>2. job' = [job EXCEPT ![h].row = n, ![h].step = "catalog"]
    BY <1>9 DEF CreateSession
  <2> HIDE DEF n
  <2>3. Becomes(h, "catalog", job[h].customer, n, job[h].state, job[h].entry,
                job[h].times, job[h].amount, job[h].cover, job[h].again)
    BY <2>1, <2>2, ZenonT(40) DEF JobsTyped, AnyJob, Becomes, OthersSame
  <2> QED
    BY <2>3, <1>7 DEF CreateSession, n
<1> QED
  BY <1>8, <1>9

LEMMA ExplainPaymentsDoes ==
  ASSUME JobsTyped, NEW h \in Workers, ExplainPayments(h)
  PROVE  /\ At(h, "catalog")
         /\ IF job[h].again THEN Sets(h, "save", job[h].state, FALSE) ELSE Finishes(h)
         /\ OnlyJob
BY LeaveDoes DEF ExplainPayments

LEMMA ShowCatalogDoes ==
  ASSUME JobsTyped, NEW h \in Workers, ShowCatalog(h)
  PROVE  /\ At(h, "catalog")
         /\ Moves(h, "list") \/ Moves(h, "request")
         /\ OnlyJob
BY GotoDoes DEF ShowCatalog, JobSteps

LEMMA ListOptionsDoes ==
  ASSUME JobsTyped, NEW h \in Workers, ListOptions(h)
  PROVE  /\ At(h, "list")
         /\ Moves(h, "request") \/ Finishes(h)
         /\ OnlyJob
BY GotoDoes, DoneDoes DEF ListOptions, JobSteps

LEMMA RequestPaymentDoes ==
  ASSUME JobsTyped, RowsTyped, NEW h \in Workers, RequestPayment(h),
         job[h].row \in Rows
  PROVE  /\ At(h, "request")
         /\ Saves(h, WAITING_FOR_PAYMENT)
         /\ IF job[h].again
            THEN Sets(h, "save", WAITING_FOR_PAYMENT, FALSE)
            ELSE Finishes(h)
         /\ UNCHANGED <<refunds, dropVars, boundVars, history>>
<1>1. "save" \in JobSteps /\ WAITING_FOR_PAYMENT \in SessionStates
  BY States DEF JobSteps
<1>2. Saves(h, WAITING_FOR_PAYMENT)
  BY <1>1, SaveRowDoes DEF RequestPayment
<1>3. IF job[h].again THEN Sets(h, "save", WAITING_FOR_PAYMENT, FALSE) ELSE Finishes(h)
  BY <1>1, AgainSetDoes, DoneDoes DEF RequestPayment, AgainSet
<1> QED
  BY <1>2, <1>3 DEF RequestPayment

LEMMA ChatDoes ==
  ASSUME JobsTyped, NEW h \in Workers, Chat(h)
  PROVE  /\ At(h, "chat")
         /\ Sets(h, "catalog", job[h].state, TRUE)
         /\ OnlyJob
BY AgainDoes DEF Chat, Again, JobSteps

LEMMA HandleCancelDoes ==
  ASSUME JobsTyped, RowsTyped, NEW h \in Workers, HandleCancel(h),
         job[h].row \in Rows
  PROVE  /\ At(h, "chat")
         /\ Saves(h, CANCELLED)
         /\ Sets(h, "catalog", CANCELLED, TRUE)
         /\ UNCHANGED <<refunds, dropVars, boundVars, history>>
<1>1. "catalog" \in JobSteps /\ CANCELLED \in SessionStates
  BY States DEF JobSteps
<1>2. Saves(h, CANCELLED)
  BY <1>1, SaveRowDoes DEF HandleCancel
<1>3. Sets(h, "catalog", CANCELLED, TRUE)
  BY <1>1, AgainSetDoes DEF HandleCancel, AgainSet
<1> QED
  BY <1>2, <1>3 DEF HandleCancel

LEMMA SaveDoes ==
  ASSUME JobsTyped, RowsTyped, NEW h \in Workers, Save(h), job[h].row \in Rows
  PROVE  /\ At(h, "save")
         /\ Saves(h, job[h].state)
         /\ IF job[h].again THEN Sets(h, "save", job[h].state, FALSE) ELSE Finishes(h)
         /\ UNCHANGED <<refunds, dropVars, boundVars, history>>
<1>1. job[h].state \in SessionStates
  BY DEF JobsTyped, AnyJob
<1>2. Saves(h, job[h].state)
  BY <1>1, SaveRowDoes DEF Save
<1> QED
  BY <1>2, LeaveDoes DEF Save

LEMMA AnswerSizeDoes ==
  ASSUME JobsTyped, NEW h \in Workers, AnswerSize(h)
  PROVE  /\ At(h, "size")
         /\ Finishes(h)
         /\ OnlyJob
BY DoneDoes DEF AnswerSize

LEMMA CancelSizeDoes ==
  ASSUME JobsTyped, NEW h \in Workers, CancelSize(h)
  PROVE  /\ At(h, "size")
         /\ Moves(h, "get_refunds")
         /\ OnlyJob
BY GotoDoes DEF CancelSize, JobSteps

(* A handler notes the number of refunds it read. *)
LEMMA CountDoes ==
  ASSUME JobsTyped, NEW h \in Workers, NEW s \in JobSteps, NEW e \in Nat,
         NEW t \in 0 .. MaxFees, NEW g,
         g = [job EXCEPT ![h].entry = e, ![h].times = t, ![h].step = s],
         job' = g
  PROVE  Counts(h, s, e, t)
BY ZenonT(40) DEF JobsTyped, AnyJob, Counts, Becomes, OthersSame

LEMMA OnlyElement ==
  ASSUME NEW S, NEW s \in Seq(S), Len(s) = 1
  PROVE  DOMAIN s = {1} /\ s[1] \in S
<1>1. DOMAIN s = 1 .. 1
  OBVIOUS
<1>2. 1 .. 1 = {1} /\ 1 \in 1 .. 1
  OBVIOUS
<1> QED
  BY <1>1, <1>2

LEMMA GetRefundsDoes ==
  ASSUME JobsTyped, RefundsTyped, NEW h \in Workers, GetRefunds(h),
         job[h].customer \in Customers
  PROVE  /\ At(h, "get_refunds")
         /\ \/ Len(refunds[job[h].customer]) = 0 /\ Moves(h, "create_refunds")
            \/ /\ Len(refunds[job[h].customer]) = 1
               /\ Counts(h, "cover", 1, refunds[job[h].customer][1])
            \/ Finishes(h)
         /\ OnlyJob
<1> DEFINE counts == refunds[job[h].customer]
<1>1. counts \in Seq(0 .. MaxFees) /\ Len(counts) \in Nat
  BY DEF RefundsTyped
<1>2. "create_refunds" \in JobSteps /\ "cover" \in JobSteps
  BY DEF JobSteps
<1>3. CASE Len(counts) = 0
  <2>1. Goto(h, "create_refunds")
    BY <1>3 DEF GetRefunds
  <2> QED
    BY <1>2, <1>3, <2>1, GotoDoes DEF GetRefunds
<1>4. CASE Len(counts) = 1
  <2>1. counts[1] \in 0 .. MaxFees
    BY <1>1, <1>4, OnlyElement
  <2>2. job' = [job EXCEPT ![h].entry = 1, ![h].times = counts[1], ![h].step = "cover"]
    BY <1>4 DEF GetRefunds
  <2> HIDE DEF counts
  <2>3. Counts(h, "cover", 1, counts[1])
    BY <1>2, <2>1, <2>2, CountDoes
  <2> QED
    BY <1>4, <2>3 DEF GetRefunds, counts
<1>5. CASE Len(counts) \notin {0, 1}
  <2>1. Done(h)
    BY <1>5 DEF GetRefunds
  <2> QED
    BY <2>1, DoneDoes DEF GetRefunds
<1> QED
  BY <1>3, <1>4, <1>5

LEMMA CreateRefundsDoes ==
  ASSUME JobsTyped, RefundsTyped, NEW h \in Workers, CreateRefunds(h),
         job[h].customer \in Customers
  PROVE  /\ At(h, "create_refunds")
         /\ refunds' = [refunds EXCEPT ![job[h].customer] = Append(@, 0)]
         /\ RefundsTyped'
         /\ Counts(h, "cover", Len(refunds[job[h].customer]) + 1, job[h].times)
         /\ UNCHANGED <<session, dropVars, boundVars, history>>
<1> DEFINE c == job[h].customer
           e == Len(refunds[c]) + 1
<1>1. refunds[c] \in Seq(0 .. MaxFees) /\ 0 \in 0 .. MaxFees
  BY Money DEF RefundsTyped
<1>2. e \in Nat /\ Append(refunds[c], 0) \in Seq(0 .. MaxFees) /\ "cover" \in JobSteps
  BY <1>1 DEF JobSteps
<1>3. refunds' = [refunds EXCEPT ![c] = Append(refunds[c], 0)]
  BY DEF CreateRefunds
<1>4. job' = [job EXCEPT ![h].entry = e, ![h].step = "cover"]
  BY DEF CreateRefunds
<1>5. RefundsTyped'
  BY <1>2, <1>3 DEF RefundsTyped
<1> HIDE DEF e
<1>6. Counts(h, "cover", e, job[h].times)
  BY <1>2, <1>4, ZenonT(40) DEF JobsTyped, AnyJob, Counts, Becomes, OthersSame
<1> QED
  BY <1>5, <1>6 DEF CreateRefunds, e

LEMMA CoverFeeDoes ==
  ASSUME JobsTyped, RefundsTyped, NEW h \in Workers, CoverFee(h),
         job[h].customer \in Customers,
         job[h].entry \in DOMAIN refunds[job[h].customer]
  PROVE  /\ At(h, "cover") /\ job[h].times < MaxFees
         /\ RefundsTyped'
         /\ \A c \in Customers \ {job[h].customer} : refunds'[c] = refunds[c]
         /\ Len(refunds'[job[h].customer]) = Len(refunds[job[h].customer])
         /\ refunds'[job[h].customer][job[h].entry] = job[h].times + 1
         /\ Becomes(h, "refund", job[h].customer, job[h].row, job[h].state,
                    job[h].entry, job[h].times, job[h].amount, TRUE, job[h].again)
         /\ fees' = [fees EXCEPT ![job[h].customer] = @ + 1]
         /\ UNCHANGED <<session, dropVars, boundVars, paid, returned, underpaid>>
<1> DEFINE c == job[h].customer
           e == job[h].entry
           t == job[h].times + 1
<1>1. At(h, "cover") /\ job[h].times < MaxFees
  BY DEF CoverFee
<1>2. t \in 0 .. MaxFees /\ refunds[c] \in Seq(0 .. MaxFees)
  BY <1>1, Money DEF JobsTyped, AnyJob, RefundsTyped
<1>3. refunds' = [refunds EXCEPT ![c][e] = t]
  BY DEF CoverFee
<1>4. job' = [job EXCEPT ![h].cover = TRUE, ![h].step = "refund"]
  BY DEF CoverFee
<1>5. /\ RefundsTyped'
      /\ \A d \in Customers \ {c} : refunds'[d] = refunds[d]
      /\ Len(refunds'[c]) = Len(refunds[c]) /\ refunds'[c][e] = t
  <2> HIDE DEF c, e, t
  <2>1. [refunds[c] EXCEPT ![e] = t] \in Seq(0 .. MaxFees)
    BY <1>2 DEF c, e
  <2>2. Len([refunds[c] EXCEPT ![e] = t]) = Len(refunds[c])
    BY <1>2 DEF c, e
  <2>3. [refunds[c] EXCEPT ![e] = t][e] = t
    BY <1>2 DEF c, e
  <2>4. c \in Customers /\ refunds' = [refunds EXCEPT ![c] = [refunds[c] EXCEPT ![e] = t]]
    BY <1>3 DEF c
  <2> QED
    BY <2>1, <2>2, <2>3, <2>4 DEF RefundsTyped
<1>6. "refund" \in JobSteps
  BY DEF JobSteps
<1>7. Becomes(h, "refund", c, job[h].row, job[h].state, e, job[h].times,
              job[h].amount, TRUE, job[h].again)
  BY <1>4, <1>6, ZenonT(40) DEF JobsTyped, AnyJob, Becomes, OthersSame
<1> QED
  BY <1>1, <1>5, <1>7 DEF CoverFee

LEMMA KeepFeeDoes ==
  ASSUME JobsTyped, NEW h \in Workers, KeepFee(h)
  PROVE  /\ At(h, "cover")
         /\ Moves(h, "refund")
         /\ OnlyJob
BY GotoDoes DEF KeepFee, JobSteps

-----------------------------------------------------------------------------
(* The steps of a handler of a payment. *)

(* So many disturbances happen at once. *)
Takes(n) ==
  disturbances + n <= MaxDisturbances /\ disturbances' = disturbances + n

(* c is sent an amount, and n times more. *)
Given(c, amount, n) ==
  returned' = [returned EXCEPT ![c] = @ + (1 + n) * amount]

(* What comes of a payment: it is made and the handler goes on, or it is   *)
(* made and the handler stops, or it is not made.                          *)
Sent(h, amount, going) ==
  \/ \E n \in Nat : Takes(n) /\ going /\ Given(job[h].customer, amount, n)
  \/ \E n \in Nat :
       Takes(n + 1) /\ Finishes(h) /\ Given(job[h].customer, amount, n)
  \/ Takes(1) /\ (going \/ Finishes(h)) /\ returned' = returned

LEMMA PayDoes ==
  ASSUME NEW h \in Workers, NEW o \in Outcomes, NEW n \in Repeats, NEW a,
         Pay(h, o, n, a), NEW ACTION going,
         Continues(o) => going, ~Continues(o) => Finishes(h)
  PROVE  /\ Sent(h, a, going)
         /\ UNCHANGED <<rowVars, dropVars, messages, paid, fees, underpaid>>
<1>1. n \in Nat
  BY ItemDropBounds DEF Repeats
<1>2. UNCHANGED <<rowVars, dropVars, messages, paid, fees, underpaid>>
  BY DEF Pay
<1>3. CASE o = "sent"
  <2>1. n + 0 = n
    BY <1>1
  <2>2. Takes(n) /\ Given(job[h].customer, a, n) /\ going
    BY <1>3, <2>1 DEF Pay, Attempt, Received, Continues, Takes, Given
  <2> QED
    BY <1>1, <1>2, <2>2 DEF Sent
<1>4. CASE o = "unstored"
  <2>1. Takes(n + 1) /\ Given(job[h].customer, a, n) /\ Finishes(h)
    BY <1>4 DEF Pay, Attempt, Received, Continues, Takes, Given
  <2> QED
    BY <1>1, <1>2, <2>1 DEF Sent
<1>5. CASE o \in {"failed", "deactivated"}
  <2>1. ~Received(o) /\ ~(n > 0)
    BY <1>5 DEF Pay, Attempt, Received
  <2>2. n + 1 = 1 /\ o # "sent"
    BY <1>1, <1>5, <2>1
  <2>3. Takes(1) /\ returned' = returned
    BY <2>1, <2>2 DEF Pay, Attempt, Takes
  <2> QED
    BY <1>2, <2>3 DEF Sent
<1> QED
  BY <1>3, <1>4, <1>5 DEF Outcomes

LEMMA SendDoes ==
  ASSUME JobsTyped, NEW h \in Workers, NEW s \in JobSteps, NEW a,
         NEW state \in SessionStates, Send(h, a, state, s)
  PROVE  /\ Sent(h, a, Sets(h, s, state, job[h].again))
         /\ UNCHANGED <<rowVars, dropVars, messages, paid, fees, underpaid>>
<1>1. PICK o \in Outcomes, n \in Repeats :
        /\ Pay(h, o, n, a)
        /\ IF Continues(o) THEN SetState(h, state, s) ELSE Done(h)
  BY DEF Send
<1>2. /\ Continues(o) => Sets(h, s, state, job[h].again)
      /\ ~Continues(o) => Finishes(h)
  BY <1>1, SetStateDoes, DoneDoes
<1> QED
  BY <1>1, <1>2, PayDoes

LEMMA RefundPriceDoes ==
  ASSUME JobsTyped, NEW h \in Workers, RefundPrice(h)
  PROVE  /\ At(h, "refund")
         /\ \E a \in {Price + Fee, Price - Fee} :
              Sent(h, a, Sets(h, "save", REFUNDED, job[h].again))
         /\ UNCHANGED <<rowVars, dropVars, messages, paid, fees, underpaid>>
<1> DEFINE a == IF job[h].cover THEN Price + Fee ELSE Price - Fee
<1>1. a \in {Price + Fee, Price - Fee} /\ At(h, "refund")
      /\ Send(h, a, REFUNDED, "save")
  BY DEF RefundPrice
<1>2. "save" \in JobSteps /\ REFUNDED \in SessionStates
  BY States DEF JobSteps
<1> HIDE DEF a
<1> QED
  BY <1>1, <1>2, SendDoes

LEMMA ReturnExcessDoes ==
  ASSUME JobsTyped, NEW h \in Workers, ReturnExcess(h)
  PROVE  /\ At(h, "excess")
         /\ Sent(h, job[h].amount - Price - Fee, Moves(h, "stock"))
         /\ UNCHANGED <<rowVars, dropVars, messages, paid, fees, underpaid>>
<1>1. "stock" \in JobSteps /\ job[h].state \in SessionStates
  BY DEF JobSteps, JobsTyped, AnyJob
<1> QED
  BY <1>1, SendDoes DEF ReturnExcess, Moves

LEMMA ReturnUnderpaymentDoes ==
  ASSUME JobsTyped, NEW h \in Workers, ReturnUnderpayment(h)
  PROVE  /\ At(h, "not_enough")
         /\ Sent(h, job[h].amount - Fee, Moves(h, "stock"))
         /\ UNCHANGED <<rowVars, dropVars, messages, paid, fees, underpaid>>
<1>1. "stock" \in JobSteps /\ job[h].state \in SessionStates
  BY DEF JobSteps, JobsTyped, AnyJob
<1> QED
  BY <1>1, SendDoes DEF ReturnUnderpayment, Moves

LEMMA RefundSoldOutDoes ==
  ASSUME JobsTyped, NEW h \in Workers, RefundSoldOut(h)
  PROVE  /\ At(h, "sold_out")
         /\ Sent(h, Price + Fee, Sets(h, "save", REFUNDED, TRUE))
         /\ UNCHANGED <<rowVars, dropVars, messages, paid, fees, underpaid>>
<1>1. PICK o \in Outcomes, n \in Repeats :
        /\ Pay(h, o, n, Price + Fee)
        /\ IF Continues(o)
           THEN job' = AgainSet(h, REFUNDED, TRUE, "save")
           ELSE Done(h)
  BY DEF RefundSoldOut, AgainSet
<1>2. "save" \in JobSteps /\ REFUNDED \in SessionStates
  BY States DEF JobSteps
<1>3. /\ Continues(o) => Sets(h, "save", REFUNDED, TRUE)
      /\ ~Continues(o) => Finishes(h)
  BY <1>1, <1>2, AgainSetDoes, DoneDoes
<1> QED
  BY <1>1, <1>3, PayDoes DEF RefundSoldOut

LEMMA RefundUnsolicitedDoes ==
  ASSUME JobsTyped, NEW h \in Workers, RefundUnsolicited(h)
  PROVE  /\ At(h, "unsolicited")
         /\ Finishes(h)
         /\ Sent(h, job[h].amount - Fee, Finishes(h))
         /\ UNCHANGED <<rowVars, dropVars, messages, paid, fees, underpaid>>
<1>1. PICK o \in Outcomes, n \in Repeats : Pay(h, o, n, job[h].amount - Fee)
  BY DEF RefundUnsolicited
<1>2. Finishes(h)
  BY DoneDoes DEF RefundUnsolicited
<1> QED
  BY <1>1, <1>2, PayDoes DEF RefundUnsolicited

LEMMA IgnoreFailedDoes ==
  ASSUME JobsTyped, NEW h \in Workers, IgnoreFailed(h)
  PROVE  /\ At(h, "payment")
         /\ Finishes(h)
         /\ OnlyJob
BY DoneDoes DEF IgnoreFailed

LEMMA FindUnsolicitedDoes ==
  ASSUME JobsTyped, NEW h \in Workers, FindUnsolicited(h)
  PROVE  /\ At(h, "payment")
         /\ (Fee < job[h].amount /\ Moves(h, "unsolicited")) \/ Finishes(h)
         /\ CountPayment(h)
         /\ UNCHANGED <<rowVars, dropVars, boundVars, returned, fees, underpaid>>
BY GotoDoes, DoneDoes DEF FindUnsolicited, JobSteps

LEMMA FindWaitingDoes ==
  ASSUME JobsTyped, RowsTyped, NEW h \in Workers, FindWaiting(h)
  PROVE  /\ At(h, "payment")
         /\ \/ Finishes(h)
            \/ \E i \in RowsOf(job[h].customer, {WAITING_FOR_PAYMENT}) :
                 \/ Fee < job[h].amount /\ job[h].amount < Price /\ Reads(h, "not_enough", i)
                 \/ job[h].amount < Price /\ Reads(h, "stock", i)
                 \/ Price + Fee < job[h].amount /\ Reads(h, "excess", i)
         /\ CountPayment(h)
         /\ underpaid' = IF job[h].amount < Price
                         THEN [underpaid EXCEPT ![job[h].customer] = @ + 1]
                         ELSE underpaid
         /\ UNCHANGED <<rowVars, dropVars, boundVars, returned, fees>>
<1> DEFINE a == job[h].amount
<1>1. PICK i \in First(WaitingRows(job[h].customer)) :
        IF Exact(a) THEN Done(h) ELSE Read(h, i, StepFor(a))
  BY DEF FindWaiting
<1>2. i \in RowsOf(job[h].customer, {WAITING_FOR_PAYMENT}) /\ i \in Rows
  BY DEF First, WaitingRows, RowsOf
<1>3. {"not_enough", "stock", "excess"} \subseteq JobSteps /\ a \in Nat
  BY AmountIsNumber DEF JobSteps
<1>4. CASE Exact(a)
  BY <1>1, <1>4, DoneDoes DEF FindWaiting
<1>5. CASE ~Exact(a)
  <2>1. Read(h, i, StepFor(a))
    BY <1>1, <1>5
  <2>2. \/ Fee < a /\ a < Price /\ StepFor(a) = "not_enough"
        \/ a < Price /\ StepFor(a) = "stock"
        \/ Price + Fee < a /\ StepFor(a) = "excess"
    BY <1>3, <1>5, Money DEF StepFor, Exact
  <2>3. Reads(h, StepFor(a), i)
    BY <1>2, <1>3, <2>1, <2>2, ReadDoes
  <2> QED
    BY <1>2, <2>2, <2>3 DEF FindWaiting
<1> QED
  BY <1>4, <1>5

LEMMA CheckStockDoes ==
  ASSUME JobsTyped, NEW h \in Workers, CheckStock(h)
  PROVE  /\ At(h, "stock")
         /\ Moves(h, "ask_size") \/ Moves(h, "sold_out")
         /\ OnlyJob
BY GotoDoes DEF CheckStock, JobSteps

LEMMA AskSizeDoes ==
  ASSUME JobsTyped, NEW h \in Workers, AskSize(h)
  PROVE  /\ At(h, "ask_size")
         /\ Sets(h, "save", WAITING_FOR_SIZE, job[h].again) \/ Finishes(h)
         /\ OnlyJob
BY SetStateDoes, DoneDoes, States DEF AskSize, JobSteps

LEMMA HandlerStopsDoes ==
  ASSUME JobsTyped, NEW h \in Workers, HandlerStops(h)
  PROVE  /\ Disturb
         /\ Finishes(h)
         /\ UNCHANGED <<rowVars, dropVars, messages, history>>
BY DoneDoes DEF HandlerStops

-----------------------------------------------------------------------------
(* Where a handler stands says what it knows. *)

CatalogSteps == {"catalog", "list", "request"}
SizeSteps == {"size", "get_refunds", "create_refunds", "cover", "refund"}
SellSteps == {"not_enough", "excess", "stock", "ask_size", "sold_out"}
RowSteps == CatalogSteps \cup SizeSteps \cup SellSteps \cup {"chat", "save"}

JobOK(j) ==
  /\ j.step = "idle" <=> j.customer = NoCustomer
  /\ j.step = "idle" => j.row = NoKey /\ j.entry = NoKey
  /\ j.step \in {"route", "new", "create"} => j.row = NoKey
  /\ j.step \in RowSteps => j.row # NoKey
  /\ j.step = "unsolicited" => Fee < j.amount
  /\ j.step = "not_enough" => Fee < j.amount /\ j.amount < Price
  /\ j.step = "excess" => Price + Fee < j.amount
  /\ j.step = "chat" => j.state = WAITING_FOR_PAYMENT
  /\ j.step \in CatalogSteps /\ j.again => j.state \in {WAITING_FOR_PAYMENT, CANCELLED}
  /\ j.step \notin CatalogSteps \cup {"save"} => ~j.again
  /\ j.step = "save" /\ j.again => j.state = REFUNDED
  /\ j.step = "save" =>
       j.state \in {WAITING_FOR_PAYMENT, CANCELLED, WAITING_FOR_SIZE, REFUNDED}
  /\ j.step \in {"route", "size", "get_refunds", "create_refunds"} => j.times = 0
  /\ j.step = "cover" => j.entry # NoKey

(* A handler is at a row, and has counted refunds, of its customer only.   *)
RowOK(h) ==
  job[h].row # NoKey =>
    job[h].row \in Rows /\ session[job[h].row].customer = job[h].customer

EntryOK(h) ==
  job[h].entry # NoKey => job[h].entry \in DOMAIN refunds[job[h].customer]

HandlerOK(h) == JobOK(job[h]) /\ RowOK(h) /\ EntryOK(h)

JobInv == JobsTyped /\ RowsTyped /\ RefundsTyped /\ \A h \in Workers : HandlerOK(h)

(* What is there stays there.                                              *)
Known ==
  /\ RowsTyped' /\ RefundsTyped'
  /\ Rows \subseteq Rows'
  /\ \A i \in Rows : session'[i].customer = session[i].customer
  /\ \A c \in Customers : DOMAIN refunds[c] \subseteq DOMAIN refunds'[c]

LEMMA KnownIfSame ==
  ASSUME RowsTyped, RefundsTyped,
         \/ session' = session
         \/ \E h \in Workers, state \in SessionStates : Saves(h, state)
         \/ \E h \in Workers : Opens(h),
         refunds' = refunds
  PROVE  Known
<1>1. RefundsTyped' /\ \A c \in Customers : DOMAIN refunds[c] \subseteq DOMAIN refunds'[c]
  BY DEF RefundsTyped
<1>2. CASE session' = session
  BY <1>1, <1>2 DEF Known, RowsTyped, Rows
<1>3. ASSUME NEW h \in Workers, NEW state \in SessionStates, Saves(h, state)
      PROVE  Known
  BY <1>1, <1>3 DEF Known, Saves
<1>4. ASSUME NEW h \in Workers, Opens(h)
      PROVE  Known
  BY <1>1, <1>4 DEF Known, Opens
<1> QED
  BY <1>2, <1>3, <1>4

LEMMA FinishesOK ==
  ASSUME NEW h \in Workers, Finishes(h)
  PROVE  JobsTyped' /\ OthersSame(h) /\ HandlerOK(h)'
<1>1. /\ job'[h].step = "idle" /\ job'[h].customer = NoCustomer
      /\ job'[h].row = NoKey /\ job'[h].entry = NoKey /\ job'[h].again = FALSE
      /\ JobsTyped' /\ OthersSame(h)
  BY DEF Finishes, Becomes
<1>2. JobOK(job'[h])
  BY <1>1 DEF JobOK, RowSteps, CatalogSteps, SizeSteps, SellSteps
<1> QED
  BY <1>1, <1>2 DEF HandlerOK, RowOK, EntryOK

(* A handler that stays with its rows goes on knowing them.                *)
LEMMA BecomesOK ==
  ASSUME JobsTyped, NEW h \in Workers, HandlerOK(h), Known, job[h].customer \in Customers,
         NEW s, NEW state, NEW t, NEW b, NEW b2,
         Becomes(h, s, job[h].customer, job[h].row, state, job[h].entry, t,
                 job[h].amount, b2, b)
  PROVE  /\ JobsTyped' /\ OthersSame(h) /\ RowOK(h)' /\ EntryOK(h)'
<1>1. /\ JobsTyped' /\ OthersSame(h)
      /\ job'[h].row = job[h].row /\ job'[h].entry = job[h].entry
      /\ job'[h].customer = job[h].customer
  BY DEF Becomes
<1>2. RowOK(h)'
  BY <1>1 DEF HandlerOK, RowOK, Known
<1>3. EntryOK(h)'
  BY <1>1 DEF HandlerOK, EntryOK, Known
<1> QED
  BY <1>1, <1>2, <1>3

LEMMA SetsOK ==
  ASSUME JobsTyped, NEW h \in Workers, HandlerOK(h), Known, job[h].customer \in Customers,
         NEW s, NEW state, NEW b, Sets(h, s, state, b)
  PROVE  /\ JobsTyped' /\ OthersSame(h) /\ RowOK(h)' /\ EntryOK(h)'
         /\ job'[h].step = s /\ job'[h].state = state /\ job'[h].again = b
         /\ job'[h].customer = job[h].customer /\ job'[h].row = job[h].row
         /\ job'[h].entry = job[h].entry /\ job'[h].times = job[h].times
         /\ job'[h].amount = job[h].amount
<1>1. JobsTyped' /\ OthersSame(h) /\ RowOK(h)' /\ EntryOK(h)'
  BY BecomesOK DEF Sets
<1> QED
  BY <1>1 DEF Sets, Becomes

LEMMA ReadsOK ==
  ASSUME JobsTyped, RowsTyped, NEW h \in Workers, HandlerOK(h), Known,
         job[h].customer \in Customers,
         NEW i \in Rows, session[i].customer = job[h].customer,
         NEW s, Reads(h, s, i)
  PROVE  /\ JobsTyped' /\ OthersSame(h) /\ RowOK(h)' /\ EntryOK(h)'
         /\ job'[h].row # NoKey
<1>1. /\ JobsTyped' /\ OthersSame(h)
      /\ job'[h].row = i /\ job'[h].entry = job[h].entry
      /\ job'[h].customer = job[h].customer
  BY DEF Reads, Becomes
<1>2. i # NoKey
  BY RowFields
<1>3. RowOK(h)'
  BY <1>1 DEF RowOK, Known
<1>4. EntryOK(h)'
  BY <1>1 DEF HandlerOK, EntryOK, Known
<1> QED
  BY <1>1, <1>2, <1>3, <1>4

(* The customer of a busy handler, and the row of one that has one.        *)
LEMMA BusyKnows ==
  ASSUME JobInv, NEW h \in Workers, job[h].step # "idle"
  PROVE  /\ job[h].customer \in Customers
         /\ job[h].step \in RowSteps => job[h].row \in Rows
BY DEF JobInv, JobsTyped, AnyJob, HandlerOK, JobOK, RowOK

(* One handler has moved, and knows what it should.                        *)
Turn(h) == JobsTyped' /\ OthersSame(h) /\ HandlerOK(h)' /\ Known

-----------------------------------------------------------------------------
(* After each of its steps a handler knows what it should. *)

LEMMA TurnSteps ==
  ASSUME JobInv, returned \in [Customers -> Nat], NEW h \in Workers,
         Handle(h) \/ HandlePayment(h) \/ HandlerStops(h)
  PROVE  Turn(h)
<1>0. /\ JobsTyped /\ RowsTyped /\ RefundsTyped /\ HandlerOK(h)
      /\ JobOK(job[h]) /\ NoCustomer \notin Customers
  BY NoCustomerFresh DEF JobInv, HandlerOK
<1>1. ASSUME Finishes(h), Known
      PROVE  Turn(h)
  BY <1>1, FinishesOK DEF Turn
<1>2. ASSUME NEW s, NEW state, NEW b, Sets(h, s, state, b), Known,
             job[h].customer \in Customers, JobOK(job'[h])
      PROVE  Turn(h)
  BY <1>0, <1>2, SetsOK DEF Turn, HandlerOK
<1>3. OnlyJob => Known
  BY <1>0, KnownIfSame DEF OnlyJob, rowVars
<1>4. UNCHANGED rowVars => Known
  BY <1>0, KnownIfSame DEF rowVars
<1>5. CASE GoOn(h)
  <2>1. job[h].step = "route" /\ job[h].customer \in Customers /\ Known
    BY <1>5, <1>3, BusyKnows, GoOnDoes, <1>0 DEF GoOn, At
  <2>2. PICK i \in RowsOf(job[h].customer, ActiveStates) :
          Reads(h, StepOf(session[i].state), i)
    BY <1>5, <1>0, GoOnDoes
  <2>3. /\ i \in Rows /\ session[i].customer = job[h].customer
        /\ session[i].state \in ActiveStates
    BY DEF RowsOf
  <2>4. /\ job'[h].step = StepOf(session[i].state) /\ job'[h].state = session[i].state
        /\ job'[h].customer = job[h].customer /\ job'[h].again = job[h].again
        /\ job'[h].times = job[h].times
    BY <2>2 DEF Reads, Becomes
  <2>5. \/ job'[h].step \in {"catalog", "size"}
        \/ job'[h].step = "chat" /\ job'[h].state = WAITING_FOR_PAYMENT
    BY <2>3, <2>4 DEF StepOf, ActiveStates
  <2>6. JobsTyped' /\ OthersSame(h) /\ RowOK(h)' /\ EntryOK(h)' /\ job'[h].row # NoKey
    BY <1>0, <2>1, <2>2, <2>3, ReadsOK
  <2>7. JobOK(job'[h])
    BY <1>0, <2>1, <2>4, <2>5, <2>6
    DEF JobOK, RowSteps, CatalogSteps, SizeSteps, SellSteps, At
  <2> QED
    BY <2>1, <2>6, <2>7 DEF Turn, HandlerOK
<1>6. CASE StartNew(h)
  <2>1. job[h].step = "route" /\ job[h].customer \in Customers
    BY <1>6, BusyKnows DEF StartNew, At
  <2>2. /\ Known
        /\ \/ Sets(h, "new", job[h].state, job[h].again)
           \/ Finishes(h)
    BY <1>6, <1>0, <1>3, <2>1, StartNewDoes DEF Moves
  <2>3. CASE Sets(h, "new", job[h].state, job[h].again)
    <3>1. JobOK(job'[h])
      BY <1>0, <2>1, <2>2, <2>3, SetsOK, States
      DEF JobOK, RowSteps, CatalogSteps, SizeSteps, SellSteps, At
    <3> QED
      BY <1>2, <2>1, <2>2, <2>3, <3>1
  <2>4. CASE Finishes(h)
    BY <1>1, <2>2, <2>4
  <2> QED
    BY <2>2, <2>3, <2>4
<1>7. CASE GetSession(h)
  <2>1. job[h].step = "new" /\ job[h].customer \in Customers /\ Known
    BY <1>7, <1>3, BusyKnows, GetSessionDoes, <1>0 DEF GetSession, At
  <2>2. CASE Finishes(h)
    BY <1>1, <2>1, <2>2
  <2>3. CASE Sets(h, "create", job[h].state, job[h].again)
    <3>1. JobOK(job'[h])
      BY <1>0, <2>1, <2>3, SetsOK, States
      DEF JobOK, RowSteps, CatalogSteps, SizeSteps, SellSteps, At
    <3> QED
      BY <1>2, <2>1, <2>3, <3>1
  <2>4. ASSUME NEW i \in RowsOf(job[h].customer, {READY}), Reads(h, "catalog", i)
        PROVE  Turn(h)
    <3>1. i \in Rows /\ session[i].customer = job[h].customer
      BY DEF RowsOf
    <3>2. /\ job'[h].step = "catalog" /\ job'[h].again = job[h].again
          /\ job'[h].customer = job[h].customer
      BY <2>4 DEF Reads, Becomes
    <3>3. JobsTyped' /\ OthersSame(h) /\ RowOK(h)' /\ EntryOK(h)' /\ job'[h].row # NoKey
      BY <1>0, <2>1, <2>4, <3>1, ReadsOK
    <3>4. JobOK(job'[h])
      BY <1>0, <2>1, <3>2, <3>3
      DEF JobOK, RowSteps, CatalogSteps, SizeSteps, SellSteps, At
    <3> QED
      BY <2>1, <3>3, <3>4 DEF Turn, HandlerOK
  <2> QED
    BY <1>7, <1>0, <2>2, <2>3, <2>4, GetSessionDoes DEF Moves
<1>8. CASE CreateSession(h)
  <2>1. job[h].step = "create" /\ job[h].customer \in Customers
    BY <1>8, BusyKnows DEF CreateSession, At
  <2>2. Opens(h) /\ refunds' = refunds
    BY <1>8, <1>0, <2>1, CreateSessionDoes
  <2>3. Known
    BY <1>0, <2>2, KnownIfSame
  <2>4. CASE Finishes(h)
    BY <1>1, <2>3, <2>4
  <2>5. CASE Becomes(h, "catalog", job[h].customer, Len(session) + 1,
                     job[h].state, job[h].entry, job[h].times, job[h].amount,
                     job[h].cover, job[h].again)
    <3>1. /\ JobsTyped' /\ OthersSame(h) /\ job'[h].step = "catalog"
          /\ job'[h].again = job[h].again /\ job'[h].customer = job[h].customer
          /\ job'[h].row = Len(session) + 1 /\ job'[h].entry = job[h].entry
      BY <2>5 DEF Becomes
    <3>2. RowOK(h)'
      BY <2>2, <3>1 DEF RowOK, Opens
    <3>3. EntryOK(h)'
      BY <1>0, <2>1, <2>3, <3>1 DEF HandlerOK, EntryOK, Known
    <3>4. job'[h].row # NoKey
      BY <2>2, <3>1 DEF Opens
    <3>5. JobOK(job'[h])
      BY <1>0, <2>1, <3>1, <3>4
      DEF JobOK, RowSteps, CatalogSteps, SizeSteps, SellSteps, At
    <3> QED
      BY <2>3, <3>1, <3>2, <3>3, <3>5 DEF Turn, HandlerOK
  <2> QED
    BY <1>8, <1>0, <2>1, <2>4, <2>5, CreateSessionDoes
<1>9. CASE ExplainPayments(h)
  <2>1. job[h].step = "catalog" /\ job[h].customer \in Customers /\ Known
    BY <1>9, <1>0, <1>3, BusyKnows, ExplainPaymentsDoes DEF ExplainPayments, At
  <2>2. CASE job[h].again
    <3>1. Sets(h, "save", job[h].state, FALSE)
      BY <1>9, <1>0, <2>2, ExplainPaymentsDoes
    <3>2. /\ job'[h].step = "save" /\ job'[h].state = job[h].state /\ ~job'[h].again
          /\ job'[h].customer = job[h].customer /\ job'[h].row = job[h].row
          /\ job'[h].entry = job[h].entry /\ job'[h].times = job[h].times
          /\ job'[h].amount = job[h].amount
      BY <1>0, <2>1, <2>2, <3>1, SetsOK, ZenonT(60)
    <3>3. JobOK(job'[h])
      BY <1>0, <2>1, <2>2, <3>1, <3>2, States
      DEF JobOK, RowSteps, CatalogSteps, SizeSteps, SellSteps, At
    <3> QED
      BY <1>2, <2>1, <3>1, <3>3
  <2>3. CASE ~job[h].again
    BY <1>9, <1>0, <1>1, <2>1, <2>3, ExplainPaymentsDoes
  <2> QED
    BY <2>2, <2>3
<1>10. CASE ShowCatalog(h)
  <2>1. job[h].step = "catalog" /\ job[h].customer \in Customers
    BY <1>10, BusyKnows DEF ShowCatalog, At
  <2>2. /\ Known
        /\ \/ Sets(h, "list", job[h].state, job[h].again)
           \/ Sets(h, "request", job[h].state, job[h].again)
    BY <1>10, <1>0, <1>3, <2>1, ShowCatalogDoes DEF Moves
  <2>3. CASE Sets(h, "list", job[h].state, job[h].again)
    <3>1. JobOK(job'[h])
      BY <1>0, <2>1, <2>2, <2>3, SetsOK, States
      DEF JobOK, RowSteps, CatalogSteps, SizeSteps, SellSteps, At
    <3> QED
      BY <1>2, <2>1, <2>2, <2>3, <3>1
  <2>4. CASE Sets(h, "request", job[h].state, job[h].again)
    <3>1. JobOK(job'[h])
      BY <1>0, <2>1, <2>2, <2>4, SetsOK, States
      DEF JobOK, RowSteps, CatalogSteps, SizeSteps, SellSteps, At
    <3> QED
      BY <1>2, <2>1, <2>2, <2>4, <3>1
  <2> QED
    BY <2>2, <2>3, <2>4
<1>11. CASE ListOptions(h)
  <2>1. job[h].step = "list" /\ job[h].customer \in Customers
    BY <1>11, BusyKnows DEF ListOptions, At
  <2>2. /\ Known
        /\ \/ Sets(h, "request", job[h].state, job[h].again)
           \/ Finishes(h)
    BY <1>11, <1>0, <1>3, <2>1, ListOptionsDoes DEF Moves
  <2>3. CASE Sets(h, "request", job[h].state, job[h].again)
    <3>1. JobOK(job'[h])
      BY <1>0, <2>1, <2>2, <2>3, SetsOK, States
      DEF JobOK, RowSteps, CatalogSteps, SizeSteps, SellSteps, At
    <3> QED
      BY <1>2, <2>1, <2>2, <2>3, <3>1
  <2>4. CASE Finishes(h)
    BY <1>1, <2>2, <2>4
  <2> QED
    BY <2>2, <2>3, <2>4
<1>12. CASE RequestPayment(h)
  <2>1. /\ job[h].step = "request" /\ job[h].customer \in Customers
        /\ job[h].row \in Rows
    BY <1>12, BusyKnows DEF RequestPayment, At, RowSteps, CatalogSteps
  <2>2. Saves(h, WAITING_FOR_PAYMENT) /\ refunds' = refunds
    BY <1>12, <1>0, <2>1, RequestPaymentDoes
  <2>3. WAITING_FOR_PAYMENT \in SessionStates
    BY <1>0, States DEF JobsTyped, AnyJob
  <2>4. Known
    BY <1>0, <2>2, <2>3, KnownIfSame
  <2>5. CASE job[h].again
    <3>1. Sets(h, "save", WAITING_FOR_PAYMENT, FALSE)
      BY <1>12, <1>0, <2>1, <2>5, RequestPaymentDoes
    <3>2. /\ job'[h].step = "save" /\ job'[h].state = WAITING_FOR_PAYMENT /\ ~job'[h].again
          /\ job'[h].customer = job[h].customer /\ job'[h].row = job[h].row
          /\ job'[h].entry = job[h].entry /\ job'[h].times = job[h].times
          /\ job'[h].amount = job[h].amount
      BY <1>0, <2>1, <2>4, <2>5, <3>1, SetsOK, ZenonT(60)
    <3>3. JobOK(job'[h])
      BY <1>0, <2>1, <2>4, <2>5, <3>1, <3>2, States
      DEF JobOK, RowSteps, CatalogSteps, SizeSteps, SellSteps, At
    <3> QED
      BY <1>2, <2>1, <2>4, <3>1, <3>3
  <2>6. CASE ~job[h].again
    BY <1>12, <1>0, <1>1, <2>1, <2>4, <2>6, RequestPaymentDoes
  <2> QED
    BY <2>5, <2>6
<1>13. CASE Chat(h)
  <2>1. job[h].step = "chat" /\ job[h].customer \in Customers
    BY <1>13, BusyKnows DEF Chat, At
  <2>2. (Sets(h, "catalog", job[h].state, TRUE)) /\ Known
    BY <1>13, <1>0, <1>3, <2>1, ChatDoes DEF Moves
  <2>3. CASE Sets(h, "catalog", job[h].state, TRUE)
    <3>1. /\ job'[h].step = "catalog" /\ job'[h].state = job[h].state /\ job'[h].again
          /\ job'[h].customer = job[h].customer /\ job'[h].row = job[h].row
          /\ job'[h].entry = job[h].entry /\ job'[h].times = job[h].times
          /\ job'[h].amount = job[h].amount
      BY <1>0, <2>1, <2>2, <2>3, SetsOK, ZenonT(60)
    <3>2. JobOK(job'[h])
      BY <1>0, <2>1, <2>2, <2>3, <3>1, States
      DEF JobOK, RowSteps, CatalogSteps, SizeSteps, SellSteps, At
    <3> QED
      BY <1>2, <2>1, <2>2, <2>3, <3>2
  <2> QED
    BY <2>2, <2>3
<1>14. CASE HandleCancel(h)
  <2>1. /\ job[h].step = "chat" /\ job[h].customer \in Customers
        /\ job[h].row \in Rows
    BY <1>14, BusyKnows DEF HandleCancel, At, RowSteps, CatalogSteps
  <2>2. Saves(h, CANCELLED) /\ refunds' = refunds
    BY <1>14, <1>0, <2>1, HandleCancelDoes
  <2>3. CANCELLED \in SessionStates
    BY <1>0, States DEF JobsTyped, AnyJob
  <2>4. Known
    BY <1>0, <2>2, <2>3, KnownIfSame
  <2>5. Turn(h)
    <3>1. Sets(h, "catalog", CANCELLED, TRUE)
      BY <1>14, <1>0, <2>1, HandleCancelDoes
    <3>2. /\ job'[h].step = "catalog" /\ job'[h].state = CANCELLED /\ job'[h].again
          /\ job'[h].customer = job[h].customer /\ job'[h].row = job[h].row
          /\ job'[h].entry = job[h].entry /\ job'[h].times = job[h].times
          /\ job'[h].amount = job[h].amount
      BY <1>0, <2>1, <2>4, <3>1, SetsOK, ZenonT(60)
    <3>3. JobOK(job'[h])
      BY <1>0, <2>1, <2>4, <3>1, <3>2, States
      DEF JobOK, RowSteps, CatalogSteps, SizeSteps, SellSteps, At
    <3> QED
      BY <1>2, <2>1, <2>4, <3>1, <3>3
  <2> QED
    BY <2>5
<1>15. CASE Save(h)
  <2>1. /\ job[h].step = "save" /\ job[h].customer \in Customers
        /\ job[h].row \in Rows
    BY <1>15, BusyKnows DEF Save, At, RowSteps, CatalogSteps
  <2>2. Saves(h, job[h].state) /\ refunds' = refunds
    BY <1>15, <1>0, <2>1, SaveDoes
  <2>3. job[h].state \in SessionStates
    BY <1>0, States DEF JobsTyped, AnyJob
  <2>4. Known
    BY <1>0, <2>2, <2>3, KnownIfSame
  <2>5. CASE job[h].again
    <3>1. Sets(h, "save", job[h].state, FALSE)
      BY <1>15, <1>0, <2>1, <2>5, SaveDoes
    <3>2. /\ job'[h].step = "save" /\ job'[h].state = job[h].state /\ ~job'[h].again
          /\ job'[h].customer = job[h].customer /\ job'[h].row = job[h].row
          /\ job'[h].entry = job[h].entry /\ job'[h].times = job[h].times
          /\ job'[h].amount = job[h].amount
      BY <1>0, <2>1, <2>4, <2>5, <3>1, SetsOK, ZenonT(60)
    <3>3. JobOK(job'[h])
      BY <1>0, <2>1, <2>4, <2>5, <3>1, <3>2, States
      DEF JobOK, RowSteps, CatalogSteps, SizeSteps, SellSteps, At
    <3> QED
      BY <1>2, <2>1, <2>4, <3>1, <3>3
  <2>6. CASE ~job[h].again
    BY <1>15, <1>0, <1>1, <2>1, <2>4, <2>6, SaveDoes
  <2> QED
    BY <2>5, <2>6
<1>16. CASE AnswerSize(h)
  BY <1>0, <1>1, <1>3, <1>16, AnswerSizeDoes
<1>17. CASE CancelSize(h)
  <2>1. job[h].step = "size" /\ job[h].customer \in Customers
    BY <1>17, BusyKnows DEF CancelSize, At
  <2>2. Sets(h, "get_refunds", job[h].state, job[h].again) /\ Known
    BY <1>17, <1>0, <1>3, <2>1, CancelSizeDoes DEF Moves
  <2>3. JobOK(job'[h])
    BY <1>0, <2>1, <2>2, SetsOK, States
    DEF JobOK, RowSteps, CatalogSteps, SizeSteps, SellSteps, At
  <2> QED
    BY <1>2, <2>1, <2>2, <2>3
<1>18. CASE GetRefunds(h)
  <2>1. job[h].step = "get_refunds" /\ job[h].customer \in Customers
    BY <1>18, BusyKnows DEF GetRefunds, At
  <2>2. Known
    BY <1>18, <1>0, <1>3, <2>1, GetRefundsDoes
  <2>3. CASE Finishes(h)
    BY <1>1, <2>2, <2>3
  <2>4. CASE Sets(h, "create_refunds", job[h].state, job[h].again)
    <3>1. JobOK(job'[h])
      BY <1>0, <2>1, <2>2, <2>4, SetsOK, States
      DEF JobOK, RowSteps, CatalogSteps, SizeSteps, SellSteps, At
    <3> QED
      BY <1>2, <2>1, <2>2, <2>4, <3>1
  <2>5. CASE /\ Len(refunds[job[h].customer]) = 1
             /\ Counts(h, "cover", 1, refunds[job[h].customer][1])
    <3>1. /\ JobsTyped' /\ OthersSame(h) /\ job'[h].step = "cover"
          /\ job'[h].again = job[h].again /\ job'[h].customer = job[h].customer
          /\ job'[h].row = job[h].row /\ job'[h].entry = 1
      BY <2>5 DEF Counts, Becomes
    <3>2. RowOK(h)'
      BY <1>0, <2>2, <3>1 DEF HandlerOK, RowOK, Known
    <3>3. DOMAIN refunds[job[h].customer] = {1}
      <4>1. refunds[job[h].customer] \in Seq(0 .. MaxFees)
        BY <1>0, <2>1 DEF RefundsTyped
      <4> QED
        BY <2>5, <4>1, OnlyElement
    <3>4. EntryOK(h)'
      BY <2>1, <2>2, <3>1, <3>3 DEF EntryOK, Known
    <3>5. JobOK(job'[h])
      BY <1>0, <2>1, <3>1
      DEF JobOK, RowSteps, CatalogSteps, SizeSteps, SellSteps, At, NoKey
    <3> QED
      BY <2>2, <3>1, <3>2, <3>4, <3>5 DEF Turn, HandlerOK
  <2> QED
    BY <1>18, <1>0, <2>1, <2>3, <2>4, <2>5, GetRefundsDoes DEF Moves
<1>19. CASE CreateRefunds(h)
  <2>1. job[h].step = "create_refunds" /\ job[h].customer \in Customers
    BY <1>19, BusyKnows DEF CreateRefunds, At
  <2> DEFINE counts == refunds[job[h].customer]
  <2>2. /\ refunds' = [refunds EXCEPT ![job[h].customer] = Append(counts, 0)]
        /\ RefundsTyped' /\ session' = session
        /\ Counts(h, "cover", Len(counts) + 1, job[h].times)
    BY <1>19, <1>0, <2>1, CreateRefundsDoes
  <2>3. /\ counts \in Seq(0 .. MaxFees) /\ Append(counts, 0) \in Seq(0 .. MaxFees)
        /\ Len(counts) \in Nat
    <3>1. refunds[job[h].customer] \in Seq(0 .. MaxFees) /\ 0 \in 0 .. MaxFees
      BY <1>0, <2>1, Money DEF RefundsTyped
    <3> QED
      BY <3>1
  <2>4. refunds'[job[h].customer] = Append(counts, 0)
    BY <1>0, <2>1, <2>2 DEF RefundsTyped
  <2>5. /\ DOMAIN counts \subseteq DOMAIN Append(counts, 0)
        /\ Len(counts) + 1 \in DOMAIN Append(counts, 0) /\ Len(counts) + 1 # NoKey
    BY <2>3 DEF NoKey
  <2>6. Known
    <3>1. \A c \in Customers \ {job[h].customer} : refunds'[c] = refunds[c]
      BY <1>0, <2>2 DEF RefundsTyped
    <3>2. \A c \in Customers : DOMAIN refunds[c] \subseteq DOMAIN refunds'[c]
      BY <2>4, <2>5, <3>1
    <3> QED
      BY <1>0, <2>2, <3>2 DEF Known, RowsTyped, Rows
  <2>7. /\ JobsTyped' /\ OthersSame(h) /\ job'[h].step = "cover"
        /\ job'[h].again = job[h].again /\ job'[h].customer = job[h].customer
        /\ job'[h].row = job[h].row /\ job'[h].entry = Len(counts) + 1
    BY <2>2 DEF Counts, Becomes
  <2>8. RowOK(h)'
    BY <1>0, <2>6, <2>7 DEF HandlerOK, RowOK, Known
  <2>9. EntryOK(h)'
    BY <2>4, <2>5, <2>7 DEF EntryOK
  <2>10. JobOK(job'[h])
    BY <1>0, <2>1, <2>5, <2>7 DEF JobOK, RowSteps, CatalogSteps, SizeSteps, SellSteps, At
  <2> QED
    BY <2>6, <2>7, <2>8, <2>9, <2>10 DEF Turn, HandlerOK
<1>20. CASE CoverFee(h)
  <2>1. /\ job[h].step = "cover" /\ job[h].customer \in Customers
        /\ job[h].entry \in DOMAIN refunds[job[h].customer]
    BY <1>20, <1>0, BusyKnows DEF CoverFee, At, HandlerOK, JobOK, EntryOK
  <2>2. /\ RefundsTyped' /\ session' = session
        /\ \A c \in Customers \ {job[h].customer} : refunds'[c] = refunds[c]
        /\ Len(refunds'[job[h].customer]) = Len(refunds[job[h].customer])
        /\ Becomes(h, "refund", job[h].customer, job[h].row, job[h].state,
                   job[h].entry, job[h].times, job[h].amount, TRUE, job[h].again)
    BY <1>20, <1>0, <2>1, CoverFeeDoes
  <2>3. DOMAIN refunds'[job[h].customer] = DOMAIN refunds[job[h].customer]
    <3>1. /\ refunds'[job[h].customer] \in Seq(0 .. MaxFees)
          /\ refunds[job[h].customer] \in Seq(0 .. MaxFees)
      BY <1>0, <2>1, <2>2 DEF RefundsTyped
    <3> QED
      BY <2>2, <3>1
  <2>4. Known
    BY <1>0, <2>2, <2>3 DEF Known, RowsTyped, Rows
  <2>5. JobsTyped' /\ OthersSame(h) /\ RowOK(h)' /\ EntryOK(h)'
    BY <1>0, <2>1, <2>2, <2>4, BecomesOK
  <2>6. /\ job'[h].step = "refund" /\ job'[h].again = job[h].again
        /\ job'[h].customer = job[h].customer /\ job'[h].row = job[h].row
    BY <2>2 DEF Becomes
  <2>7. JobOK(job'[h])
    BY <1>0, <2>1, <2>6 DEF JobOK, RowSteps, CatalogSteps, SizeSteps, SellSteps, At
  <2> QED
    BY <2>4, <2>5, <2>7 DEF Turn, HandlerOK
<1>21. CASE KeepFee(h)
  <2>1. job[h].step = "cover" /\ job[h].customer \in Customers
    BY <1>21, BusyKnows DEF KeepFee, At
  <2>2. Sets(h, "refund", job[h].state, job[h].again) /\ Known
    BY <1>21, <1>0, <1>3, <2>1, KeepFeeDoes DEF Moves
  <2>3. JobOK(job'[h])
    BY <1>0, <2>1, <2>2, SetsOK, States
    DEF JobOK, RowSteps, CatalogSteps, SizeSteps, SellSteps, At
  <2> QED
    BY <1>2, <2>1, <2>2, <2>3
<1>22. CASE RefundPrice(h)
  <2>1. job[h].step = "refund" /\ job[h].customer \in Customers
    BY <1>22, BusyKnows DEF RefundPrice, At
  <2>2. /\ Known
        /\ \/ Sets(h, "save", REFUNDED, job[h].again)
           \/ Finishes(h)
    BY <1>22, <1>0, <1>4, <2>1, RefundPriceDoes DEF Sent
  <2>3. CASE Sets(h, "save", REFUNDED, job[h].again)
    <3>1. JobOK(job'[h])
      BY <1>0, <2>1, <2>2, <2>3, SetsOK, States
      DEF JobOK, RowSteps, CatalogSteps, SizeSteps, SellSteps, At
    <3> QED
      BY <1>2, <2>1, <2>2, <2>3, <3>1
  <2>4. CASE Finishes(h)
    BY <1>1, <2>2, <2>4
  <2> QED
    BY <2>2, <2>3, <2>4
<1>23. CASE IgnoreFailed(h)
  BY <1>0, <1>1, <1>3, <1>23, IgnoreFailedDoes
<1>24. CASE FindUnsolicited(h)
  <2>1. job[h].step = "payment" /\ job[h].customer \in Customers
    BY <1>24, BusyKnows DEF FindUnsolicited, At
  <2>2. /\ \/ Fee < job[h].amount /\ Sets(h, "unsolicited", job[h].state, job[h].again)
           \/ Finishes(h)
        /\ Known
    BY <1>24, <1>0, <1>4, <2>1, FindUnsolicitedDoes DEF Moves
  <2>3. CASE Finishes(h)
    BY <1>1, <2>2, <2>3
  <2>4. CASE Fee < job[h].amount /\ Sets(h, "unsolicited", job[h].state, job[h].again)
    <3>1. JobOK(job'[h])
      BY <1>0, <2>1, <2>2, <2>4, SetsOK, States
      DEF JobOK, RowSteps, CatalogSteps, SizeSteps, SellSteps, At
    <3> QED
      BY <1>2, <2>1, <2>2, <2>4, <3>1
  <2> QED
    BY <2>2, <2>3, <2>4
<1>25. CASE RefundUnsolicited(h)
  BY <1>0, <1>1, <1>4, <1>25, RefundUnsolicitedDoes
<1>26. CASE FindWaiting(h)
  <2>1. job[h].step = "payment" /\ job[h].customer \in Customers
    BY <1>26, BusyKnows DEF FindWaiting, At
  <2>2. Known
    BY <1>26, <1>0, <1>4, FindWaitingDoes
  <2>3. CASE Finishes(h)
    BY <1>1, <2>2, <2>3
  <2>4. ASSUME NEW i \in RowsOf(job[h].customer, {WAITING_FOR_PAYMENT}),
               NEW s \in {"not_enough", "stock", "excess"}, Reads(h, s, i),
               s = "not_enough" => Fee < job[h].amount /\ job[h].amount < Price,
               s = "excess" => Price + Fee < job[h].amount
        PROVE  Turn(h)
    <3>1. i \in Rows /\ session[i].customer = job[h].customer
      BY DEF RowsOf
    <3>2. /\ job'[h].step = s /\ job'[h].again = job[h].again
          /\ job'[h].customer = job[h].customer /\ job'[h].amount = job[h].amount
      BY <2>4 DEF Reads, Becomes
    <3>3. JobsTyped' /\ OthersSame(h) /\ RowOK(h)' /\ EntryOK(h)' /\ job'[h].row # NoKey
      BY <1>0, <2>1, <2>2, <2>4, <3>1, ReadsOK
    <3>4. JobOK(job'[h])
      BY <1>0, <2>1, <2>4, <3>2, <3>3
      DEF JobOK, RowSteps, CatalogSteps, SizeSteps, SellSteps, At
    <3> QED
      BY <2>2, <3>3, <3>4 DEF Turn, HandlerOK
  <2> QED
    BY <1>26, <1>0, <2>3, <2>4, FindWaitingDoes
<1>27. CASE ReturnUnderpayment(h)
  <2>1. job[h].step = "not_enough" /\ job[h].customer \in Customers
    BY <1>27, BusyKnows DEF ReturnUnderpayment, At
  <2>2. /\ Known
        /\ \/ Sets(h, "stock", job[h].state, job[h].again)
           \/ Finishes(h)
    BY <1>27, <1>0, <1>4, <2>1, ReturnUnderpaymentDoes DEF Moves, Sent
  <2>3. CASE Sets(h, "stock", job[h].state, job[h].again)
    <3>1. JobOK(job'[h])
      BY <1>0, <2>1, <2>2, <2>3, SetsOK, States
      DEF JobOK, RowSteps, CatalogSteps, SizeSteps, SellSteps, At
    <3> QED
      BY <1>2, <2>1, <2>2, <2>3, <3>1
  <2>4. CASE Finishes(h)
    BY <1>1, <2>2, <2>4
  <2> QED
    BY <2>2, <2>3, <2>4
<1>28. CASE ReturnExcess(h)
  <2>1. job[h].step = "excess" /\ job[h].customer \in Customers
    BY <1>28, BusyKnows DEF ReturnExcess, At
  <2>2. /\ Known
        /\ \/ Sets(h, "stock", job[h].state, job[h].again)
           \/ Finishes(h)
    BY <1>28, <1>0, <1>4, <2>1, ReturnExcessDoes DEF Moves, Sent
  <2>3. CASE Sets(h, "stock", job[h].state, job[h].again)
    <3>1. JobOK(job'[h])
      BY <1>0, <2>1, <2>2, <2>3, SetsOK, States
      DEF JobOK, RowSteps, CatalogSteps, SizeSteps, SellSteps, At
    <3> QED
      BY <1>2, <2>1, <2>2, <2>3, <3>1
  <2>4. CASE Finishes(h)
    BY <1>1, <2>2, <2>4
  <2> QED
    BY <2>2, <2>3, <2>4
<1>29. CASE CheckStock(h)
  <2>1. job[h].step = "stock" /\ job[h].customer \in Customers
    BY <1>29, BusyKnows DEF CheckStock, At
  <2>2. /\ Known
        /\ \/ Sets(h, "ask_size", job[h].state, job[h].again)
           \/ Sets(h, "sold_out", job[h].state, job[h].again)
    BY <1>29, <1>0, <1>3, <2>1, CheckStockDoes DEF Moves
  <2>3. CASE Sets(h, "ask_size", job[h].state, job[h].again)
    <3>1. JobOK(job'[h])
      BY <1>0, <2>1, <2>2, <2>3, SetsOK, States
      DEF JobOK, RowSteps, CatalogSteps, SizeSteps, SellSteps, At
    <3> QED
      BY <1>2, <2>1, <2>2, <2>3, <3>1
  <2>4. CASE Sets(h, "sold_out", job[h].state, job[h].again)
    <3>1. JobOK(job'[h])
      BY <1>0, <2>1, <2>2, <2>4, SetsOK, States
      DEF JobOK, RowSteps, CatalogSteps, SizeSteps, SellSteps, At
    <3> QED
      BY <1>2, <2>1, <2>2, <2>4, <3>1
  <2> QED
    BY <2>2, <2>3, <2>4
<1>30. CASE RefundSoldOut(h)
  <2>1. job[h].step = "sold_out" /\ job[h].customer \in Customers
    BY <1>30, BusyKnows DEF RefundSoldOut, At
  <2>2. /\ Known
        /\ \/ Sets(h, "save", REFUNDED, TRUE)
           \/ Finishes(h)
    BY <1>30, <1>0, <1>4, <2>1, RefundSoldOutDoes DEF Sent
  <2>3. CASE Sets(h, "save", REFUNDED, TRUE)
    <3>1. /\ job'[h].step = "save" /\ job'[h].state = REFUNDED /\ job'[h].again
          /\ job'[h].customer = job[h].customer /\ job'[h].row = job[h].row
          /\ job'[h].entry = job[h].entry /\ job'[h].times = job[h].times
          /\ job'[h].amount = job[h].amount
      BY <1>0, <2>1, <2>2, <2>3, SetsOK, ZenonT(60)
    <3>2. JobOK(job'[h])
      BY <1>0, <2>1, <2>2, <2>3, <3>1, States
      DEF JobOK, RowSteps, CatalogSteps, SizeSteps, SellSteps, At
    <3> QED
      BY <1>2, <2>1, <2>2, <2>3, <3>2
  <2>4. CASE Finishes(h)
    BY <1>1, <2>2, <2>4
  <2> QED
    BY <2>2, <2>3, <2>4
<1>31. CASE AskSize(h)
  <2>1. job[h].step = "ask_size" /\ job[h].customer \in Customers
    BY <1>31, BusyKnows DEF AskSize, At
  <2>2. /\ Known
        /\ \/ Sets(h, "save", WAITING_FOR_SIZE, job[h].again)
           \/ Finishes(h)
    BY <1>31, <1>0, <1>3, <2>1, AskSizeDoes DEF Moves
  <2>3. CASE Sets(h, "save", WAITING_FOR_SIZE, job[h].again)
    <3>1. JobOK(job'[h])
      BY <1>0, <2>1, <2>2, <2>3, SetsOK, States
      DEF JobOK, RowSteps, CatalogSteps, SizeSteps, SellSteps, At
    <3> QED
      BY <1>2, <2>1, <2>2, <2>3, <3>1
  <2>4. CASE Finishes(h)
    BY <1>1, <2>2, <2>4
  <2> QED
    BY <2>2, <2>3, <2>4
<1>32. CASE HandlerStops(h)
  BY <1>32, <1>0, <1>1, <1>4, HandlerStopsDoes
<1> QED
  BY <1>5, <1>6, <1>7, <1>8, <1>9, <1>10, <1>11, <1>12, <1>13, <1>14, <1>15, <1>16,
     <1>17, <1>18, <1>19, <1>20, <1>21, <1>22, <1>23, <1>24, <1>25, <1>26, <1>27, <1>28,
     <1>29, <1>30, <1>31, <1>32 DEF Handle, HandlePayment

-----------------------------------------------------------------------------
(* Every step of the program. *)

Counted ==
  /\ stock \in BOOLEAN
  /\ restricted \subseteq Customers
  /\ open \in BOOLEAN
  /\ messages \in 0 .. MaxMessages
  /\ disturbances \in 0 .. MaxDisturbances
  /\ paid \in [Customers -> Nat]
  /\ returned \in [Customers -> Nat]
  /\ fees \in [Customers -> Nat]
  /\ underpaid \in [Customers -> Nat]

BaseInv == JobInv /\ Counted

LEMMA DisturbCounts ==
  ASSUME disturbances \in 0 .. MaxDisturbances, Disturb
  PROVE  /\ disturbances' \in 0 .. MaxDisturbances
         /\ disturbances' = disturbances + 1
BY ItemDropBounds DEF Disturb

(* The sums that are sent. *)
LEMMA GivenTyped ==
  ASSUME Counted, NEW c \in Customers, NEW a \in Nat, NEW n \in Nat,
         Given(c, a, n)
  PROVE  /\ returned' \in [Customers -> Nat]
         /\ returned'[c] = returned[c] + (1 + n) * a
         /\ returned[c] <= returned'[c]
         /\ \A d \in Customers \ {c} : returned'[d] = returned[d]
<1> DEFINE k == (1 + n) * a
<1>1. k \in Nat
  OBVIOUS
<1>2. returned' = [returned EXCEPT ![c] = @ + k] /\ returned \in [Customers -> Nat]
  BY DEF Given, Counted
<1>3. k = (1 + n) * a
  OBVIOUS
<1> HIDE DEF k
<1>4. returned'[c] = returned[c] + k /\ returned[c] \in Nat
  BY <1>2
<1>5. returned' \in [Customers -> Nat]
  BY <1>1, <1>2
<1> QED
  BY <1>1, <1>2, <1>3, <1>4, <1>5

(* What a payment counts, in numbers. *)
LEMMA SentTyped ==
  ASSUME Counted, NEW h \in Workers, NEW c \in Customers, job[h].customer = c,
         NEW a \in Nat, NEW ACTION going, Sent(h, a, going)
  PROVE  /\ returned' \in [Customers -> Nat]
         /\ returned[c] <= returned'[c]
         /\ \A d \in Customers \ {c} : returned'[d] = returned[d]
         /\ disturbances' \in 0 .. MaxDisturbances
         /\ disturbances <= disturbances'
         /\ \/ \E n \in Nat : /\ disturbances' = disturbances + n /\ going
                             /\ returned'[c] = returned[c] + (1 + n) * a
            \/ \E n \in Nat : /\ disturbances' = disturbances + 1 + n
                             /\ Finishes(h)
                             /\ returned'[c] = returned[c] + (1 + n) * a
            \/ /\ disturbances' = disturbances + 1
               /\ going \/ Finishes(h)
               /\ returned'[c] = returned[c]
<1>0. disturbances \in Nat /\ MaxDisturbances \in Nat /\ returned \in [Customers -> Nat]
  BY ItemDropBounds DEF Counted
<1>1. ASSUME NEW n \in Nat, Takes(n), going, Given(c, a, n)
      PROVE  /\ disturbances' \in 0 .. MaxDisturbances
             /\ disturbances' = disturbances + n
             /\ disturbances <= disturbances'
  BY <1>0, <1>1 DEF Takes
<1>2. ASSUME NEW n \in Nat, Takes(n + 1), Finishes(h), Given(c, a, n)
      PROVE  /\ disturbances' \in 0 .. MaxDisturbances
             /\ disturbances' = disturbances + 1 + n
             /\ disturbances <= disturbances'
  BY <1>0, <1>2 DEF Takes
<1>3. ASSUME Takes(1)
      PROVE  /\ disturbances' \in 0 .. MaxDisturbances
             /\ disturbances' = disturbances + 1
             /\ disturbances <= disturbances'
  BY <1>0, <1>3 DEF Takes
<1>4. CASE \E n \in Nat : Takes(n) /\ going /\ Given(c, a, n)
  BY <1>1, <1>4, GivenTyped
<1>5. CASE \E n \in Nat : Takes(n + 1) /\ Finishes(h) /\ Given(c, a, n)
  BY <1>2, <1>5, GivenTyped
<1>6. CASE Takes(1) /\ (going \/ Finishes(h)) /\ returned' = returned
  <2>1. returned[c] \in Nat
    BY <1>0
  <2> QED
    BY <1>0, <1>3, <1>6, <2>1
<1> QED
  BY <1>4, <1>5, <1>6 DEF Sent

(* A payment is counted. *)
LEMMA PaymentTyped ==
  ASSUME JobsTyped, Counted, NEW h \in Workers, job[h].customer \in Customers,
         CountPayment(h)
  PROVE  /\ paid' \in [Customers -> Nat]
         /\ paid'[job[h].customer] = paid[job[h].customer] + job[h].amount
         /\ \A d \in Customers \ {job[h].customer} : paid'[d] = paid[d]
<1>1. job[h].amount \in Nat
  BY AmountIsNumber
<1> QED
  BY <1>1 DEF Counted, CountPayment

(* The amounts that the handlers of payments send are numbers. *)
LEMMA AmountsTyped ==
  ASSUME JobInv, NEW h \in Workers
  PROVE  /\ job[h].amount \in Nat
         /\ job[h].step = "unsolicited" => job[h].amount - Fee \in Nat
         /\ job[h].step = "not_enough" => job[h].amount - Fee \in Nat
         /\ job[h].step = "excess" => job[h].amount - Price - Fee \in Nat
         /\ Price + Fee \in Nat /\ Price - Fee \in Nat
         /\ job[h].amount - Fee <= Cost /\ job[h].amount - Price - Fee <= Cost
<1>1. job[h].amount \in Nat /\ JobOK(job[h])
  BY AmountIsNumber DEF JobInv, HandlerOK
<1>2. job[h].amount \in Amounts \/ job[h].amount = 0
  BY DEF JobInv, JobsTyped, AnyJob
<1>3. job[h].amount - Fee <= Cost /\ job[h].amount - Price - Fee <= Cost
  BY <1>1, <1>2, Money
<1> QED
  BY <1>1, <1>3, Money DEF JobOK

(* The steps that move no money, and count nothing. *)
Quiet == UNCHANGED <<dropVars, boundVars, history>>

LEMMA QuietSteps ==
  ASSUME NEW h \in Workers,
         \/ GoOn(h) \/ StartNew(h) \/ GetSession(h) \/ CreateSession(h)
         \/ ExplainPayments(h) \/ ShowCatalog(h) \/ ListOptions(h)
         \/ RequestPayment(h) \/ Chat(h) \/ HandleCancel(h) \/ Save(h)
         \/ AnswerSize(h) \/ CancelSize(h) \/ GetRefunds(h) \/ CreateRefunds(h)
         \/ KeepFee(h) \/ IgnoreFailed(h) \/ CheckStock(h) \/ AskSize(h)
  PROVE  Quiet
BY DEF Quiet, OnlyJob, GoOn, StartNew, GetSession, CreateSession, ExplainPayments,
       ShowCatalog, ListOptions, RequestPayment, Chat, HandleCancel, Save,
       AnswerSize, CancelSize, GetRefunds, CreateRefunds, KeepFee, IgnoreFailed,
       CheckStock, AskSize

LEMMA CountedSteps ==
  ASSUME BaseInv, NEW h \in Workers,
         Handle(h) \/ HandlePayment(h) \/ HandlerStops(h)
  PROVE  Counted'
<1>0. JobInv /\ Counted /\ JobsTyped /\ RowsTyped /\ RefundsTyped
  BY DEF BaseInv, JobInv
<1>1. CASE Quiet
  BY <1>0, <1>1 DEF Quiet, dropVars, boundVars, history, Counted
<1>2. CASE CoverFee(h)
  <2>1. job[h].customer \in Customers
    BY <1>0, <1>2, BusyKnows DEF CoverFee, At
  <2>2. fees' \in [Customers -> Nat]
    BY <1>0, <1>2, <2>1 DEF CoverFee, Counted
  <2> QED
    BY <1>0, <1>2, <2>2 DEF CoverFee, Counted, dropVars, boundVars
<1>3. ASSUME NEW a \in Nat, job[h].customer \in Customers,
             NEW ACTION going, Sent(h, a, going),
             UNCHANGED <<rowVars, dropVars, messages, paid, fees, underpaid>>
      PROVE  Counted'
  <2>1. returned' \in [Customers -> Nat] /\ disturbances' \in 0 .. MaxDisturbances
    BY <1>0, <1>3, SentTyped
  <2> QED
    BY <1>0, <1>3, <2>1 DEF Counted, dropVars
<1>4. CASE RefundPrice(h)
  <2>1. job[h].customer \in Customers
    BY <1>0, <1>4, BusyKnows DEF RefundPrice, At
  <2>2. PICK a \in {Price + Fee, Price - Fee} :
          Sent(h, a, Sets(h, "save", REFUNDED, job[h].again))
    BY <1>0, <1>4, RefundPriceDoes
  <2>3. a \in Nat
    BY Money
  <2> QED
    BY <1>0, <1>3, <1>4, <2>1, <2>2, <2>3, RefundPriceDoes
<1>5. CASE ReturnExcess(h)
  <2>1. job[h].customer \in Customers /\ job[h].amount - Price - Fee \in Nat
    BY <1>0, <1>5, BusyKnows, AmountsTyped DEF ReturnExcess, At
  <2> QED
    BY <1>0, <1>3, <1>5, <2>1, ReturnExcessDoes
<1>6. CASE ReturnUnderpayment(h)
  <2>1. job[h].customer \in Customers /\ job[h].amount - Fee \in Nat
    BY <1>0, <1>6, BusyKnows, AmountsTyped DEF ReturnUnderpayment, At
  <2> QED
    BY <1>0, <1>3, <1>6, <2>1, ReturnUnderpaymentDoes
<1>7. CASE RefundSoldOut(h)
  <2>1. job[h].customer \in Customers /\ Price + Fee \in Nat
    BY <1>0, <1>7, BusyKnows, Money DEF RefundSoldOut, At
  <2> QED
    BY <1>0, <1>3, <1>7, <2>1, RefundSoldOutDoes
<1>8. CASE RefundUnsolicited(h)
  <2>1. job[h].customer \in Customers /\ job[h].amount - Fee \in Nat
    BY <1>0, <1>8, BusyKnows, AmountsTyped DEF RefundUnsolicited, At
  <2> QED
    BY <1>0, <1>3, <1>8, <2>1, RefundUnsolicitedDoes
<1>9. CASE FindUnsolicited(h)
  <2>1. job[h].customer \in Customers /\ CountPayment(h)
    BY <1>0, <1>9, BusyKnows DEF FindUnsolicited, At
  <2>2. paid' \in [Customers -> Nat]
    BY <1>0, <2>1, PaymentTyped
  <2> QED
    BY <1>0, <1>9, <2>2 DEF FindUnsolicited, Counted, dropVars, boundVars
<1>10. CASE FindWaiting(h)
  <2>1. job[h].customer \in Customers /\ CountPayment(h)
    BY <1>0, <1>10, BusyKnows DEF FindWaiting, At
  <2>2. paid' \in [Customers -> Nat]
    BY <1>0, <2>1, PaymentTyped
  <2>3. underpaid' \in [Customers -> Nat]
    BY <1>0, <1>10, <2>1 DEF FindWaiting, Counted
  <2> QED
    BY <1>0, <1>10, <2>2, <2>3 DEF FindWaiting, Counted, dropVars, boundVars
<1>11. CASE HandlerStops(h)
  <2>1. disturbances' \in 0 .. MaxDisturbances
    BY <1>0, <1>11, DisturbCounts DEF HandlerStops, Counted
  <2> QED
    BY <1>0, <1>11, <2>1 DEF HandlerStops, Counted, dropVars, history
<1> QED
  BY <1>1, <1>2, <1>4, <1>5, <1>6, <1>7, <1>8, <1>9, <1>10, <1>11, QuietSteps
  DEF Handle, HandlePayment

(* Nothing that was disturbed is forgotten. *)
LEMMA HandlerDisturbs ==
  ASSUME BaseInv, NEW h \in Workers,
         Handle(h) \/ HandlePayment(h) \/ HandlerStops(h)
  PROVE  disturbances <= disturbances'
<1>0. JobInv /\ Counted /\ JobsTyped /\ disturbances \in Nat
  BY ItemDropBounds DEF BaseInv, JobInv, Counted
<1>1. CASE Quiet \/ CoverFee(h) \/ FindUnsolicited(h) \/ FindWaiting(h)
  <2>1. disturbances' = disturbances
    BY <1>1 DEF Quiet, CoverFee, FindUnsolicited, FindWaiting, boundVars
  <2> QED
    BY <1>0, <2>1
<1>2. ASSUME NEW ACTION going, NEW a, Sent(h, a, going)
      PROVE  disturbances <= disturbances'
  BY <1>0, <1>2 DEF Sent, Takes
<1>3. CASE HandlerStops(h)
  BY <1>0, <1>3 DEF HandlerStops, Disturb
<1>4. CASE RefundPrice(h) \/ ReturnUnderpayment(h) \/ ReturnExcess(h)
  BY <1>0, <1>2, <1>4, RefundPriceDoes, ReturnUnderpaymentDoes, ReturnExcessDoes
<1>5. CASE RefundSoldOut(h) \/ RefundUnsolicited(h)
  BY <1>0, <1>2, <1>5, RefundSoldOutDoes, RefundUnsolicitedDoes
<1> QED
  BY <1>1, <1>3, <1>4, <1>5, QuietSteps DEF Handle, HandlePayment

LEMMA BaseTurn ==
  ASSUME JobInv, NEW h \in Workers, Turn(h)
  PROVE  JobInv'
<1>1. JobsTyped' /\ HandlerOK(h)' /\ Known
  BY DEF Turn
<1>2. ASSUME NEW g \in Workers \ {h}
      PROVE  HandlerOK(g)'
  <2>1. job'[g] = job[g] /\ HandlerOK(g)
    BY DEF Turn, OthersSame, JobInv
  <2>2. job[g].customer \in Customers \/ job[g].customer = NoCustomer
    BY DEF JobInv, JobsTyped, AnyJob
  <2>3. RowOK(g)'
    BY <1>1, <2>1 DEF HandlerOK, RowOK, Known
  <2>4. EntryOK(g)'
    <3>1. CASE job[g].customer \in Customers
      BY <1>1, <2>1, <3>1 DEF HandlerOK, EntryOK, Known
    <3>2. CASE job[g].entry = NoKey
      BY <2>1, <3>2 DEF EntryOK
    <3>3. job[g].customer = NoCustomer => job[g].entry = NoKey
      BY <2>1 DEF HandlerOK, JobOK
    <3> QED
      BY <2>2, <3>1, <3>2, <3>3
  <2> QED
    BY <2>1, <2>3, <2>4 DEF HandlerOK
<1> QED
  BY <1>1, <1>2 DEF JobInv, Known

-----------------------------------------------------------------------------
(* A message or a payment that is taken from the queue. *)
LEMMA Receptions ==
  ASSUME NEW h \in Workers, NEW c \in Customers, ReceiveChat(h, c) \/ ReceivePayment(h, c)
  PROVE  \/ Receive(h, c, "route", 0)
         \/ \E a \in Amounts : Receive(h, c, "payment", a)
BY DEF ReceiveChat, ReceivePayment

LEMMA ReceiveBase ==
  ASSUME BaseInv, NEW h \in Workers, NEW c \in Customers,
         NEW s \in {"route", "payment"}, NEW a \in Amounts \cup {0}, Receive(h, c, s, a)
  PROVE  Turn(h) /\ Counted'
<1>0. JobInv /\ Counted /\ JobsTyped /\ RowsTyped /\ RefundsTyped
  BY DEF BaseInv, JobInv
<1>1. /\ Becomes(h, s, c, NoKey, READY, NoKey, 0, a, FALSE, FALSE)
      /\ disturbances' = disturbances \/ Disturb
      /\ messages < MaxMessages /\ messages' = messages + 1
      /\ UNCHANGED <<rowVars, dropVars, history>>
  BY <1>0, ReceiveDoes DEF JobSteps
<1>2. /\ JobsTyped' /\ OthersSame(h) /\ job'[h].step = s /\ job'[h].customer = c
      /\ job'[h].row = NoKey /\ job'[h].entry = NoKey /\ job'[h].times = 0
      /\ ~job'[h].again
  BY <1>1 DEF Becomes
<1>3. c # NoCustomer
  BY NoCustomerFresh
<1>4. JobOK(job'[h])
  BY <1>2, <1>3 DEF JobOK, RowSteps, CatalogSteps, SizeSteps, SellSteps
<1>5. Known
  BY <1>0, <1>1, KnownIfSame DEF rowVars
<1>6. RowOK(h)' /\ EntryOK(h)'
  BY <1>2 DEF RowOK, EntryOK
<1>7. messages' \in 0 .. MaxMessages
  BY <1>0, <1>1, ItemDropBounds DEF Counted
<1>8. disturbances' \in 0 .. MaxDisturbances
  BY <1>0, <1>1, DisturbCounts DEF Counted
<1>9. Counted'
  BY <1>0, <1>1, <1>7, <1>8 DEF Counted, dropVars, history
<1> QED
  BY <1>2, <1>4, <1>5, <1>6, <1>9 DEF Turn, HandlerOK

(* A crash is the end of every handler. *)
LEMMA CrashDoes ==
  ASSUME JobsTyped, Crash
  PROVE  /\ JobsTyped' /\ Disturb
         /\ \A h \in Workers : /\ job'[h].step = "idle" /\ job'[h].customer = NoCustomer
                               /\ job'[h].row = NoKey /\ job'[h].entry = NoKey
                               /\ job'[h].amount = 0 /\ ~job'[h].again
         /\ UNCHANGED <<rowVars, dropVars, messages, history>>
<1>1. NoJob \in AnyJob
  BY Money, States DEF NoJob, AnyJob, JobSteps, NoKey
<1>2. job' = [h \in Workers |-> NoJob]
  BY DEF Crash
<1>3. JobsTyped'
  BY <1>1, <1>2 DEF JobsTyped
<1> QED
  BY <1>2, <1>3 DEF Crash, NoJob

LEMMA CrashBase ==
  ASSUME BaseInv, Crash
  PROVE  BaseInv'
<1>0. JobInv /\ Counted /\ JobsTyped /\ RowsTyped /\ RefundsTyped
  BY DEF BaseInv, JobInv
<1>1. /\ JobsTyped' /\ Disturb
      /\ \A h \in Workers : /\ job'[h].step = "idle" /\ job'[h].customer = NoCustomer
                            /\ job'[h].row = NoKey /\ job'[h].entry = NoKey
                            /\ ~job'[h].again
      /\ UNCHANGED <<rowVars, dropVars, messages, history>>
  BY <1>0, CrashDoes
<1>2. RowsTyped' /\ RefundsTyped'
  BY <1>0, <1>1 DEF rowVars, RowsTyped, RefundsTyped
<1>3. ASSUME NEW h \in Workers
      PROVE  HandlerOK(h)'
  <2>1. JobOK(job'[h])
    BY <1>1 DEF JobOK, RowSteps, CatalogSteps, SizeSteps, SellSteps
  <2> QED
    BY <1>1, <2>1 DEF HandlerOK, RowOK, EntryOK
<1>4. Counted'
  BY <1>0, <1>1, DisturbCounts DEF Counted, dropVars, history
<1> QED
  BY <1>1, <1>2, <1>3, <1>4 DEF BaseInv, JobInv

(* The steps that are no handler's change neither rows nor jobs.           *)
LEMMA OutsideSteps ==
  ASSUME EditStock \/ EndDrop
  PROVE  UNCHANGED <<rowVars, job, boundVars, history>>
BY DEF EditStock, EndDrop

LEMMA BaseSame ==
  ASSUME BaseInv, UNCHANGED <<rowVars, job, boundVars, history>>,
         stock' \in BOOLEAN, open' \in BOOLEAN, restricted' = restricted
  PROVE  BaseInv'
<1>1. session' = session /\ refunds' = refunds /\ job' = job
  BY DEF rowVars
<1>2. JobInv'
  BY <1>1 DEF BaseInv, JobInv, JobsTyped, RowsTyped, RefundsTyped, HandlerOK,
              RowOK, EntryOK, Rows
<1>3. Counted'
  BY DEF BaseInv, Counted, boundVars, history
<1> QED
  BY <1>2, <1>3 DEF BaseInv

LEMMA BaseInit ==
  ASSUME Init
  PROVE  BaseInv
<1>1. NoJob \in AnyJob
  BY Money, States DEF NoJob, AnyJob, JobSteps, NoKey
<1>2. JobsTyped
  BY <1>1 DEF Init, JobsTyped
<1>3. RowsTyped /\ RefundsTyped
  BY DEF Init, RowsTyped, RefundsTyped
<1>4. ASSUME NEW h \in Workers
      PROVE  HandlerOK(h)
  <2>1. job[h] = NoJob
    BY DEF Init
  <2>2. JobOK(job[h])
    BY <2>1 DEF JobOK, NoJob, RowSteps, CatalogSteps, SizeSteps, SellSteps
  <2> QED
    BY <2>1, <2>2 DEF HandlerOK, RowOK, EntryOK, NoJob
<1>5. Counted
  BY ItemDropBounds DEF Init, Counted
<1> QED
  BY <1>2, <1>3, <1>4, <1>5 DEF BaseInv, JobInv

(* The disjuncts of a step, as the proofs below split it. *)
LEMMA Steps ==
  ASSUME [Next]_vars
  PROVE  \/ \E h \in Workers, c \in Customers :
              \/ Receive(h, c, "route", 0)
              \/ \E a \in Amounts : Receive(h, c, "payment", a)
         \/ \E h \in Workers : Handle(h) \/ HandlePayment(h) \/ HandlerStops(h)
         \/ Crash
         \/ EditStock \/ EndDrop
         \/ UNCHANGED vars
BY Receptions DEF Next

LEMMA BaseStep ==
  ASSUME BaseInv, [Next]_vars
  PROVE  BaseInv'
<1>1. ASSUME NEW h \in Workers, NEW c \in Customers, Receive(h, c, "route", 0)
      PROVE  BaseInv'
  BY <1>1, ReceiveBase, BaseTurn DEF BaseInv
<1>2. ASSUME NEW h \in Workers, NEW c \in Customers, NEW a \in Amounts,
             Receive(h, c, "payment", a)
      PROVE  BaseInv'
  BY <1>2, ReceiveBase, BaseTurn DEF BaseInv
<1>3. ASSUME NEW h \in Workers, Handle(h) \/ HandlePayment(h) \/ HandlerStops(h)
      PROVE  BaseInv'
  <2>1. JobInv /\ returned \in [Customers -> Nat]
    BY DEF BaseInv, Counted
  <2> QED
    BY <1>3, <2>1, TurnSteps, BaseTurn, CountedSteps DEF BaseInv
<1>4. CASE EditStock
  BY <1>4, BaseSame DEF BaseInv, Counted, EditStock
<1>5. CASE EndDrop
  BY <1>5, BaseSame DEF BaseInv, Counted, EndDrop
<1>6. CASE UNCHANGED vars
  BY <1>6, BaseSame DEF BaseInv, Counted, vars, dropVars
<1> QED
  BY <1>1, <1>2, <1>3, <1>4, <1>5, <1>6, CrashBase, Steps

LEMMA DisturbancesGrow ==
  ASSUME BaseInv, [Next]_vars
  PROVE  /\ disturbances \in Nat /\ disturbances' \in Nat
         /\ disturbances <= disturbances'
<1>1. /\ disturbances \in Nat /\ disturbances' \in Nat
      /\ Disturb => disturbances <= disturbances'
  BY BaseStep, DisturbCounts, ItemDropBounds DEF BaseInv, Counted
<1>2. ASSUME NEW h \in Workers, NEW c \in Customers, NEW s, NEW a, Receive(h, c, s, a)
      PROVE  disturbances <= disturbances'
  BY <1>1, <1>2 DEF Receive
<1>3. CASE Crash
  BY <1>1, <1>3 DEF Crash
<1>4. CASE EditStock \/ EndDrop \/ UNCHANGED vars
  BY <1>1, <1>4 DEF EditStock, EndDrop, boundVars, vars
<1> QED
  BY <1>1, <1>2, <1>3, <1>4, HandlerDisturbs, Steps

(* Where a handler stands says what it knows: that it has a row of its     *)
(* customer's, what a payment amounts to, and which state it is to save.   *)
THEOREM BaseInvariant == Spec => []BaseInv
<1>1. BaseInv /\ [Next]_vars => BaseInv'
  BY BaseStep
<1> QED
  BY <1>1, BaseInit, PTL DEF Spec

(* Every variable keeps its type; a refund row never counts further than   *)
(* the limit, and a handler's keys are those of rows that exist.           *)
THEOREM TypeCorrect == Spec => []TypeOK
<1>1. ASSUME BaseInv
      PROVE  TypeOK
  <2>0. JobsTyped /\ RowsTyped /\ RefundsTyped
    BY <1>1 DEF BaseInv, JobInv
  <2>1. ASSUME NEW h \in Workers
        PROVE  /\ job[h] \in JobType
               /\ job[h].entry # NoKey => job[h].entry \in DOMAIN refunds[job[h].customer]
    <3>1. job[h] \in AnyJob
      BY <2>0 DEF JobsTyped
    <3>2. job[h].row \in Rows \cup {NoKey} /\ EntryOK(h)
      BY <1>1 DEF BaseInv, JobInv, HandlerOK, RowOK
    <3> QED
      BY <3>1, <3>2 DEF AnyJob, JobType, EntryOK
  <2>2. job \in [Workers -> JobType]
    BY <2>0, <2>1 DEF JobsTyped
  <2> QED
    BY <1>1, <2>0, <2>1, <2>2
    DEF BaseInv, Counted, TypeOK, RowsTyped, RowType, RefundsTyped
<1> QED
  BY <1>1, BaseInvariant, PTL

-----------------------------------------------------------------------------
(* The covered fees. *)

(* The steps after which a handler may still cover a fee. *)
CoverSteps == {"route", "size", "get_refunds", "create_refunds", "cover"}

Coverers(c) == {h \in Workers : job[h].customer = c /\ job[h].step \in CoverSteps}

(* What the next handler reads as number_of_times_refunded. *)
Counter(c) == IF Len(refunds[c]) = 0 THEN 0 ELSE refunds[c][1]

(* Each handler that may still cover a fee is counted as if it did: while  *)
(* it is alone its copy of the counter is exact, and one that overlaps     *)
(* another was a disturbance.  With two rows of the counter no handler     *)
(* gets to read either.                                                    *)
FeesInv(c) ==
  /\ fees[c] <= MaxFees + disturbances
  /\ \A g \in Coverers(c) :
       job[g].step \in {"create_refunds", "cover"} =>
         fees[c] + Cardinality(Coverers(c)) <= job[g].times + 1 + disturbances
  /\ Len(refunds[c]) <= 1 =>
       /\ fees[c] <= Counter(c) + disturbances
       /\ fees[c] + Cardinality(Coverers(c)) <= Counter(c) + 1 + disturbances

LEMMA CoverersFinite ==
  ASSUME NEW c
  PROVE  IsFiniteSet(Coverers(c)) /\ Cardinality(Coverers(c)) \in Nat
<1>1. Coverers(c) \subseteq Workers
  BY DEF Coverers
<1> QED
  BY <1>1, PoolFinite, FS_Subset, FS_CardinalityType

LEMMA CounterType ==
  ASSUME RefundsTyped, NEW c \in Customers
  PROVE  Counter(c) \in Nat /\ Len(refunds[c]) \in Nat
<1>1. refunds[c] \in Seq(0 .. MaxFees)
  BY DEF RefundsTyped
<1>2. CASE Len(refunds[c]) = 0
  BY <1>2 DEF Counter
<1>3. CASE Len(refunds[c]) # 0
  <2>1. 1 \in 1 .. Len(refunds[c])
    BY <1>1, <1>3
  <2>2. refunds[c][1] \in 0 .. MaxFees
    BY <1>1, <2>1, ElementOfSeq
  <2> QED
    BY <1>1, <1>3, <2>2, Money DEF Counter
<1> QED
  BY <1>1, <1>2, <1>3

(* No handler joins, and one that has read the counter knows it.           *)
LEMMA FeesStay ==
  ASSUME BaseInv, BaseInv', NEW c \in Customers, FeesInv(c),
         fees'[c] = fees[c], refunds'[c] = refunds[c],
         disturbances <= disturbances',
         Coverers(c)' \subseteq Coverers(c),
         \A g \in Coverers(c)' :
           job'[g].step \in {"create_refunds", "cover"} =>
             \/ /\ job[g].step \in {"create_refunds", "cover"}
                /\ job'[g].times = job[g].times
             \/ Len(refunds[c]) <= 1 /\ job'[g].times = Counter(c)
  PROVE  FeesInv(c)'
<1> DEFINE n == Cardinality(Coverers(c))
           m == Cardinality(Coverers(c)')
<1>1. n \in Nat /\ m \in Nat /\ m <= n
  BY CoverersFinite, NoMore
<1>2. /\ fees[c] \in Nat /\ disturbances \in Nat /\ MaxFees \in Nat
      /\ disturbances' \in Nat /\ Counter(c) \in Nat
      /\ \A g \in Workers : job[g].times \in Nat
  BY CounterType, Money, ItemDropBounds
  DEF BaseInv, JobInv, JobsTyped, AnyJob, Counted
<1>3. Counter(c)' = Counter(c)
  BY DEF Counter
<1>4. \A g \in Coverers(c)' : g \in Workers /\ g \in Coverers(c)
  BY DEF Coverers
<1>5. \A g \in Coverers(c) :
       job[g].step \in {"create_refunds", "cover"} =>
         fees[c] + n <= job[g].times + 1 + disturbances
  BY DEF FeesInv
<1>6. Len(refunds[c]) <= 1 =>
       /\ fees[c] <= Counter(c) + disturbances
       /\ fees[c] + n <= Counter(c) + 1 + disturbances
  BY DEF FeesInv
<1>7. fees'[c] <= MaxFees + disturbances'
  BY <1>2 DEF FeesInv
<1> HIDE DEF n, m
<1>8. ASSUME NEW g \in Coverers(c)', job'[g].step \in {"create_refunds", "cover"}
      PROVE  fees'[c] + m <= job'[g].times + 1 + disturbances'
  <2>1. g \in Workers /\ g \in Coverers(c)
    BY <1>4
  <2>2. CASE job[g].step \in {"create_refunds", "cover"} /\ job'[g].times = job[g].times
    <3>1. fees[c] + n <= job[g].times + 1 + disturbances
      BY <1>5, <2>1, <2>2
    <3> QED
      BY <1>1, <1>2, <2>1, <2>2, <3>1, SMTT(40)
  <2>3. CASE Len(refunds[c]) <= 1 /\ job'[g].times = Counter(c)
    <3>1. fees[c] + n <= Counter(c) + 1 + disturbances
      BY <1>6, <2>3
    <3> QED
      BY <1>1, <1>2, <2>3, <3>1
  <2> QED
    BY <1>8, <2>2, <2>3
<1>9. ASSUME Len(refunds'[c]) <= 1
      PROVE  /\ fees'[c] <= Counter(c)' + disturbances'
             /\ fees'[c] + m <= Counter(c)' + 1 + disturbances'
  <2>1. /\ fees[c] <= Counter(c) + disturbances
        /\ fees[c] + n <= Counter(c) + 1 + disturbances
    BY <1>6, <1>9
  <2> QED
    BY <1>1, <1>2, <1>3, <2>1
<1> QED
  BY <1>7, <1>8, <1>9 DEF FeesInv, m

(* Which steps lead on towards the covering of a fee.                      *)
LEMMA ToCover ==
  ASSUME BaseInv, NEW h \in Workers, Handle(h) \/ HandlePayment(h) \/ HandlerStops(h)
  PROVE  \/ job'[h].step \notin CoverSteps
         \/ GoOn(h) \/ CancelSize(h) \/ GetRefunds(h) \/ CreateRefunds(h)
<1>0. JobInv /\ JobsTyped /\ RowsTyped /\ RefundsTyped /\ returned \in [Customers -> Nat]
  BY DEF BaseInv, JobInv, Counted
<1>1. Finishes(h) => job'[h].step \notin CoverSteps
  BY DEF Finishes, Becomes, CoverSteps
<1>2. ASSUME NEW s \in JobSteps \ CoverSteps, NEW state, NEW b, Sets(h, s, state, b)
      PROVE  job'[h].step \notin CoverSteps
  BY <1>2 DEF Sets, Becomes
<1>3. \A s \in JobSteps \ CoverSteps : Moves(h, s) => job'[h].step \notin CoverSteps
  BY DEF Moves, Sets, Becomes
<1>4. \A s \in JobSteps \ CoverSteps, i \in Rows :
        Reads(h, s, i) => job'[h].step \notin CoverSteps
  BY DEF Reads, Becomes
<1>5. /\ {"idle", "new", "create", "catalog", "list", "request", "chat", "payment",
          "unsolicited", "not_enough", "excess", "stock", "ask_size", "sold_out",
          "refund", "save"} = JobSteps \ CoverSteps
  BY DEF JobSteps, CoverSteps
<1>6. CASE StartNew(h)
  BY <1>0, <1>1, <1>3, <1>5, <1>6, StartNewDoes
<1>7. CASE GetSession(h)
  BY <1>0, <1>1, <1>3, <1>4, <1>5, <1>7, GetSessionDoes DEF RowsOf
<1>8. CASE CreateSession(h)
  <2>1. job[h].customer \in Customers
    BY <1>0, <1>8, BusyKnows DEF CreateSession, At
  <2> QED
    BY <1>0, <1>8, <2>1, CreateSessionDoes DEF Finishes, Becomes, CoverSteps
<1>9. CASE ExplainPayments(h)
  BY <1>0, <1>1, <1>2, <1>5, <1>9, ExplainPaymentsDoes
<1>10. CASE ShowCatalog(h)
  BY <1>0, <1>3, <1>5, <1>10, ShowCatalogDoes
<1>11. CASE ListOptions(h)
  BY <1>0, <1>1, <1>3, <1>5, <1>11, ListOptionsDoes
<1>12. CASE RequestPayment(h) \/ HandleCancel(h) \/ Save(h)
  <2>1. job[h].row \in Rows
    BY <1>0, <1>12, BusyKnows
    DEF RequestPayment, HandleCancel, Save, At, RowSteps, CatalogSteps
  <2> QED
    BY <1>0, <1>1, <1>2, <1>5, <1>12, <2>1, RequestPaymentDoes, HandleCancelDoes, SaveDoes
<1>13. CASE Chat(h)
  BY <1>0, <1>2, <1>5, <1>13, ChatDoes
<1>14. CASE AnswerSize(h)
  BY <1>0, <1>1, <1>14, AnswerSizeDoes
<1>15. CASE CoverFee(h)
  <2>1. /\ job[h].customer \in Customers
        /\ job[h].entry \in DOMAIN refunds[job[h].customer]
    BY <1>0, <1>15, BusyKnows DEF CoverFee, At, JobInv, HandlerOK, JobOK, EntryOK
  <2> QED
    BY <1>0, <1>15, <2>1, CoverFeeDoes DEF Becomes, CoverSteps
<1>16. CASE KeepFee(h)
  BY <1>0, <1>3, <1>5, <1>16, KeepFeeDoes
<1>17. CASE RefundPrice(h)
  BY <1>0, <1>1, <1>2, <1>5, <1>17, RefundPriceDoes DEF Sent
<1>18. CASE IgnoreFailed(h)
  BY <1>0, <1>1, <1>18, IgnoreFailedDoes
<1>19. CASE FindUnsolicited(h)
  BY <1>0, <1>1, <1>3, <1>5, <1>19, FindUnsolicitedDoes
<1>20. CASE RefundUnsolicited(h)
  BY <1>0, <1>1, <1>20, RefundUnsolicitedDoes
<1>21. CASE FindWaiting(h)
  BY <1>0, <1>1, <1>4, <1>5, <1>21, FindWaitingDoes DEF RowsOf
<1>22. CASE ReturnUnderpayment(h) \/ ReturnExcess(h)
  BY <1>0, <1>1, <1>3, <1>5, <1>22, ReturnUnderpaymentDoes, ReturnExcessDoes DEF Sent
<1>23. CASE CheckStock(h)
  BY <1>0, <1>3, <1>5, <1>23, CheckStockDoes
<1>24. CASE RefundSoldOut(h)
  <2>1. job[h].customer \in Customers
    BY <1>0, <1>24, BusyKnows DEF RefundSoldOut, At
  <2> QED
    BY <1>0, <1>1, <1>2, <1>5, <1>24, <2>1, RefundSoldOutDoes DEF Sent
<1>25. CASE AskSize(h)
  BY <1>0, <1>1, <1>2, <1>5, <1>25, AskSizeDoes
<1>26. CASE HandlerStops(h)
  BY <1>0, <1>1, <1>26, HandlerStopsDoes
<1> QED
  BY <1>6, <1>7, <1>8, <1>9, <1>10, <1>11, <1>12, <1>13, <1>14, <1>15, <1>16, <1>17,
     <1>18, <1>19, <1>20, <1>21, <1>22, <1>23, <1>24, <1>25, <1>26
     DEF Handle, HandlePayment

-----------------------------------------------------------------------------
(* A handler that begins to chat, and may come to cover a fee.             *)
LEMMA FeesReceive ==
  ASSUME BaseInv, BaseInv', NEW c \in Customers, FeesInv(c),
         NEW h \in Workers, NEW k \in Customers, NEW s \in {"route", "payment"},
         NEW a \in Amounts \cup {0}, Receive(h, k, s, a)
  PROVE  FeesInv(c)'
<1>0. JobsTyped /\ RefundsTyped /\ Counted /\ (\A g \in Workers : job[g].times \in Nat)
  BY Money DEF BaseInv, JobInv, JobsTyped, AnyJob
<1>1. /\ Becomes(h, s, k, NoKey, READY, NoKey, 0, a, FALSE, FALSE)
      /\ \/ disturbances' = disturbances /\ \A g \in Workers : job[g].customer # k
         \/ Disturb
      /\ UNCHANGED <<rowVars, dropVars, history>>
  BY <1>0, ReceiveDoes DEF JobSteps
<1>2. OthersSame(h) /\ job'[h].step = s /\ job'[h].customer = k
  BY <1>1 DEF Becomes
<1>3. disturbances' = disturbances \/ disturbances' = disturbances + 1
  BY <1>0, <1>1, DisturbCounts DEF Counted
<1>4. refunds' = refunds /\ fees' = fees
  BY <1>1 DEF rowVars, history
<1>5. \A g \in Coverers(c)' : g \in Coverers(c) \/ g = h
  BY <1>2 DEF Coverers, OthersSame
<1>6. \A g \in Workers \ {h} : job'[g] = job[g]
  BY <1>2 DEF OthersSame
<1>7. job'[h].step \notin {"create_refunds", "cover"}
  BY <1>2
<1>8. CASE k # c \/ s = "payment"
  <2>1. h \notin Coverers(c)'
    BY <1>2, <1>8 DEF Coverers, CoverSteps
  <2>2. disturbances <= disturbances'
    BY <1>0, <1>3 DEF Counted
  <2> QED
    BY <1>4, <1>5, <1>6, <2>1, <2>2, FeesStay DEF Coverers
<1>9. CASE k = c /\ s = "route"
  <2> DEFINE n == Cardinality(Coverers(c))
             m == Cardinality(Coverers(c)')
  <2>1. Coverers(c)' \in SUBSET (Coverers(c) \cup {h})
    BY <1>5
  <2>2. n \in Nat /\ m \in Nat /\ m <= n + 1
    BY <2>1, CoverersFinite, OneMore
  <2>3. disturbances' = disturbances => n = 0
    <3>1. ASSUME \A g \in Workers : job[g].customer # k
          PROVE  n = 0
      <4>1. Coverers(c) = {}
        BY <1>9, <3>1 DEF Coverers
      <4> QED
        BY <4>1, FS_EmptySet
    <3>2. Disturb => disturbances' # disturbances
      BY <1>0, DisturbCounts DEF Counted
    <3> QED
      BY <1>1, <3>1, <3>2
  <2>4. /\ fees[c] \in Nat /\ disturbances \in Nat /\ MaxFees \in Nat
        /\ Counter(c) \in Nat
    BY <1>0, CounterType, Money DEF Counted
  <2>5. Counter(c)' = Counter(c) /\ refunds'[c] = refunds[c] /\ fees'[c] = fees[c]
    BY <1>4 DEF Counter
  <2> HIDE DEF n, m
  <2>6. ASSUME NEW g \in Coverers(c)', job'[g].step \in {"create_refunds", "cover"}
        PROVE  fees'[c] + m <= job'[g].times + 1 + disturbances'
    <3>1. g \in Workers \ {h} /\ g \in Coverers(c) /\ job'[g] = job[g] /\ job[g].times \in Nat
      BY <1>0, <1>5, <1>6, <1>7, <2>6 DEF Coverers
    <3>2. fees[c] + n <= job[g].times + 1 + disturbances
      BY <2>6, <3>1 DEF FeesInv, n
    <3>3. disturbances' = disturbances + 1
      <4>1. Coverers(c) # {}
        BY <3>1
      <4>2. n # 0
        BY <4>1, CoverersFinite, FS_EmptySet DEF n
      <4> QED
        BY <1>3, <2>3, <4>2
    <3> QED
      BY <2>2, <2>4, <2>5, <3>1, <3>2, <3>3
  <2>7. ASSUME Len(refunds'[c]) <= 1
        PROVE  /\ fees'[c] <= Counter(c)' + disturbances'
               /\ fees'[c] + m <= Counter(c)' + 1 + disturbances'
    <3>1. /\ fees[c] <= Counter(c) + disturbances
          /\ fees[c] + n <= Counter(c) + 1 + disturbances
      BY <2>5, <2>7 DEF FeesInv, n
    <3> QED
      BY <1>3, <2>2, <2>3, <2>4, <2>5, <3>1
  <2>8. fees'[c] <= MaxFees + disturbances'
    BY <1>3, <2>4, <2>5 DEF FeesInv
  <2> QED
    BY <2>6, <2>7, <2>8 DEF FeesInv, m
<1> QED
  BY <1>8, <1>9

(* The first row of the counter makes it 0, the second one no counter.     *)
LEMMA FeesCreate ==
  ASSUME BaseInv, BaseInv', NEW c \in Customers, FeesInv(c),
         NEW h \in Workers, CreateRefunds(h)
  PROVE  FeesInv(c)'
<1>0. JobInv /\ JobsTyped /\ RefundsTyped /\ Counted
  BY DEF BaseInv, JobInv
<1>1. job[h].customer \in Customers /\ job[h].step = "create_refunds"
  BY <1>0, BusyKnows DEF CreateRefunds, At
<1>2. /\ refunds' = [refunds EXCEPT ![job[h].customer] = Append(@, 0)]
      /\ Counts(h, "cover", Len(refunds[job[h].customer]) + 1, job[h].times)
      /\ UNCHANGED <<session, dropVars, boundVars, history>>
  BY <1>0, <1>1, CreateRefundsDoes
<1>3. /\ OthersSame(h) /\ job'[h].step = "cover"
      /\ job'[h].customer = job[h].customer /\ job'[h].times = job[h].times
  BY <1>2 DEF Counts, Becomes
<1>4. disturbances' = disturbances /\ fees' = fees
  BY <1>2 DEF boundVars, history
<1>5. Coverers(c)' = Coverers(c)
  BY <1>1, <1>3 DEF Coverers, OthersSame, CoverSteps
<1>6. \A g \in Coverers(c)' :
        job'[g].step \in {"create_refunds", "cover"} =>
          /\ job[g].step \in {"create_refunds", "cover"}
          /\ job'[g].times = job[g].times
  BY <1>1, <1>3 DEF Coverers, OthersSame
<1>7. CASE c # job[h].customer
  <2>1. refunds'[c] = refunds[c]
    BY <1>0, <1>1, <1>2, <1>7 DEF RefundsTyped
  <2>2. disturbances <= disturbances'
    BY <1>0, <1>4 DEF Counted
  <2> QED
    BY <1>4, <1>5, <1>6, <2>1, <2>2, FeesStay
<1>8. CASE c = job[h].customer
  <2>1. refunds[c] \in Seq(0 .. MaxFees) /\ refunds'[c] = Append(refunds[c], 0)
    BY <1>0, <1>1, <1>2, <1>8 DEF RefundsTyped
  <2>2. /\ Len(refunds'[c]) = Len(refunds[c]) + 1 /\ Len(refunds[c]) \in Nat
        /\ Len(refunds[c]) = 0 => refunds'[c][1] = 0
    BY <2>1
  <2>3. Len(refunds'[c]) <= 1 => Len(refunds[c]) <= 1 /\ Counter(c)' = 0 /\ Counter(c) = 0
    BY <2>2 DEF Counter
  <2> QED
    BY <1>4, <1>5, <1>6, <2>3 DEF FeesInv
<1> QED
  BY <1>7, <1>8

(* A fee that is covered is one that was counted already.                  *)
LEMMA FeesCover ==
  ASSUME BaseInv, BaseInv', NEW c \in Customers, FeesInv(c),
         NEW h \in Workers, CoverFee(h)
  PROVE  FeesInv(c)'
<1>0. /\ JobInv /\ JobsTyped /\ RefundsTyped /\ Counted
      /\ \A g \in Workers : job[g].times \in Nat
  BY Money DEF BaseInv, JobInv, JobsTyped, AnyJob
<1>1. /\ job[h].customer \in Customers /\ job[h].step = "cover"
      /\ job[h].entry \in DOMAIN refunds[job[h].customer]
  BY <1>0, BusyKnows DEF CoverFee, At, JobInv, HandlerOK, JobOK, EntryOK
<1>2. /\ job[h].times < MaxFees
      /\ \A d \in Customers \ {job[h].customer} : refunds'[d] = refunds[d]
      /\ Len(refunds'[job[h].customer]) = Len(refunds[job[h].customer])
      /\ refunds'[job[h].customer][job[h].entry] = job[h].times + 1
      /\ Becomes(h, "refund", job[h].customer, job[h].row, job[h].state,
                 job[h].entry, job[h].times, job[h].amount, TRUE, job[h].again)
      /\ fees' = [fees EXCEPT ![job[h].customer] = @ + 1]
      /\ UNCHANGED <<session, dropVars, boundVars, paid, returned, underpaid>>
  BY <1>0, <1>1, CoverFeeDoes
<1>3. OthersSame(h) /\ job'[h].step = "refund" /\ job'[h].customer = job[h].customer
  BY <1>2 DEF Becomes
<1>4. disturbances' = disturbances
  BY <1>2 DEF boundVars
<1>5. Coverers(c)' = Coverers(c) \ {h}
  BY <1>1, <1>3 DEF Coverers, OthersSame, CoverSteps
<1>6. \A g \in Coverers(c)' : g \in Workers \ {h} /\ g \in Coverers(c) /\ job'[g] = job[g]
  BY <1>3, <1>5 DEF Coverers, OthersSame
<1>7. CASE c # job[h].customer
  <2>1. refunds'[c] = refunds[c] /\ fees'[c] = fees[c]
    BY <1>0, <1>1, <1>2, <1>7 DEF Counted
  <2>2. disturbances <= disturbances'
    BY <1>0, <1>4 DEF Counted
  <2> QED
    BY <1>4, <1>5, <1>6, <2>1, <2>2, FeesStay
<1>8. CASE c = job[h].customer
  <2> DEFINE n == Cardinality(Coverers(c))
             m == Cardinality(Coverers(c)')
             t == job[h].times
  <2>1. h \in Coverers(c)
    BY <1>1, <1>8 DEF Coverers, CoverSteps
  <2>2. n \in Nat /\ m \in Nat /\ m + 1 <= n
    BY <1>5, <2>1, CoverersFinite, OneLess
  <2>3. /\ fees[c] \in Nat /\ disturbances \in Nat /\ MaxFees \in Nat /\ t \in Nat
        /\ t < MaxFees /\ fees'[c] = fees[c] + 1
    BY <1>0, <1>2, <1>8, Money DEF Counted
  <2>4. fees[c] + n <= t + 1 + disturbances
    BY <1>1, <2>1 DEF FeesInv
  <2> HIDE DEF n, m, t
  <2>5. fees'[c] <= MaxFees + disturbances'
    BY <1>4, <2>2, <2>3, <2>4
  <2>6. ASSUME NEW g \in Coverers(c)', job'[g].step \in {"create_refunds", "cover"}
        PROVE  fees'[c] + m <= job'[g].times + 1 + disturbances'
    <3>1. g \in Coverers(c) /\ job'[g] = job[g] /\ job[g].times \in Nat
      BY <1>0, <1>6
    <3>2. fees[c] + n <= job[g].times + 1 + disturbances
      BY <2>6, <3>1 DEF FeesInv, n
    <3> QED
      BY <1>4, <2>2, <2>3, <3>1, <3>2
  <2>7. ASSUME Len(refunds'[c]) <= 1
        PROVE  Counter(c)' = t + 1
    <3>1. refunds[c] \in Seq(0 .. MaxFees) /\ job[h].entry \in DOMAIN refunds[c]
      BY <1>0, <1>1, <1>8 DEF RefundsTyped
    <3>2. Len(refunds[c]) <= 1 /\ DOMAIN refunds[c] = 1 .. Len(refunds[c])
      BY <1>2, <1>8, <2>7, <3>1
    <3>3. Len(refunds[c]) \in Nat /\ job[h].entry \in 1 .. Len(refunds[c])
      BY <3>1, <3>2
    <3>4. \A k \in Nat : \A e \in 1 .. k : k <= 1 => k = 1 /\ e = 1
      OBVIOUS
    <3>5. Len(refunds[c]) = 1 /\ job[h].entry = 1
      BY <3>2, <3>3, <3>4
    <3> QED
      BY <1>2, <1>8, <3>5 DEF Counter, t
  <2>8. ASSUME Len(refunds'[c]) <= 1
        PROVE  /\ fees'[c] <= Counter(c)' + disturbances'
               /\ fees'[c] + m <= Counter(c)' + 1 + disturbances'
    BY <1>4, <2>2, <2>3, <2>4, <2>7, <2>8
  <2> QED
    BY <2>5, <2>6, <2>8 DEF FeesInv, m
<1> QED
  BY <1>7, <1>8

-----------------------------------------------------------------------------
(* Handlers that do nothing about fees.                                    *)
LEMMA FeesKept ==
  ASSUME NEW h \in Workers, Handle(h) \/ HandlePayment(h) \/ HandlerStops(h),
         ~CreateRefunds(h), ~CoverFee(h)
  PROVE  refunds' = refunds /\ fees' = fees
<1>2. CASE GoOn(h) \/ StartNew(h) \/ GetSession(h) \/ ExplainPayments(h) \/ ShowCatalog(h)
           \/ ListOptions(h) \/ Chat(h) \/ AnswerSize(h) \/ CancelSize(h) \/ GetRefunds(h)
           \/ KeepFee(h) \/ IgnoreFailed(h) \/ CheckStock(h) \/ AskSize(h)
  <2>1. OnlyJob
    BY <1>2 DEF GoOn, StartNew, GetSession, ExplainPayments, ShowCatalog, ListOptions,
       Chat, AnswerSize, CancelSize, GetRefunds, KeepFee, IgnoreFailed, CheckStock,
       AskSize
  <2> QED
    BY <2>1 DEF OnlyJob, rowVars, boundVars, history
<1>3. CASE CreateSession(h) \/ RequestPayment(h) \/ HandleCancel(h) \/ Save(h)
  BY <1>3 DEF CreateSession, RequestPayment, HandleCancel, Save, boundVars, history
<1>4. CASE FindUnsolicited(h) \/ FindWaiting(h)
  BY <1>4 DEF FindUnsolicited, FindWaiting, rowVars, boundVars
<1>5. CASE RefundUnsolicited(h) \/ RefundSoldOut(h)
  BY <1>5 DEF RefundUnsolicited, RefundSoldOut, Pay, rowVars
<1>6. CASE RefundPrice(h) \/ ReturnUnderpayment(h) \/ ReturnExcess(h)
  BY <1>6 DEF RefundPrice, ReturnUnderpayment, ReturnExcess, Send, Pay, rowVars
<1>7. CASE HandlerStops(h)
  BY <1>7 DEF HandlerStops, rowVars, history
<1> QED
  BY <1>2, <1>3, <1>4, <1>5, <1>6, <1>7 DEF Handle, HandlePayment

LEMMA FeesHandle ==
  ASSUME BaseInv, BaseInv', NEW c \in Customers, FeesInv(c), NEW h \in Workers,
         Handle(h) \/ HandlePayment(h) \/ HandlerStops(h)
  PROVE  FeesInv(c)'
<1>0. JobInv /\ JobsTyped /\ RowsTyped /\ RefundsTyped /\ Counted
  BY DEF BaseInv, JobInv
<1>1. CASE CreateRefunds(h)
  BY <1>1, FeesCreate
<1>2. CASE CoverFee(h)
  BY <1>2, FeesCover
<1>3. CASE ~CreateRefunds(h) /\ ~CoverFee(h)
  <2>1. refunds' = refunds /\ fees' = fees
    BY <1>3, FeesKept
  <2>2. disturbances <= disturbances'
    BY HandlerDisturbs
  <2>3. OthersSame(h)
    BY <1>0, TurnSteps DEF Turn, Counted
  <2>4. ASSUME h \in Coverers(c)' => h \in Coverers(c),
               h \in Coverers(c)' =>
                 /\ job'[h].step \in {"create_refunds", "cover"} =>
                      Len(refunds[c]) <= 1 /\ job'[h].times = Counter(c)
        PROVE  FeesInv(c)'
    <3>1. ASSUME NEW g \in Coverers(c)'
          PROVE  /\ g \in Coverers(c)
                 /\ g # h => job'[g] = job[g]
      BY <2>3, <2>4, <3>1 DEF Coverers, OthersSame
    <3> QED
      BY <2>1, <2>2, <2>4, <3>1, FeesStay
  <2>5. CASE job'[h].step \notin CoverSteps
    BY <2>4, <2>5 DEF Coverers
  <2>6. CASE GoOn(h)
    <3>1. PICK i \in RowsOf(job[h].customer, ActiveStates) :
            Reads(h, StepOf(session[i].state), i)
      BY <1>0, <2>6, GoOnDoes
    <3>2. /\ job'[h].step = StepOf(session[i].state) /\ job'[h].customer = job[h].customer
          /\ session[i].state \in ActiveStates
      BY <3>1 DEF Reads, Becomes, RowsOf
    <3>3. job'[h].step \notin {"create_refunds", "cover"} /\ job[h].step = "route"
      BY <2>6, <3>2 DEF StepOf, ActiveStates, GoOn, At
    <3> QED
      BY <2>4, <3>2, <3>3 DEF Coverers, CoverSteps
  <2>7. CASE CancelSize(h)
    <3>1. /\ job'[h].step = "get_refunds" /\ job[h].step = "size"
          /\ job'[h].customer = job[h].customer
      BY <1>0, <2>7, CancelSizeDoes DEF Moves, Sets, Becomes, At
    <3> QED
      BY <2>4, <3>1 DEF Coverers, CoverSteps
  <2>8. CASE GetRefunds(h)
    <3> DEFINE d == job[h].customer
    <3>1. job[h].step = "get_refunds" /\ d \in Customers /\ job[h].times = 0
      BY <1>0, <2>8, BusyKnows DEF GetRefunds, At, JobInv, HandlerOK, JobOK
    <3>2. \/ Len(refunds[d]) = 0 /\ Moves(h, "create_refunds")
          \/ Len(refunds[d]) = 1 /\ Counts(h, "cover", 1, refunds[d][1])
          \/ Finishes(h)
      BY <1>0, <2>8, <3>1, GetRefundsDoes
    <3>3. CASE Len(refunds[d]) = 0 /\ Moves(h, "create_refunds")
      <4>1. job'[h].times = Counter(d) /\ job'[h].customer = d
        BY <3>1, <3>3 DEF Moves, Sets, Becomes, Counter
      <4> QED
        BY <2>4, <3>1, <3>3, <4>1 DEF Coverers, CoverSteps
    <3>4. CASE Len(refunds[d]) = 1 /\ Counts(h, "cover", 1, refunds[d][1])
      <4>1. job'[h].times = Counter(d) /\ job'[h].customer = d /\ Len(refunds[d]) <= 1
        BY <3>1, <3>4 DEF Counts, Becomes, Counter
      <4> QED
        BY <2>4, <3>1, <4>1 DEF Coverers, CoverSteps
    <3>5. CASE Finishes(h)
      BY <2>5, <3>5 DEF Finishes, Becomes, CoverSteps
    <3> QED
      BY <3>2, <3>3, <3>4, <3>5
  <2> QED
    BY <1>3, <2>5, <2>6, <2>7, <2>8, ToCover DEF BaseInv
<1> QED
  BY <1>1, <1>2, <1>3

LEMMA FeesOutside ==
  ASSUME BaseInv, BaseInv', NEW c \in Customers, FeesInv(c),
         Crash \/ UNCHANGED <<rowVars, job, boundVars, history>>
  PROVE  FeesInv(c)'
<1>0. JobsTyped /\ RefundsTyped /\ Counted
  BY DEF BaseInv, JobInv
<1>1. CASE Crash
  <2>1. Coverers(c)' = {} /\ refunds' = refunds /\ fees' = fees /\ Disturb
    BY <1>0, <1>1, CrashDoes DEF Coverers, CoverSteps, rowVars, history
  <2>2. disturbances <= disturbances'
    BY <1>0, <2>1, DisturbCounts DEF Counted
  <2> QED
    BY <2>1, <2>2, FeesStay
<1>2. CASE UNCHANGED <<rowVars, job, boundVars, history>>
  <2>1. refunds' = refunds /\ fees' = fees /\ disturbances' = disturbances
    BY <1>2 DEF rowVars, boundVars, history
  <2>2. Coverers(c)' = Coverers(c) /\ \A g \in Workers : job'[g] = job[g]
    BY <1>2 DEF Coverers
  <2>3. disturbances <= disturbances'
    BY <1>0, <2>1 DEF Counted
  <2> QED
    BY <2>1, <2>2, <2>3, FeesStay DEF Coverers
<1> QED
  BY <1>1, <1>2

LEMMA FeesStep ==
  ASSUME BaseInv, \A c \in Customers : FeesInv(c), [Next]_vars
  PROVE  \A c \in Customers : FeesInv(c)'
<1> TAKE c \in Customers
<1>1. BaseInv'
  BY BaseStep
<1>2. ASSUME EditStock \/ EndDrop \/ UNCHANGED vars
      PROVE  UNCHANGED <<rowVars, job, boundVars, history>>
  BY <1>2, OutsideSteps DEF vars
<1> QED
  BY <1>1, <1>2, FeesReceive, FeesHandle, FeesOutside, Steps

LEMMA FeesInit ==
  ASSUME Init
  PROVE  \A c \in Customers : FeesInv(c)
<1> TAKE c \in Customers
<1>1. Coverers(c) = {}
  BY DEF Init, NoJob, Coverers, CoverSteps
<1>2. fees[c] = 0 /\ disturbances = 0 /\ MaxFees \in Nat /\ Len(refunds[c]) = 0
  BY Money DEF Init
<1> QED
  BY <1>1, <1>2, FS_EmptySet DEF FeesInv, Counter

(* Of the fees of a customer's cancellations the store covers no more than *)
(* max_refund_transaction_fees_covered and one for every disturbance,      *)
(* though the counter is read, compared and written back without a lock.   *)
THEOREM FeesBoundedHolds == Spec => []FeesBounded
<1>1. /\ BaseInv /\ (\A c \in Customers : FeesInv(c)) /\ [Next]_vars
      => (\A c \in Customers : FeesInv(c))'
  BY FeesStep
<1>2. (\A c \in Customers : FeesInv(c)) => FeesBounded
  BY DEF FeesInv, FeesBounded
<1> QED
  BY <1>1, <1>2, FeesInit, BaseInvariant, PTL DEF Spec

-----------------------------------------------------------------------------
(* What a customer may still get back. *)

(* The sessions paid for, and the handlers that may refund one.            *)
Sold(c) == RowsOf(c, {WAITING_FOR_SIZE})

RefundSteps == CoverSteps \cup {"refund"}

Refunders(c) == {h \in Workers : job[h].customer = c /\ job[h].step \in RefundSteps}

(* Handlers that can only refund a session that is counted already.        *)
Excusing(j, sold) ==
  \/ j.step = "route"
  \/ /\ j.step \in RefundSteps \/ (j.step = "save" /\ j.state = REFUNDED)
     /\ j.row \in sold

Excusers(c) == {h \in Workers : job[h].customer = c /\ Excusing(job[h], Sold(c))}

(* The refunds to come: one for each session and each handler, but the     *)
(* first handler and its session are one.                                  *)
Held(c) ==
  Cardinality(Sold(c)) + Cardinality(Refunders(c)) - (IF Excusers(c) = {} THEN 0 ELSE 1)

(* What a handler has to give back, or to turn into a session.             *)
Owed(j) ==
  CASE j.step \in {"excess", "unsolicited"} -> j.amount
    [] j.step = "not_enough" -> j.amount + (Price + Fee)
    [] \/ j.step \in {"stock", "ask_size", "sold_out"}
       \/ j.step = "save" /\ j.state = WAITING_FOR_SIZE -> Price + Fee
    [] OTHER -> 0

Owes(c) == [h \in Workers |-> IF job[h].customer = c THEN Owed(job[h]) ELSE 0]

Worth(n) == (Price + Fee) * n
Costs(n) == Cost * n

(* What was returned and may still be is no more than what was paid, the   *)
(* worth of the payments that were too little, and the costs of the        *)
(* disturbances.                                                           *)
ReturnsInv(c) ==
  returned[c] + Worth(Held(c)) + Total(Owes(c))
    <= paid[c] + Worth(underpaid[c]) + Costs(disturbances)

LEMMA WorthOf ==
  ASSUME NEW m \in Int, NEW n \in Int
  PROVE  /\ Worth(m) \in Int /\ Worth(n) \in Int
         /\ m \in Nat => Worth(m) \in Nat
         /\ m <= n => Worth(m) <= Worth(n)
         /\ m <= n + 1 => Worth(m) <= Worth(n) + (Price + Fee)
         /\ m + 1 <= n => Worth(m) + (Price + Fee) <= Worth(n)
         /\ m = n + 1 => Worth(m) = Worth(n) + (Price + Fee)
         /\ Worth(m + n) = Worth(m) + Worth(n)
<1> DEFINE K == Price + Fee
<1>1. K \in Nat
  BY Money
<1> HIDE DEF K
<1>2. \A a, b \in Int : a <= b => K * a <= K * b
  <2> TAKE a, b \in Int
  <2> HAVE a <= b
  <2>1. PICK e \in Nat : b = a + e
    <3>1. b - a \in Nat /\ b = a + (b - a)
      OBVIOUS
    <3> QED
      BY <3>1
  <2>2. K * (a + e) = K * a + K * e /\ K * e \in Nat /\ K * a \in Int
    BY <1>1
  <2> QED
    BY <2>1, <2>2
<1>3. \A a \in Int : K * a \in Int /\ (a \in Nat => K * a \in Nat) /\ K * (a + 1) = K * a + K
  BY <1>1
<1>4. m + 1 \in Int /\ n + 1 \in Int
  OBVIOUS
<1>5. m <= n => K * m <= K * n
  BY <1>2
<1>6. m <= n + 1 => K * m <= K * n + K
  BY <1>2, <1>3, <1>4
<1>7. m + 1 <= n => K * m + K <= K * n
  BY <1>2, <1>3, <1>4
<1>8. K * (m + n) = K * m + K * n
  BY <1>1
<1> QED
  BY <1>3, <1>5, <1>6, <1>7, <1>8 DEF Worth, K

LEMMA UnitPrices ==
  /\ Worth(0) = 0 /\ Worth(1) = Price + Fee /\ Worth(-1) = -(Price + Fee)
  /\ Costs(0) = 0 /\ Costs(1) = Cost /\ Price + Fee <= Costs(1)
  /\ Price + Fee \in Nat /\ Costs(1) \in Nat
<1>1. Price + Fee \in Nat /\ Cost \in Nat /\ Price + Fee <= Cost
  BY Money
<1>2. \A k \in Int : k * 0 = 0 /\ k * 1 = k /\ k * (-1) = -k
  OBVIOUS
<1>3. /\ Worth(0) = 0 /\ Worth(1) = Price + Fee
      /\ Worth(-1) = -(Price + Fee)
  BY <1>1, <1>2 DEF Worth
<1>4. Costs(0) = 0 /\ Costs(1) = Cost
  BY <1>1, <1>2 DEF Costs
<1> QED
  BY <1>1, <1>3, <1>4

LEMMA CostsOf ==
  ASSUME NEW m \in Nat, NEW n \in Nat
  PROVE  /\ Costs(m) \in Nat /\ Costs(m + n) = Costs(m) + Costs(n)
         /\ \A a \in Nat : a <= Cost => m * a <= Costs(m)
<1>1. Cost \in Nat /\ Price + Fee <= Cost
  BY Money
<1> DEFINE k == Cost
<1>2. k \in Nat /\ Price + Fee <= k
  BY <1>1
<1> HIDE DEF k
<1>3. k * m \in Nat /\ k * (m + n) = k * m + k * n
  BY <1>2
<1>4. ASSUME NEW a \in Nat, a <= k
      PROVE  m * a <= k * m
  <2>1. PICK e \in Nat : k = a + e
    <3>1. k - a \in Nat /\ k = a + (k - a)
      BY <1>2, <1>4
    <3> QED
      BY <3>1
  <2>2. (a + e) * m = m * a + e * m /\ e * m \in Nat /\ m * a \in Nat
    OBVIOUS
  <2> QED
    BY <2>1, <2>2
<1> QED
  BY <1>2, <1>3, <1>4 DEF Costs, k

LEMMA HeldType ==
  ASSUME RowsTyped, NEW c
  PROVE  /\ IsFiniteSet(Sold(c)) /\ Cardinality(Sold(c)) \in Nat
         /\ IsFiniteSet(Refunders(c)) /\ Cardinality(Refunders(c)) \in Nat
         /\ Held(c) \in Nat
<1>1. IsFiniteSet(Sold(c))
  <2>1. Rows = 1 .. Len(session) /\ Len(session) \in Nat
    BY DEF RowsTyped, Rows
  <2>2. IsFiniteSet(Rows)
    BY <2>1, FS_Interval
  <2>3. Sold(c) \subseteq Rows
    BY DEF Sold, RowsOf
  <2> QED
    BY <2>2, <2>3, FS_Subset
<1>2. IsFiniteSet(Refunders(c))
  <2>1. Refunders(c) \subseteq Workers
    BY DEF Refunders
  <2> QED
    BY <2>1, PoolFinite, FS_Subset
<1>3. Cardinality(Sold(c)) \in Nat /\ Cardinality(Refunders(c)) \in Nat
  BY <1>1, <1>2, FS_CardinalityType
<1>4. ASSUME Excusers(c) # {}
      PROVE  Cardinality(Sold(c)) # 0 \/ Cardinality(Refunders(c)) # 0
  <2>1. PICK h \in Workers : job[h].customer = c /\ Excusing(job[h], Sold(c))
    BY <1>4 DEF Excusers
  <2>2. h \in Refunders(c) \/ job[h].row \in Sold(c)
    BY <2>1 DEF Excusing, Refunders, RefundSteps, CoverSteps
  <2> QED
    BY <1>1, <1>2, <2>2, FS_EmptySet
<1> QED
  BY <1>1, <1>2, <1>3, <1>4 DEF Held

(* How a step of h changes what is held.  Sold, the refunders and the      *)
(* excusers before and after it:                                           *)
LEMMA HeldMove ==
  ASSUME RowsTyped, RowsTyped', NEW c,
         Sold(c)' = Sold(c), Refunders(c)' \subseteq Refunders(c),
         \/ Excusers(c) \subseteq Excusers(c)'
         \/ \E h : h \in Refunders(c) /\ h \notin Refunders(c)'
  PROVE  Held(c)' \in Int /\ Held(c)' <= Held(c)
<1> DEFINE s == Cardinality(Sold(c))
           r == Cardinality(Refunders(c))
           r2 == Cardinality(Refunders(c)')
<1>1. s \in Nat /\ r \in Nat /\ r2 \in Nat /\ r2 <= r /\ Cardinality(Sold(c))' = s
  BY HeldType, NoMore
<1>2. CASE Excusers(c) \subseteq Excusers(c)'
  <2>1. Excusers(c) # {} => Excusers(c)' # {}
    BY <1>2
  <2> QED
    BY <1>1, <2>1 DEF Held
<1>3. ASSUME NEW h, h \in Refunders(c), h \notin Refunders(c)'
      PROVE  Held(c)' \in Int /\ Held(c)' <= Held(c)
  <2>1. r2 + 1 <= r
    BY <1>3, HeldType, OneLess
  <2> QED
    BY <1>1, <2>1 DEF Held
<1> QED
  BY <1>2, <1>3

LEMMA HeldRefund ==
  ASSUME RowsTyped, RowsTyped', NEW c, NEW h,
         Sold(c)' = Sold(c), Refunders(c)' \subseteq Refunders(c),
         h \in Refunders(c), h \notin Refunders(c)',
         Excusers(c) \subseteq Excusers(c)'
  PROVE  Held(c)' \in Int /\ Held(c)' + 1 <= Held(c)
<1> DEFINE s == Cardinality(Sold(c))
           r == Cardinality(Refunders(c))
           r2 == Cardinality(Refunders(c)')
<1>1. s \in Nat /\ r \in Nat /\ r2 \in Nat /\ r2 + 1 <= r /\ Cardinality(Sold(c))' = s
  BY HeldType, OneLess
<1>2. Excusers(c) # {} => Excusers(c)' # {}
  OBVIOUS
<1> QED
  BY <1>1, <1>2 DEF Held

LEMMA HeldLose ==
  ASSUME RowsTyped, RowsTyped', NEW c,
         Sold(c)' = Sold(c), Refunders(c)' \subseteq Refunders(c)
  PROVE  Held(c)' \in Int /\ Held(c)' <= Held(c) + 1
<1> DEFINE s == Cardinality(Sold(c))
           r == Cardinality(Refunders(c))
           r2 == Cardinality(Refunders(c)')
<1>1. s \in Nat /\ r \in Nat /\ r2 \in Nat /\ r2 <= r /\ Cardinality(Sold(c))' = s
  BY HeldType, NoMore
<1> QED
  BY <1>1 DEF Held

LEMMA HeldUnsold ==
  ASSUME RowsTyped, RowsTyped', NEW c, NEW i,
         Sold(c)' = Sold(c) \ {i}, Refunders(c)' \subseteq Refunders(c),
         i \notin Sold(c) => Excusers(c) \subseteq Excusers(c)'
  PROVE  Held(c)' \in Int /\ Held(c)' <= Held(c)
<1> DEFINE s == Cardinality(Sold(c))
           s2 == Cardinality(Sold(c)')
           r == Cardinality(Refunders(c))
           r2 == Cardinality(Refunders(c)')
<1>1. s \in Nat /\ s2 \in Nat /\ r \in Nat /\ r2 \in Nat /\ r2 <= r
  BY HeldType, NoMore
<1>2. CASE i \notin Sold(c)
  BY <1>2, HeldMove
<1>3. CASE i \in Sold(c)
  <2>1. s2 + 1 <= s
    BY <1>3, HeldType, OneLess
  <2> QED
    BY <1>1, <2>1 DEF Held
<1> QED
  BY <1>2, <1>3

LEMMA HeldSell ==
  ASSUME RowsTyped, RowsTyped', NEW c, NEW i,
         Sold(c)' = Sold(c) \cup {i}, Refunders(c)' \subseteq Refunders(c),
         Excusers(c) \subseteq Excusers(c)'
  PROVE  Held(c)' \in Int /\ Held(c)' <= Held(c) + 1
<1> DEFINE s == Cardinality(Sold(c))
           s2 == Cardinality(Sold(c)')
           r == Cardinality(Refunders(c))
           r2 == Cardinality(Refunders(c)')
<1>1. s \in Nat /\ r \in Nat /\ r2 \in Nat /\ r2 <= r
  BY HeldType, NoMore
<1>2. s2 \in Nat /\ s2 <= s + 1
  BY HeldType, OneMore
<1>3. Excusers(c) # {} => Excusers(c)' # {}
  OBVIOUS
<1> QED
  BY <1>1, <1>2, <1>3 DEF Held

LEMMA HeldJoin ==
  ASSUME RowsTyped, RowsTyped', NEW c, NEW h,
         Sold(c)' = Sold(c), Refunders(c)' \subseteq Refunders(c) \cup {h},
         Excusers(c) \subseteq Excusers(c)'
  PROVE  /\ Held(c)' \in Int
         /\ Held(c)' <= Held(c) + 1
         /\ Excusers(c) = {} /\ Excusers(c)' # {} => Held(c)' <= Held(c)
<1> DEFINE s == Cardinality(Sold(c))
           r == Cardinality(Refunders(c))
           r2 == Cardinality(Refunders(c)')
<1>1. s \in Nat /\ r \in Nat /\ r2 \in Nat /\ r2 <= r + 1 /\ Cardinality(Sold(c))' = s
  BY HeldType, OneMore
<1>2. Excusers(c) # {} => Excusers(c)' # {}
  OBVIOUS
<1> QED
  BY <1>1, <1>2 DEF Held

LEMMA OwesType ==
  ASSUME JobsTyped, NEW c
  PROVE  Owes(c) \in [Workers -> Nat] /\ Total(Owes(c)) \in Nat
<1>1. ASSUME NEW h \in Workers
      PROVE  Owed(job[h]) \in Nat
  BY AmountIsNumber, Money DEF Owed
<1>2. Owes(c) \in [Workers -> Nat]
  BY <1>1 DEF Owes
<1> QED
  BY <1>2, PoolFinite, TotalFinite, TotalType

-----------------------------------------------------------------------------
(* What a step of a handler leaves alone. *)

LEMMA RowsChange ==
  ASSUME BaseInv, NEW h \in Workers, Handle(h) \/ HandlePayment(h) \/ HandlerStops(h)
  PROVE  \/ session' = session
         \/ job[h].row \in Rows /\ \E state \in SessionStates : Saves(h, state)
         \/ Opens(h)
<1>0. JobInv /\ JobsTyped /\ RowsTyped /\ RefundsTyped
  BY DEF BaseInv, JobInv
<1>1. CASE RequestPayment(h) \/ HandleCancel(h) \/ Save(h)
  <2>1. job[h].row \in Rows
    BY <1>0, <1>1, BusyKnows
    DEF RequestPayment, HandleCancel, Save, At, RowSteps, CatalogSteps
  <2>2. job[h].state \in SessionStates
    BY <1>0 DEF JobsTyped, AnyJob
  <2> QED
    BY <1>0, <1>1, <2>1, <2>2, States, RequestPaymentDoes, HandleCancelDoes, SaveDoes
<1>2. CASE CreateSession(h)
  <2>1. job[h].customer \in Customers
    BY <1>0, <1>2, BusyKnows DEF CreateSession, At
  <2> QED
    BY <1>0, <1>2, <2>1, CreateSessionDoes
<1>3. CASE CreateRefunds(h) \/ CoverFee(h)
  BY <1>3 DEF CreateRefunds, CoverFee
<1>4. CASE GoOn(h) \/ StartNew(h) \/ GetSession(h) \/ ExplainPayments(h) \/ ShowCatalog(h)
           \/ ListOptions(h) \/ Chat(h) \/ AnswerSize(h) \/ CancelSize(h) \/ GetRefunds(h)
           \/ KeepFee(h) \/ IgnoreFailed(h) \/ CheckStock(h) \/ AskSize(h)
  <2>1. OnlyJob
    BY <1>4 DEF GoOn, StartNew, GetSession, ExplainPayments, ShowCatalog, ListOptions,
       Chat, AnswerSize, CancelSize, GetRefunds, KeepFee, IgnoreFailed, CheckStock,
       AskSize
  <2> QED
    BY <2>1 DEF OnlyJob, rowVars
<1>5. CASE \/ FindUnsolicited(h) \/ FindWaiting(h) \/ RefundUnsolicited(h) \/ RefundSoldOut(h)
           \/ RefundPrice(h) \/ ReturnUnderpayment(h) \/ ReturnExcess(h) \/ HandlerStops(h)
  BY <1>5 DEF FindUnsolicited, FindWaiting, RefundUnsolicited, RefundSoldOut, RefundPrice,
     ReturnUnderpayment, ReturnExcess, Send, Pay, HandlerStops, rowVars
<1> QED
  BY <1>1, <1>2, <1>3, <1>4, <1>5 DEF Handle, HandlePayment

(* A handler goes on for its customer, at its row or one it reads or       *)
(* opens, or it is done.                                                   *)
Stays(h) ==
  /\ job'[h].customer = job[h].customer
  /\ \/ job'[h].row = job[h].row
     \/ job'[h].row \in RowsOf(job[h].customer, ActiveStates)
     \/ CreateSession(h)

LEMMA StaysOrFinishes ==
  ASSUME BaseInv, NEW h \in Workers, Handle(h) \/ HandlePayment(h) \/ HandlerStops(h)
  PROVE  Stays(h) \/ Finishes(h)
<1>0. JobInv /\ JobsTyped /\ RowsTyped /\ RefundsTyped /\ returned \in [Customers -> Nat]
  BY DEF BaseInv, JobInv, Counted
<1>1. ASSUME NEW s, NEW state, NEW b, Sets(h, s, state, b)
      PROVE  Stays(h)
  BY <1>1 DEF Sets, Becomes, Stays
<1>2. \A s : Moves(h, s) => Stays(h)
  BY DEF Moves, Sets, Becomes, Stays
<1>3. ASSUME NEW s, NEW i, Reads(h, s, i),
             i \in RowsOf(job[h].customer, ActiveStates \cup {READY, WAITING_FOR_PAYMENT})
      PROVE  Stays(h)
  BY <1>3 DEF Reads, Becomes, Stays, RowsOf, ActiveStates
<1>4. CASE GoOn(h) \/ StartNew(h) \/ GetSession(h)
  BY <1>0, <1>2, <1>3, <1>4, GoOnDoes, StartNewDoes, GetSessionDoes DEF RowsOf
<1>5. CASE CreateSession(h)
  <2>1. job[h].customer \in Customers
    BY <1>0, <1>5, BusyKnows DEF CreateSession, At
  <2> QED
    BY <1>0, <1>5, <2>1, CreateSessionDoes DEF Becomes, Stays
<1>6. CASE ExplainPayments(h) \/ ShowCatalog(h) \/ ListOptions(h) \/ Chat(h)
  BY <1>0, <1>1, <1>2, <1>6, ExplainPaymentsDoes, ShowCatalogDoes, ListOptionsDoes,
     ChatDoes
<1>7. CASE RequestPayment(h) \/ HandleCancel(h) \/ Save(h)
  <2>1. job[h].row \in Rows
    BY <1>0, <1>7, BusyKnows
    DEF RequestPayment, HandleCancel, Save, At, RowSteps, CatalogSteps
  <2> QED
    BY <1>0, <1>1, <1>7, <2>1, RequestPaymentDoes, HandleCancelDoes, SaveDoes
<1>8. CASE AnswerSize(h) \/ CancelSize(h) \/ KeepFee(h)
  BY <1>0, <1>2, <1>8, AnswerSizeDoes, CancelSizeDoes, KeepFeeDoes
<1>9. CASE GetRefunds(h) \/ CreateRefunds(h)
  <2>1. job[h].customer \in Customers
    BY <1>0, <1>9, BusyKnows DEF GetRefunds, CreateRefunds, At
  <2> QED
    BY <1>0, <1>2, <1>9, <2>1, GetRefundsDoes, CreateRefundsDoes
    DEF Counts, Becomes, Stays
<1>10. CASE CoverFee(h)
  <2>1. /\ job[h].customer \in Customers
        /\ job[h].entry \in DOMAIN refunds[job[h].customer]
    BY <1>0, <1>10, BusyKnows DEF CoverFee, At, JobInv, HandlerOK, JobOK, EntryOK
  <2> QED
    BY <1>0, <1>10, <2>1, CoverFeeDoes DEF Becomes, Stays
<1>11. CASE RefundPrice(h)
  BY <1>0, <1>1, <1>11, RefundPriceDoes DEF Sent
<1>12. CASE IgnoreFailed(h) \/ FindUnsolicited(h) \/ RefundUnsolicited(h)
  BY <1>0, <1>2, <1>12, IgnoreFailedDoes, FindUnsolicitedDoes, RefundUnsolicitedDoes
<1>13. CASE FindWaiting(h)
  BY <1>0, <1>3, <1>13, FindWaitingDoes DEF RowsOf
<1>14. CASE ReturnUnderpayment(h) \/ ReturnExcess(h) \/ CheckStock(h)
  BY <1>0, <1>2, <1>14, ReturnUnderpaymentDoes, ReturnExcessDoes, CheckStockDoes
  DEF Sent
<1>15. CASE RefundSoldOut(h)
  <2>1. job[h].customer \in Customers
    BY <1>0, <1>15, BusyKnows DEF RefundSoldOut, At
  <2> QED
    BY <1>0, <1>1, <1>15, <2>1, RefundSoldOutDoes DEF Sent
<1>16. CASE AskSize(h) \/ HandlerStops(h)
  BY <1>0, <1>1, <1>16, AskSizeDoes, HandlerStopsDoes
<1> QED
  BY <1>4, <1>5, <1>6, <1>7, <1>8, <1>9, <1>10, <1>11, <1>12, <1>13, <1>14, <1>15, <1>16
  DEF Handle, HandlePayment

(* The money of other customers, and the disturbances.                     *)
LEMMA OthersMoney ==
  ASSUME BaseInv, NEW h \in Workers, Handle(h) \/ HandlePayment(h) \/ HandlerStops(h),
         NEW c \in Customers, c # job[h].customer
  PROVE  /\ returned'[c] = returned[c] /\ paid'[c] = paid[c]
         /\ underpaid'[c] = underpaid[c]
<1>0. JobInv /\ Counted /\ JobsTyped /\ RowsTyped /\ RefundsTyped
  BY DEF BaseInv, JobInv
<1>1. CASE Quiet \/ CoverFee(h) \/ HandlerStops(h)
  BY <1>1 DEF Quiet, CoverFee, HandlerStops, history
<1>2. ASSUME NEW a \in Nat, ~At(h, "idle"), NEW ACTION going, Sent(h, a, going)
      PROVE  returned'[c] = returned[c]
  <2>1. job[h].customer \in Customers
    BY <1>0, <1>2, BusyKnows DEF At
  <2> QED
    BY <1>0, <1>2, <2>1, SentTyped
<1>3. CASE RefundPrice(h)
  BY <1>0, <1>2, <1>3, RefundPriceDoes, Money DEF At
<1>4. CASE ReturnExcess(h)
  BY <1>0, <1>2, <1>4, ReturnExcessDoes, AmountsTyped DEF At
<1>5. CASE ReturnUnderpayment(h)
  BY <1>0, <1>2, <1>5, ReturnUnderpaymentDoes, AmountsTyped DEF At
<1>6. CASE RefundSoldOut(h)
  BY <1>0, <1>2, <1>6, RefundSoldOutDoes, AmountsTyped DEF At
<1>7. CASE RefundUnsolicited(h)
  BY <1>0, <1>2, <1>7, RefundUnsolicitedDoes, AmountsTyped DEF At
<1>8. CASE FindUnsolicited(h) \/ FindWaiting(h)
  <2>1. CountPayment(h) => paid'[c] = paid[c]
    BY <1>0 DEF CountPayment, Counted
  <2> QED
    BY <1>0, <1>8, <2>1 DEF FindUnsolicited, FindWaiting, Counted
<1> QED
  BY <1>1, <1>3, <1>4, <1>5, <1>6, <1>7, <1>8, QuietSteps
  DEF Handle, HandlePayment

-----------------------------------------------------------------------------
(* The books, step by step. *)

LEMMA OwedType ==
  ASSUME NEW j \in AnyJob
  PROVE  Owed(j) \in Nat
<1>1. j.amount \in Amounts \/ j.amount = 0
  BY DEF AnyJob
<1>2. \A a \in Amounts : a \in Nat
  BY Money
<1> QED
  BY <1>1, <1>2, Money DEF Owed

LEMMA OwesChange ==
  ASSUME JobsTyped, JobsTyped', NEW c, NEW h \in Workers, OthersSame(h)
  PROVE  /\ Total(Owes(c)) \in Nat /\ Total(Owes(c))' \in Nat
         /\ Total(Owes(c))' + (IF job[h].customer = c THEN Owed(job[h]) ELSE 0)
              = Total(Owes(c)) + (IF job'[h].customer = c THEN Owed(job'[h]) ELSE 0)
<1> DEFINE f == [g \in Workers |-> IF job[g].customer = c THEN Owed(job[g]) ELSE 0]
           k == [g \in Workers |-> IF job'[g].customer = c THEN Owed(job'[g]) ELSE 0]
<1>1. ASSUME NEW g \in Workers
      PROVE  Owed(job[g]) \in Nat /\ Owed(job'[g]) \in Nat
  BY OwedType DEF JobsTyped
<1>2. f \in [Workers -> Nat] /\ k \in [Workers -> Nat]
  BY <1>1
<1>3. \A g \in Workers \ {h} : k[g] = f[g]
  BY DEF OthersSame
<1>4. Owes(c) = f /\ Owes(c)' = k
  BY DEF Owes
<1> HIDE DEF f, k
<1>5. Total(f) \in Nat /\ Total(k) \in Nat /\ Total(k) + f[h] = Total(f) + k[h]
  BY <1>2, <1>3, PoolFinite, TotalChange
<1>6. /\ f[h] = IF job[h].customer = c THEN Owed(job[h]) ELSE 0
      /\ k[h] = IF job'[h].customer = c THEN Owed(job'[h]) ELSE 0
  BY DEF f, k
<1>7. Total(Owes(c))' = Total(k) /\ Total(Owes(c)) = Total(f)
  BY <1>4
<1> QED
  BY <1>5, <1>6, <1>7

(* The numbers the books are about. *)
LEMMA BookNumbers ==
  ASSUME BaseInv, BaseInv', NEW c \in Customers
  PROVE  /\ returned[c] \in Nat /\ returned'[c] \in Nat
         /\ paid[c] \in Nat /\ paid'[c] \in Nat
         /\ disturbances \in Nat /\ disturbances' \in Nat
         /\ underpaid[c] \in Nat /\ underpaid'[c] \in Nat
         /\ Held(c) \in Nat /\ Price + Fee \in Nat
         /\ RowsTyped /\ RowsTyped' /\ JobsTyped /\ JobsTyped'
BY HeldType, Money, ItemDropBounds DEF BaseInv, JobInv, Counted

(* The books balance when what is returned or owed grows by no more than   *)
(* was paid, was held, or is the cost of a disturbance.                    *)
LEMMA ReturnsBooks ==
  ASSUME BaseInv, BaseInv', NEW c \in Customers, ReturnsInv(c),
         Total(Owes(c)) \in Nat, Total(Owes(c))' \in Nat, Held(c)' \in Int,
         NEW n \in Nat, disturbances' = disturbances + n,
         NEW u \in Nat, underpaid'[c] = underpaid[c] + u,
         NEW k \in Int, Held(c)' <= Held(c) + k,
         NEW g \in Int, g + Worth(k) <= Costs(n) + Worth(u),
         returned'[c] + Total(Owes(c))'
           <= returned[c] + Total(Owes(c)) + (paid'[c] - paid[c]) + g
  PROVE  ReturnsInv(c)'
<1> DEFINE W == Worth(Held(c))
           W2 == Worth(Held(c)')
           U == Worth(underpaid[c])
           U2 == Worth(underpaid'[c])
           D == Costs(disturbances)
           D2 == Costs(disturbances')
           T == Total(Owes(c))
           T2 == Total(Owes(c))'
           wk == Worth(k)
           wu == Worth(u)
           dn == Costs(n)
<1>1. SUFFICES returned'[c] + W2 + T2 <= paid'[c] + U2 + D2
  BY DEF ReturnsInv, Worth, Costs
<1>2. returned[c] + W + T <= paid[c] + U + D
  BY DEF ReturnsInv
<1>3. /\ returned[c] \in Nat /\ returned'[c] \in Nat /\ paid[c] \in Nat /\ paid'[c] \in Nat
      /\ Held(c) \in Int /\ underpaid[c] \in Int /\ u \in Int
      /\ disturbances \in Nat
  BY BookNumbers
<1>4. W2 <= W + wk /\ W \in Int /\ W2 \in Int /\ wk \in Int
  <2>1. Held(c) + k \in Int
    BY <1>3
  <2> DEFINE p == Held(c) + k
  <2>2. Worth(p) = W + wk /\ W \in Int /\ wk \in Int
    BY <1>3, WorthOf
  <2>3. p \in Int /\ Held(c)' \in Int /\ Held(c)' <= p
    BY <2>1
  <2>4. \A m, q \in Int : Worth(m) \in Int /\ (m <= q => Worth(m) <= Worth(q))
    BY WorthOf
  <2>5. W2 \in Int /\ W2 <= Worth(p)
    BY <2>3, <2>4
  <2> HIDE DEF W, W2, wk, p
  <2> QED
    BY <2>2, <2>5
<1>5. U2 = U + wu /\ U \in Int /\ wu \in Int
  <2>1. U \in Int /\ wu \in Int /\ Worth(underpaid[c] + u) = U + wu
    BY <1>3, WorthOf
  <2> QED
    BY <2>1
<1>6. D2 = D + dn /\ D \in Int /\ dn \in Int
  <2>1. D \in Nat /\ Costs(disturbances + n) = D + dn
    BY <1>3, CostsOf
  <2>2. dn \in Nat
    BY CostsOf
  <2> QED
    BY <2>1, <2>2
<1>7. g + wk <= dn + wu /\ returned'[c] + T2 <= returned[c] + T + (paid'[c] - paid[c]) + g
  OBVIOUS
<1>8. T \in Nat /\ T2 \in Nat
  OBVIOUS
<1> HIDE DEF W, W2, U, U2, D, D2, T, T2, wk, wu, dn
<1> QED
  BY <1>2, <1>3, <1>4, <1>5, <1>6, <1>7, <1>8

(* Nothing moves but the disturbances and what is held.                    *)
LEMMA ReturnsStay ==
  ASSUME BaseInv, BaseInv', NEW c \in Customers, ReturnsInv(c),
         returned'[c] = returned[c], paid'[c] = paid[c],
         underpaid'[c] = underpaid[c],
         Total(Owes(c)) \in Nat, Total(Owes(c))' \in Nat,
         Total(Owes(c))' <= Total(Owes(c)), Held(c)' \in Int,
         \/ disturbances' = disturbances /\ Held(c)' <= Held(c)
         \/ disturbances <= disturbances' /\ Held(c)' <= Held(c)
         \/ disturbances' = disturbances + 1 /\ Held(c)' <= Held(c) + 1
  PROVE  ReturnsInv(c)'
<1>1. /\ underpaid'[c] = underpaid[c] + 0
      /\ returned'[c] + Total(Owes(c))'
           <= returned[c] + Total(Owes(c)) + (paid'[c] - paid[c]) + 0
      /\ Held(c) \in Int /\ disturbances \in Nat /\ disturbances' \in Nat
  BY BookNumbers
<1>2. ASSUME disturbances <= disturbances', Held(c)' <= Held(c)
      PROVE  ReturnsInv(c)'
  <2> DEFINE n == disturbances' - disturbances
  <2>1. n \in Nat /\ disturbances' = disturbances + n /\ Held(c)' <= Held(c) + 0
    BY <1>1, <1>2
  <2> HIDE DEF n
  <2>2. 0 + Worth(0) <= Costs(n) + Worth(0)
    <3>1. Costs(n) \in Nat
      BY <2>1, CostsOf
    <3> QED
      BY <3>1, UnitPrices
  <2> QED
    BY <1>1, <2>1, <2>2, ReturnsBooks
<1>3. CASE disturbances' = disturbances + 1 /\ Held(c)' <= Held(c) + 1
  <2>1. 0 + Worth(1) <= Costs(1) + Worth(0)
    BY UnitPrices
  <2> QED
    BY <1>1, <1>3, <2>1, ReturnsBooks
<1>4. disturbances' = disturbances => disturbances <= disturbances'
  BY <1>1
<1> QED
  BY <1>2, <1>3, <1>4

(* A customer the handler does not work for.                               *)
LEMMA RowsElsewhere ==
  ASSUME BaseInv, NEW h \in Workers, NEW c \in Customers, c # job[h].customer,
         NEW states,
         \/ session' = session
         \/ job[h].row \in Rows /\ \E state \in SessionStates : Saves(h, state)
         \/ Opens(h)
  PROVE  RowsOf(c, states)' = RowsOf(c, states)
<1>1. CASE session' = session
  BY <1>1 DEF RowsOf, Rows
<1>2. ASSUME NEW state \in SessionStates, Saves(h, state), job[h].row \in Rows
      PROVE  RowsOf(c, states)' = RowsOf(c, states)
  <2>1. session[job[h].row].customer = job[h].customer
    <3>1. job[h].row # NoKey
      BY <1>2, RowFields DEF BaseInv, JobInv
    <3> QED
      BY <3>1 DEF BaseInv, JobInv, HandlerOK, RowOK
  <2>2. \A i \in Rows : i \in RowsOf(c, states)' <=> i \in RowsOf(c, states)
    BY <1>2, <2>1 DEF Saves, RowsOf
  <2> QED
    BY <1>2, <2>2 DEF Saves, RowsOf
<1>3. CASE Opens(h)
  BY <1>3 DEF Opens, RowsOf
<1> QED
  BY <1>1, <1>2, <1>3

LEMMA ReturnsElsewhere ==
  ASSUME BaseInv, BaseInv', NEW h \in Workers,
         Handle(h) \/ HandlePayment(h) \/ HandlerStops(h),
         NEW c \in Customers, c # job[h].customer, ReturnsInv(c)
  PROVE  ReturnsInv(c)'
<1>1. OthersSame(h)
  BY TurnSteps DEF Turn, BaseInv, Counted
<1>2. job'[h].customer # c
  BY StaysOrFinishes, NoCustomerFresh DEF Stays, Finishes, Becomes
<1>3. Sold(c)' = Sold(c)
  BY RowsChange, RowsElsewhere DEF Sold
<1>4. Refunders(c)' = Refunders(c)
  BY <1>1, <1>2 DEF Refunders, OthersSame
<1>5. Excusers(c)' = Excusers(c)
  BY <1>1, <1>2, <1>3 DEF Excusers, OthersSame
<1>6. Total(Owes(c)) \in Nat /\ Total(Owes(c))' \in Nat /\ Total(Owes(c))' <= Total(Owes(c))
  BY <1>1, <1>2, OwesChange, BookNumbers
<1>7. Held(c)' \in Int /\ Held(c)' <= Held(c)
  BY <1>3, <1>4, <1>5, HeldMove, BookNumbers
<1> QED
  BY <1>6, <1>7, OthersMoney, HandlerDisturbs, ReturnsStay

(* A handler of c moves within what it counts for.                         *)
LEMMA HeldKept ==
  ASSUME RowsTyped, RowsTyped', NEW h \in Workers, NEW c, job[h].customer = c,
         OthersSame(h), Sold(c)' = Sold(c),
         job'[h].customer = c /\ job'[h].step \in RefundSteps => job[h].step \in RefundSteps,
         \/ job[h].step \in RefundSteps /\ job'[h].step \notin RefundSteps
         \/ ~Excusing(job[h], Sold(c))
         \/ job'[h].customer = c /\ Excusing(job'[h], Sold(c))
  PROVE  Held(c)' \in Int /\ Held(c)' <= Held(c)
<1>1. Refunders(c)' \subseteq Refunders(c)
  BY DEF Refunders, OthersSame
<1>2. CASE job[h].step \in RefundSteps /\ job'[h].step \notin RefundSteps
  <2>1. h \in Refunders(c) /\ h \notin Refunders(c)'
    BY <1>2 DEF Refunders
  <2> QED
    BY <1>1, <2>1, HeldMove
<1>3. CASE \/ ~Excusing(job[h], Sold(c))
           \/ job'[h].customer = c /\ Excusing(job'[h], Sold(c))
  <2>1. Excusers(c) \subseteq Excusers(c)'
    BY <1>3 DEF Excusers, OthersSame
  <2> QED
    BY <1>1, <2>1, HeldMove
<1> QED
  BY <1>2, <1>3

(* What all cases below begin with. *)
Move(h, c) ==
  /\ BaseInv /\ BaseInv' /\ ReturnsInv(c)
  /\ c \in Customers /\ job[h].customer = c /\ OthersSame(h)

LEMMA MoveOwes ==
  ASSUME NEW h \in Workers, NEW c, Move(h, c)
  PROVE  /\ Total(Owes(c)) \in Nat /\ Total(Owes(c))' \in Nat
         /\ Owed(job[h]) \in Nat /\ Owed(job'[h]) \in Nat
         /\ job'[h].customer = c =>
              Total(Owes(c))' + Owed(job[h]) = Total(Owes(c)) + Owed(job'[h])
         /\ job'[h].customer # c => Total(Owes(c))' + Owed(job[h]) = Total(Owes(c))
         /\ Owed(job'[h]) <= Owed(job[h]) => Total(Owes(c))' <= Total(Owes(c))
<1>1. /\ job[h].customer = c /\ OthersSame(h) /\ JobsTyped /\ JobsTyped'
  BY BookNumbers DEF Move
<1>2. Owed(job[h]) \in Nat /\ Owed(job'[h]) \in Nat
  BY <1>1, OwedType DEF JobsTyped
<1>3. /\ Total(Owes(c)) \in Nat /\ Total(Owes(c))' \in Nat
      /\ Total(Owes(c))' + Owed(job[h])
           = Total(Owes(c)) + (IF job'[h].customer = c THEN Owed(job'[h]) ELSE 0)
  BY <1>1, OwesChange
<1> QED
  BY <1>2, <1>3

SoldSame(c) == session' = session \/ Sold(c)' = Sold(c)

LEMMA SoldIfSame ==
  ASSUME NEW c, SoldSame(c)
  PROVE  Sold(c)' = Sold(c)
BY DEF SoldSame, Sold, RowsOf, Rows

(* A job about no paid session and no money.                               *)
Plain(j) ==
  /\ j.step \notin RefundSteps
       \cup {"excess", "unsolicited", "not_enough", "stock", "ask_size", "sold_out"}
  /\ j.step = "save" => j.state \notin {WAITING_FOR_SIZE, REFUNDED}

LEMMA ReturnsPlain ==
  ASSUME NEW h \in Workers, NEW c, Move(h, c), SoldSame(c),
         returned'[c] = returned[c], paid'[c] = paid[c],
         underpaid'[c] = underpaid[c], disturbances' = disturbances,
         job[h].step # "save", Plain(job'[h])
  PROVE  ReturnsInv(c)'
<1>1. Owed(job'[h]) = 0
  BY DEF Plain, Owed
<1>2. Held(c)' \in Int /\ Held(c)' <= Held(c)
  <2>1. job'[h].step \notin RefundSteps
    BY DEF Plain
  <2>2. job[h].step \notin RefundSteps => ~Excusing(job[h], Sold(c))
    BY DEF Excusing, RefundSteps, CoverSteps
  <2> QED
    BY <2>1, <2>2, HeldKept, SoldIfSame, BookNumbers DEF Move
<1>3. Total(Owes(c)) \in Nat /\ Total(Owes(c))' \in Nat /\ Total(Owes(c))' <= Total(Owes(c))
  BY <1>1, MoveOwes
<1> QED
  BY <1>2, <1>3, ReturnsStay DEF Move

(* On the way to a refund. *)
LEMMA ReturnsTrack ==
  ASSUME NEW h \in Workers, NEW c, Move(h, c), SoldSame(c),
         returned'[c] = returned[c], paid'[c] = paid[c],
         underpaid'[c] = underpaid[c], disturbances' = disturbances,
         job[h].step \in RefundSteps, job'[h].step \in RefundSteps, job'[h].customer = c,
         \/ job'[h].row \in Sold(c)
         \/ job[h].step # "route" /\ job'[h].row = job[h].row
  PROVE  ReturnsInv(c)'
<1>1. Owed(job'[h]) = 0 /\ Owed(job[h]) = 0
  BY DEF Owed, RefundSteps, CoverSteps
<1>2. Held(c)' \in Int /\ Held(c)' <= Held(c)
  <2>1. Excusing(job[h], Sold(c)) => Excusing(job'[h], Sold(c))
    BY DEF Excusing
  <2> QED
    BY <2>1, HeldKept, SoldIfSame, BookNumbers DEF Move
<1>3. Total(Owes(c)) \in Nat /\ Total(Owes(c))' \in Nat /\ Total(Owes(c))' <= Total(Owes(c))
  BY <1>1, MoveOwes
<1> QED
  BY <1>2, <1>3, ReturnsStay DEF Move

(* The price of the item is in the hands of the handler.                   *)
SellStep(j) ==
  \/ j.step \in {"stock", "ask_size", "sold_out"}
  \/ j.step = "save" /\ j.state = WAITING_FOR_SIZE

LEMMA SellStepOwes ==
  ASSUME NEW j, SellStep(j)
  PROVE  Owed(j) = Price + Fee /\ j.step \notin RefundSteps /\ \A s : ~Excusing(j, s)
<1>1. WAITING_FOR_SIZE # REFUNDED
  BY States
<1> QED
  BY <1>1 DEF SellStep, Owed, RefundSteps, CoverSteps, Excusing

LEMMA ReturnsSell ==
  ASSUME NEW h \in Workers, NEW c, Move(h, c), SoldSame(c),
         returned'[c] = returned[c], paid'[c] = paid[c],
         underpaid'[c] = underpaid[c], disturbances' = disturbances,
         SellStep(job[h]), SellStep(job'[h])
  PROVE  ReturnsInv(c)'
<1>1. Owed(job'[h]) = Price + Fee /\ Owed(job[h]) = Price + Fee /\ Price + Fee \in Nat
  BY SellStepOwes, Money
<1>2. Held(c)' \in Int /\ Held(c)' <= Held(c)
  BY SellStepOwes, HeldKept, SoldIfSame, BookNumbers DEF Move
<1>3. Total(Owes(c)) \in Nat /\ Total(Owes(c))' \in Nat /\ Total(Owes(c))' <= Total(Owes(c))
  BY <1>1, MoveOwes
<1> QED
  BY <1>2, <1>3, ReturnsStay DEF Move

-----------------------------------------------------------------------------
LEMMA IdleIsPlain ==
  ASSUME NEW h \in Workers, Finishes(h)
  PROVE  Plain(job'[h])
BY DEF Finishes, Becomes, Plain, RefundSteps, CoverSteps

LEMMA ReturnsCalm ==
  ASSUME NEW h \in Workers, NEW c, Move(h, c),
         \/ GoOn(h) \/ StartNew(h) \/ GetSession(h) \/ ExplainPayments(h) \/ ShowCatalog(h)
         \/ ListOptions(h) \/ Chat(h) \/ AnswerSize(h) \/ CancelSize(h) \/ GetRefunds(h)
         \/ KeepFee(h) \/ IgnoreFailed(h) \/ CheckStock(h) \/ AskSize(h)
  PROVE  ReturnsInv(c)'
<1>0. /\ JobInv /\ JobsTyped /\ RowsTyped /\ RefundsTyped /\ JobOK(job[h])
      /\ job[h].customer = c /\ c \in Customers
  BY DEF Move, BaseInv, JobInv, HandlerOK
<1>1. OnlyJob
  BY DEF GoOn, StartNew, GetSession, ExplainPayments, ShowCatalog, ListOptions,
     Chat, AnswerSize, CancelSize, GetRefunds, KeepFee, IgnoreFailed, CheckStock, AskSize
<1>2. /\ SoldSame(c) /\ session' = session /\ disturbances' = disturbances
      /\ returned'[c] = returned[c] /\ paid'[c] = paid[c]
      /\ underpaid'[c] = underpaid[c]
  BY <1>1 DEF OnlyJob, SoldSame, rowVars, boundVars, history
<1>3. job[h].step # "save" /\ Plain(job'[h]) => ReturnsInv(c)'
  BY <1>2, ReturnsPlain
<1>4. job[h].step # "save" /\ Finishes(h) => ReturnsInv(c)'
  BY <1>3, IdleIsPlain
<1>5. ASSUME NEW s \in {"new", "create", "catalog", "list", "request", "chat"},
             job[h].step # "save", job'[h].step = s
      PROVE  ReturnsInv(c)'
  BY <1>3, <1>5 DEF Plain, RefundSteps, CoverSteps
<1>6. CASE GoOn(h)
  <2>1. job[h].step = "route"
    BY <1>6 DEF GoOn, At
  <2>2. PICK i \in RowsOf(c, ActiveStates) : Reads(h, StepOf(session[i].state), i)
    BY <1>0, <1>6, GoOnDoes
  <2>3. /\ session[i].state \in ActiveStates
        /\ job'[h].step = StepOf(session[i].state)
        /\ job'[h].row = i /\ job'[h].customer = c
    BY <1>0, <2>2 DEF RowsOf, Reads, Becomes
  <2>4. CASE session[i].state = WAITING_FOR_SIZE
    <3>1. i \in Sold(c)
      BY <2>4 DEF Sold, RowsOf
    <3>2. job'[h].step = "size"
      BY <2>3, <2>4, States DEF StepOf, READY, WAITING_FOR_PAYMENT, WAITING_FOR_SIZE
    <3> QED
      BY <1>2, <2>1, <2>3, <3>1, <3>2, ReturnsTrack DEF RefundSteps, CoverSteps
  <2>5. CASE session[i].state # WAITING_FOR_SIZE
    <3>1. job'[h].step \in {"catalog", "chat"}
      BY <2>3, <2>5 DEF StepOf, ActiveStates
    <3> QED
      BY <1>5, <2>1, <3>1
  <2> QED
    BY <2>4, <2>5
<1>7. CASE StartNew(h)
  <2>1. job[h].step = "route" /\ (Moves(h, "new") \/ Finishes(h))
    BY <1>0, <1>7, StartNewDoes DEF StartNew, At
  <2> QED
    BY <1>4, <1>5, <2>1 DEF Moves, Sets, Becomes
<1>8. CASE GetSession(h)
  <2>1. job[h].step = "new" /\ (Finishes(h) \/ job'[h].step \in {"create", "catalog"})
    BY <1>0, <1>8, GetSessionDoes DEF GetSession, At, Moves, Sets, Reads, Becomes
  <2> QED
    BY <1>4, <1>5, <2>1
<1>9. CASE ExplainPayments(h)
  <2>1. job[h].step = "catalog"
    BY <1>9 DEF ExplainPayments, At
  <2>2. CASE job[h].again
    <3>1. job'[h].step = "save" /\ job'[h].state = job[h].state
      BY <1>0, <1>9, <2>2, ExplainPaymentsDoes DEF Sets, Becomes
    <3>2. job[h].state \in {WAITING_FOR_PAYMENT, CANCELLED}
      BY <1>0, <2>1, <2>2 DEF JobOK, CatalogSteps
    <3>3. Plain(job'[h])
      BY <3>1, <3>2, States DEF Plain, RefundSteps, CoverSteps
    <3> QED
      BY <1>3, <2>1, <3>3
  <2>3. CASE ~job[h].again
    BY <1>0, <1>4, <1>9, <2>1, <2>3, ExplainPaymentsDoes
  <2> QED
    BY <2>2, <2>3
<1>10. CASE ShowCatalog(h)
  <2>1. job[h].step = "catalog" /\ job'[h].step \in {"list", "request"}
    BY <1>0, <1>10, ShowCatalogDoes DEF ShowCatalog, At, Moves, Sets, Becomes
  <2> QED
    BY <1>5, <2>1
<1>11. CASE ListOptions(h)
  <2>1. job[h].step = "list" /\ (Finishes(h) \/ job'[h].step = "request")
    BY <1>0, <1>11, ListOptionsDoes DEF ListOptions, At, Moves, Sets, Becomes
  <2> QED
    BY <1>4, <1>5, <2>1
<1>12. CASE Chat(h)
  <2>1. job[h].step = "chat" /\ job'[h].step = "catalog"
    BY <1>0, <1>12, ChatDoes DEF Chat, At, Sets, Becomes
  <2> QED
    BY <1>5, <2>1
<1>13. CASE AnswerSize(h)
  BY <1>0, <1>4, <1>13, AnswerSizeDoes DEF At
<1>14. ASSUME job[h].step \in {"size", "get_refunds", "cover"},
              job'[h].step \in {"get_refunds", "create_refunds", "cover", "refund"},
              job'[h].customer = c, job'[h].row = job[h].row
       PROVE  ReturnsInv(c)'
  BY <1>2, <1>14, ReturnsTrack DEF RefundSteps, CoverSteps
<1>15. CASE CancelSize(h)
  <2>1. job[h].step = "size" /\ Moves(h, "get_refunds")
    BY <1>0, <1>15, CancelSizeDoes DEF At
  <2> QED
    BY <1>0, <1>14, <2>1 DEF Moves, Sets, Becomes
<1>16. CASE GetRefunds(h)
  <2>1. /\ job[h].step = "get_refunds"
        /\ \/ Moves(h, "create_refunds")
           \/ Counts(h, "cover", 1, refunds[c][1])
           \/ Finishes(h)
    BY <1>0, <1>16, GetRefundsDoes DEF At
  <2>2. CASE Moves(h, "create_refunds")
    BY <1>0, <1>14, <2>1, <2>2 DEF Moves, Sets, Becomes
  <2>3. CASE Counts(h, "cover", 1, refunds[c][1])
    BY <1>0, <1>14, <2>1, <2>3 DEF Counts, Becomes
  <2>4. CASE Finishes(h)
    BY <1>4, <2>1, <2>4
  <2> QED
    BY <2>1, <2>2, <2>3, <2>4
<1>17. CASE KeepFee(h)
  <2>1. job[h].step = "cover" /\ Moves(h, "refund")
    BY <1>0, <1>17, KeepFeeDoes DEF At
  <2> QED
    BY <1>0, <1>14, <2>1 DEF Moves, Sets, Becomes
<1>18. CASE IgnoreFailed(h)
  BY <1>0, <1>4, <1>18, IgnoreFailedDoes DEF At
<1>19. CASE CheckStock(h)
  <2>1. job[h].step = "stock" /\ job'[h].step \in {"ask_size", "sold_out"}
    BY <1>0, <1>19, CheckStockDoes DEF At, Moves, Sets, Becomes
  <2> QED
    BY <1>2, <2>1, ReturnsSell DEF SellStep
<1>20. CASE AskSize(h)
  <2>1. /\ job[h].step = "ask_size"
        /\ Sets(h, "save", WAITING_FOR_SIZE, job[h].again) \/ Finishes(h)
    BY <1>0, <1>20, AskSizeDoes DEF At
  <2>2. CASE Sets(h, "save", WAITING_FOR_SIZE, job[h].again)
    <3>1. SellStep(job[h]) /\ SellStep(job'[h])
      BY <2>1, <2>2 DEF Sets, Becomes, SellStep
    <3> QED
      BY <1>2, <3>1, ReturnsSell
  <2>3. CASE Finishes(h)
    BY <1>4, <2>1, <2>3
  <2> QED
    BY <2>1, <2>2, <2>3
<1> QED
  BY <1>6, <1>7, <1>8, <1>9, <1>10, <1>11, <1>12, <1>13, <1>15, <1>16, <1>17, <1>18,
     <1>19, <1>20

(* The steps about the counter of refunds, and a session that is opened.   *)
LEMMA ReturnsCount ==
  ASSUME NEW h \in Workers, NEW c, Move(h, c),
         CreateSession(h) \/ CreateRefunds(h) \/ CoverFee(h)
  PROVE  ReturnsInv(c)'
<1>0. /\ JobInv /\ JobsTyped /\ RowsTyped /\ RefundsTyped
      /\ job[h].customer = c /\ c \in Customers
  BY DEF Move, BaseInv, JobInv
<1>1. /\ returned'[c] = returned[c] /\ paid'[c] = paid[c]
      /\ underpaid'[c] = underpaid[c] /\ disturbances' = disturbances
  BY DEF CreateSession, CreateRefunds, CoverFee, history, boundVars
<1>2. CASE CreateSession(h)
  <2>1. /\ job[h].step = "create" /\ Opens(h)
        /\ Finishes(h) \/ job'[h].step = "catalog"
    BY <1>0, <1>2, CreateSessionDoes DEF At, Becomes
  <2>2. SoldSame(c)
    BY <2>1, States DEF Opens, SoldSame, Sold, RowsOf
  <2>3. Plain(job'[h])
    BY <2>1, IdleIsPlain DEF Plain, RefundSteps, CoverSteps
  <2> QED
    BY <1>1, <2>1, <2>2, <2>3, ReturnsPlain
<1>3. CASE CreateRefunds(h)
  <2>1. /\ job[h].step = "create_refunds" /\ job'[h].step = "cover"
        /\ job'[h].customer = c /\ job'[h].row = job[h].row /\ SoldSame(c)
    BY <1>0, <1>3, CreateRefundsDoes DEF At, Counts, Becomes, SoldSame
  <2> QED
    BY <1>1, <2>1, ReturnsTrack DEF RefundSteps, CoverSteps
<1>4. CASE CoverFee(h)
  <2>0. job[h].entry \in DOMAIN refunds[job[h].customer]
    BY <1>0, <1>4 DEF CoverFee, At, JobInv, HandlerOK, JobOK, EntryOK
  <2>1. /\ job[h].step = "cover" /\ job'[h].step = "refund"
        /\ job'[h].customer = c /\ job'[h].row = job[h].row /\ SoldSame(c)
    BY <1>0, <1>4, <2>0, CoverFeeDoes DEF At, Becomes, SoldSame
  <2> QED
    BY <1>1, <2>1, ReturnsTrack DEF RefundSteps, CoverSteps
<1> QED
  BY <1>2, <1>3, <1>4

-----------------------------------------------------------------------------
(* A session is saved in another state than WAITING_FOR_SIZE.              *)
LEMMA ReturnsUnsold ==
  ASSUME NEW h \in Workers, NEW c, Move(h, c), job[h].row \in Rows,
         NEW state \in SessionStates \ {WAITING_FOR_SIZE}, Saves(h, state),
         returned'[c] = returned[c], paid'[c] = paid[c],
         underpaid'[c] = underpaid[c], disturbances' = disturbances,
         job[h].step \notin RefundSteps, job'[h].step \notin RefundSteps,
         Owed(job'[h]) = 0
  PROVE  ReturnsInv(c)'
<1> DEFINE i == job[h].row
<1>1. RowsTyped /\ RowsTyped' /\ job[h].customer = c /\ OthersSame(h)
  BY BookNumbers DEF Move
<1>2. Sold(c)' = Sold(c) \ {i}
  BY DEF Saves, Sold, RowsOf
<1>3. Refunders(c)' \subseteq Refunders(c)
  BY <1>1 DEF Refunders, OthersSame
<1>4. ASSUME i \notin Sold(c)
      PROVE  Excusers(c) \subseteq Excusers(c)'
  <2>1. Sold(c)' = Sold(c)
    BY <1>2, <1>4
  <2>2. ~Excusing(job[h], Sold(c))
    BY <1>4 DEF Excusing, RefundSteps, CoverSteps
  <2> QED
    BY <1>1, <2>1, <2>2 DEF Excusers, OthersSame
<1>5. Held(c)' \in Int /\ Held(c)' <= Held(c)
  BY <1>1, <1>2, <1>3, <1>4, HeldUnsold
<1>6. Total(Owes(c)) \in Nat /\ Total(Owes(c))' \in Nat /\ Total(Owes(c))' <= Total(Owes(c))
  BY MoveOwes
<1> QED
  BY <1>5, <1>6, ReturnsStay DEF Move

(* A session is sold: the price it was paid is now owed for it.            *)
LEMMA ReturnsSold ==
  ASSUME NEW h \in Workers, NEW c, Move(h, c), job[h].row \in Rows,
         session[job[h].row].customer = c, Saves(h, WAITING_FOR_SIZE),
         returned'[c] = returned[c], paid'[c] = paid[c],
         underpaid'[c] = underpaid[c], disturbances' = disturbances,
         job[h].step = "save", job[h].state = WAITING_FOR_SIZE, Finishes(h)
  PROVE  ReturnsInv(c)'
<1> DEFINE i == job[h].row
<1>1. RowsTyped /\ RowsTyped' /\ job[h].customer = c /\ OthersSame(h)
  BY BookNumbers DEF Move
<1>2. Sold(c)' = Sold(c) \cup {i}
  <2>1. \A k \in Rows : k \in Sold(c)' <=> k \in Sold(c) \cup {i}
    BY DEF Saves, Sold, RowsOf
  <2> QED
    BY <2>1 DEF Saves, Sold, RowsOf
<1>3. SellStep(job[h]) /\ Owed(job[h]) = Price + Fee /\ ~Excusing(job[h], Sold(c))
  BY SellStepOwes DEF SellStep
<1>4. job'[h].customer # c /\ job'[h].step \notin RefundSteps
  BY NoCustomerFresh DEF Move, Finishes, Becomes, RefundSteps, CoverSteps
<1>5. Refunders(c)' \subseteq Refunders(c)
  BY <1>1, <1>4 DEF Refunders, OthersSame
<1>6. Excusers(c) \subseteq Excusers(c)'
  BY <1>1, <1>2, <1>3 DEF Excusers, OthersSame, Excusing
<1>7. Held(c)' \in Int /\ Held(c)' <= Held(c) + 1
  BY <1>1, <1>2, <1>5, <1>6, HeldSell
<1>8. /\ Total(Owes(c)) \in Nat /\ Total(Owes(c))' \in Nat
      /\ Total(Owes(c))' + (Price + Fee) = Total(Owes(c))
  BY <1>3, <1>4, MoveOwes
<1>9. /\ -(Price + Fee) \in Int
      /\ -(Price + Fee) + Worth(1) <= Costs(0) + Worth(0)
      /\ underpaid'[c] = underpaid[c] + 0 /\ disturbances' = disturbances + 0
      /\ returned'[c] + Total(Owes(c))'
           <= returned[c] + Total(Owes(c)) + (paid'[c] - paid[c]) + (-(Price + Fee))
  <2>1. /\ underpaid[c] \in Nat /\ disturbances \in Nat
        /\ returned[c] \in Nat /\ paid[c] \in Nat
    BY BookNumbers DEF Move
  <2> QED
    BY <1>8, <2>1, UnitPrices
<1> QED
  BY <1>7, <1>8, <1>9, ReturnsBooks DEF Move

LEMMA ReturnsSaves ==
  ASSUME NEW h \in Workers, NEW c, Move(h, c), RequestPayment(h) \/ HandleCancel(h) \/ Save(h)
  PROVE  ReturnsInv(c)'
<1>0. /\ JobInv /\ JobsTyped /\ RowsTyped /\ JobOK(job[h]) /\ RowOK(h)
      /\ job[h].customer = c /\ c \in Customers
  BY DEF Move, BaseInv, JobInv, HandlerOK
<1>1. /\ returned'[c] = returned[c] /\ paid'[c] = paid[c]
      /\ underpaid'[c] = underpaid[c] /\ disturbances' = disturbances
  BY DEF RequestPayment, HandleCancel, Save, history, boundVars
<1>2. job[h].row \in Rows /\ job[h].step \in {"request", "chat", "save"}
  BY <1>0, BusyKnows DEF RequestPayment, HandleCancel, Save, At, RowSteps, CatalogSteps
<1>3. job[h].step \notin RefundSteps
  BY <1>2 DEF RefundSteps, CoverSteps
<1>4. Finishes(h) => job'[h].step \notin RefundSteps /\ Owed(job'[h]) = 0
  BY DEF Finishes, Becomes, RefundSteps, CoverSteps, Owed
<1>5. ASSUME NEW state \in SessionStates \ {WAITING_FOR_SIZE}, NEW b,
             Sets(h, "save", state, b) \/ Sets(h, "catalog", state, b)
      PROVE  job'[h].step \notin RefundSteps /\ Owed(job'[h]) = 0
  BY <1>5 DEF Sets, Becomes, RefundSteps, CoverSteps, Owed
<1>6. CASE RequestPayment(h) \/ HandleCancel(h)
  <2>1. PICK state \in {WAITING_FOR_PAYMENT, CANCELLED} :
          /\ Saves(h, state)
          /\ \/ Finishes(h)
             \/ \E b \in BOOLEAN : Sets(h, "save", state, b) \/ Sets(h, "catalog", state, b)
    BY <1>0, <1>2, <1>6, RequestPaymentDoes, HandleCancelDoes
  <2>2. state \in SessionStates \ {WAITING_FOR_SIZE}
    BY States
  <2>3. job'[h].step \notin RefundSteps /\ Owed(job'[h]) = 0
    BY <1>4, <1>5, <2>1, <2>2
  <2> QED
    BY <1>1, <1>2, <1>3, <2>1, <2>2, <2>3, ReturnsUnsold
<1>7. CASE Save(h)
  <2>1. /\ job[h].step = "save" /\ Saves(h, job[h].state)
        /\ IF job[h].again THEN Sets(h, "save", job[h].state, FALSE) ELSE Finishes(h)
        /\ job[h].state \in SessionStates
    BY <1>0, <1>2, <1>7, SaveDoes DEF At, JobsTyped, AnyJob
  <2>2. CASE job[h].state = WAITING_FOR_SIZE
    <3>1. ~job[h].again
      BY <1>0, <2>1, <2>2, States DEF JobOK
    <3>2. session[job[h].row].customer = c
      BY <1>0, <1>2, RowFields DEF RowOK
    <3> QED
      BY <1>1, <1>2, <2>1, <2>2, <3>1, <3>2, ReturnsSold
  <2>3. CASE job[h].state # WAITING_FOR_SIZE
    <3>1. job'[h].step \notin RefundSteps /\ Owed(job'[h]) = 0
      BY <1>4, <1>5, <2>1, <2>3
    <3> QED
      BY <1>1, <1>2, <1>3, <2>1, <2>3, <3>1, ReturnsUnsold
  <2> QED
    BY <2>2, <2>3
<1> QED
  BY <1>6, <1>7

(* A payment comes in. *)
LEMMA ReturnsPaid ==
  ASSUME NEW h \in Workers, NEW c, Move(h, c), FindUnsolicited(h) \/ FindWaiting(h)
  PROVE  ReturnsInv(c)'
<1> DEFINE a == job[h].amount
           u == IF FindWaiting(h) /\ a < Price THEN 1 ELSE 0
<1>0. /\ JobInv /\ JobsTyped /\ RowsTyped /\ Counted
      /\ job[h].customer = c /\ c \in Customers /\ OthersSame(h)
  BY DEF Move, BaseInv, JobInv
<1>1. /\ job[h].step = "payment" /\ CountPayment(h) /\ session' = session
      /\ returned'[c] = returned[c] /\ disturbances' = disturbances
  BY DEF FindUnsolicited, FindWaiting, At, rowVars, boundVars
<1>2. paid'[c] = paid[c] + a /\ a \in Nat
  BY <1>0, <1>1, PaymentTyped, AmountIsNumber
<1>3. u \in {0, 1} /\ underpaid'[c] = underpaid[c] + u /\ underpaid[c] \in Nat
  <2>1. underpaid[c] \in Nat /\ underpaid \in [Customers -> Nat]
    BY <1>0 DEF Counted
  <2>2. CASE FindWaiting(h)
    BY <1>0, <2>1, <2>2 DEF FindWaiting
  <2>3. CASE ~FindWaiting(h)
    <3>1. underpaid' = underpaid
      BY <2>3 DEF FindUnsolicited
    <3> QED
      BY <2>1, <2>3, <3>1
  <2> QED
    BY <2>2, <2>3
<1>4. /\ \/ job'[h].step \in {"idle", "unsolicited", "excess"}
         \/ job'[h].step \in {"not_enough", "stock"} /\ u = 1
      /\ job'[h].step # "idle" => job'[h].amount = a /\ job'[h].customer = c
  <2>1. CASE FindWaiting(h)
    BY <1>0, <2>1, FindWaitingDoes DEF Reads, Finishes, Becomes
  <2>2. CASE FindUnsolicited(h)
    BY <1>0, <2>2, FindUnsolicitedDoes DEF Moves, Sets, Finishes, Becomes
  <2> QED
    BY <2>1, <2>2
<1> HIDE DEF a, u
<1>5. Owed(job[h]) = 0 /\ Owed(job'[h]) <= a + Worth(u) /\ Worth(u) \in Nat
  <2>1. Worth(0) = 0 /\ Worth(1) = Price + Fee /\ Price + Fee \in Nat
    BY UnitPrices
  <2>2. CASE job'[h].step \in {"idle", "unsolicited", "excess"}
    <3>1. Owed(job'[h]) \in {0, a}
      BY <1>4, <2>2 DEF Owed
    <3> QED
      BY <1>1, <1>2, <1>3, <2>1, <3>1 DEF Owed
  <2>3. CASE job'[h].step \in {"not_enough", "stock"} /\ u = 1
    <3>1. Owed(job'[h]) \in {a + (Price + Fee), Price + Fee}
      BY <1>4, <2>3 DEF Owed
    <3> QED
      BY <1>1, <1>2, <2>1, <2>3, <3>1 DEF Owed
  <2> QED
    BY <1>4, <2>2, <2>3
<1>6. Held(c)' \in Int /\ Held(c)' <= Held(c) + 0
  <2>1. ~Excusing(job[h], Sold(c)) /\ job'[h].step \notin RefundSteps
    BY <1>1, <1>4 DEF Excusing, RefundSteps, CoverSteps
  <2>2. Held(c)' \in Int /\ Held(c)' <= Held(c)
    BY <1>0, <1>1, <2>1, HeldKept, SoldIfSame, BookNumbers DEF Move, SoldSame
  <2> QED
    BY <2>2, BookNumbers DEF Move
<1>7. /\ Total(Owes(c)) \in Nat /\ Total(Owes(c))' \in Nat
      /\ Total(Owes(c))' <= Total(Owes(c)) + a + Worth(u)
  BY <1>2, <1>5, MoveOwes
<1>8. /\ returned'[c] + Total(Owes(c))'
           <= returned[c] + Total(Owes(c)) + (paid'[c] - paid[c]) + Worth(u)
      /\ disturbances' = disturbances + 0
      /\ Worth(u) + Worth(0) <= Costs(0) + Worth(u)
  <2>1. Worth(0) = 0 /\ Costs(0) = 0
    BY UnitPrices
  <2> QED
    BY <1>1, <1>2, <1>5, <1>7, <2>1, BookNumbers DEF Move
<1> QED
  BY <1>3, <1>5, <1>6, <1>7, <1>8, ReturnsBooks DEF Move

-----------------------------------------------------------------------------
(* A payment goes out of what the handler owes.                            *)
LEMMA ReturnsOwed ==
  ASSUME NEW h \in Workers, NEW c, Move(h, c), session' = session, paid'[c] = paid[c],
         underpaid'[c] = underpaid[c],
         NEW n \in Nat, disturbances' = disturbances + n,
         job[h].step \in {"excess", "unsolicited", "not_enough", "sold_out"},
         job'[h].step \notin RefundSteps,
         NEW a \in Nat, returned'[c] <= returned[c] + a + Costs(n),
         \/ job'[h].customer # c /\ a <= Owed(job[h])
         \/ job'[h].customer = c /\ a + Owed(job'[h]) <= Owed(job[h])
  PROVE  ReturnsInv(c)'
<1>1. ~Excusing(job[h], Sold(c))
  BY DEF Excusing, RefundSteps, CoverSteps
<1>2. Held(c)' \in Int /\ Held(c)' <= Held(c)
  BY <1>1, HeldKept, SoldIfSame, BookNumbers DEF Move, SoldSame
<1>3. /\ Total(Owes(c)) \in Nat /\ Total(Owes(c))' \in Nat
      /\ Total(Owes(c))' + a <= Total(Owes(c))
  BY MoveOwes
<1>4. Costs(n) \in Nat /\ Worth(0) = 0
  BY CostsOf, UnitPrices
<1>5. /\ returned'[c] + Total(Owes(c))'
           <= returned[c] + Total(Owes(c)) + (paid'[c] - paid[c]) + Costs(n)
      /\ underpaid'[c] = underpaid[c] + 0 /\ Held(c)' <= Held(c) + 0
      /\ Costs(n) + Worth(0) <= Costs(n) + Worth(0)
  BY <1>2, <1>3, <1>4, BookNumbers DEF Move
<1> QED
  BY <1>2, <1>3, <1>4, <1>5, ReturnsBooks DEF Move

(* What a payment adds at most: the sum and the costs of its repetitions,  *)
(* or costs only.                                                          *)
LEMMA SentAtMost ==
  ASSUME NEW h \in Workers, NEW c, Move(h, c), NEW a \in Nat, a <= Cost,
         NEW ACTION going, Sent(h, a, going)
  PROVE  \E n \in Nat :
           /\ disturbances' = disturbances + n
           /\ \/ going /\ returned'[c] <= returned[c] + a + Costs(n)
              \/ (going \/ Finishes(h)) /\ returned'[c] <= returned[c] + 0 + Costs(n)
<1>1. /\ Counted /\ job[h].customer = c /\ c \in Customers
      /\ returned[c] \in Nat /\ disturbances \in Nat
  BY BookNumbers DEF Move, BaseInv
<1>2. ASSUME NEW n \in Nat
      PROVE  n * a <= Costs(n) /\ n * a \in Nat /\ Costs(n) \in Nat
  <2>1. n * a \in Nat
    OBVIOUS
  <2>2. n * a <= Costs(n) /\ Costs(n) \in Nat
    BY CostsOf
  <2> QED
    BY <2>1, <2>2
<1>3. ASSUME NEW n \in Nat, disturbances' = disturbances + n, going,
             returned'[c] = returned[c] + (1 + n) * a
      PROVE  returned'[c] <= returned[c] + a + Costs(n)
  <2> DEFINE k == n * a
             e == Costs(n)
  <2>1. k \in Nat /\ e \in Nat /\ k <= e
    BY <1>2
  <2>2. (1 + n) * a = a + k
    OBVIOUS
  <2>3. returned'[c] = returned[c] + (a + k)
    BY <1>3, <2>2
  <2> HIDE DEF k, e
  <2>4. returned'[c] <= returned[c] + a + e
    BY <1>1, <2>1, <2>3
  <2> QED
    BY <2>4 DEF e
<1>4. ASSUME NEW n \in Nat, disturbances' = disturbances + 1 + n,
             returned'[c] = returned[c] + (1 + n) * a
      PROVE  /\ disturbances' = disturbances + (1 + n)
             /\ returned'[c] <= returned[c] + 0 + Costs(1 + n)
  <2> DEFINE k == (1 + n) * a
             e == Costs(1 + n)
  <2>0. 1 + n \in Nat
    OBVIOUS
  <2>1. k \in Nat /\ e \in Nat /\ k <= e /\ returned'[c] = returned[c] + k
    BY <1>2, <1>4, <2>0
  <2> HIDE DEF k, e
  <2>2. returned'[c] <= returned[c] + 0 + e
    BY <1>1, <2>1
  <2> QED
    BY <1>1, <1>4, <2>2 DEF e
<1>5. ASSUME returned'[c] = returned[c]
      PROVE  returned'[c] <= returned[c] + 0 + Costs(1)
  BY <1>1, <1>5, UnitPrices
<1> QED
  BY <1>1, <1>3, <1>4, <1>5, SentTyped

(* What a handler owes is sent, and it goes on to owe the rest.            *)
LEMMA ReturnsSends ==
  ASSUME NEW h \in Workers, NEW c, Move(h, c),
         UNCHANGED <<rowVars, dropVars, messages, paid, fees, underpaid>>,
         job[h].step \in {"excess", "unsolicited", "not_enough", "sold_out"},
         NEW a \in Nat, a <= Cost, NEW ACTION going, Sent(h, a, going),
         going => /\ job'[h].step \notin RefundSteps
                  /\ \/ job'[h].customer # c /\ a <= Owed(job[h])
                     \/ job'[h].customer = c /\ a + Owed(job'[h]) <= Owed(job[h])
  PROVE  ReturnsInv(c)'
<1>1. session' = session /\ paid'[c] = paid[c] /\ underpaid'[c] = underpaid[c]
  BY DEF rowVars
<1>2. PICK n \in Nat :
        /\ disturbances' = disturbances + n
        /\ \/ going /\ returned'[c] <= returned[c] + a + Costs(n)
           \/ (going \/ Finishes(h)) /\ returned'[c] <= returned[c] + 0 + Costs(n)
  BY SentAtMost
<1>3. CASE going /\ returned'[c] <= returned[c] + a + Costs(n)
  BY <1>1, <1>2, <1>3, ReturnsOwed
<1>4. CASE (going \/ Finishes(h)) /\ returned'[c] <= returned[c] + 0 + Costs(n)
  <2>1. Owed(job[h]) \in Nat /\ Owed(job'[h]) \in Nat
    BY MoveOwes
  <2>2. Finishes(h) => job'[h].customer # c /\ job'[h].step \notin RefundSteps
    BY NoCustomerFresh DEF Move, Finishes, Becomes, RefundSteps, CoverSteps
  <2>3. /\ job'[h].step \notin RefundSteps
        /\ \/ job'[h].customer # c /\ 0 <= Owed(job[h])
           \/ job'[h].customer = c /\ 0 + Owed(job'[h]) <= Owed(job[h])
    BY <1>4, <2>1, <2>2
  <2> QED
    BY <1>1, <1>2, <1>4, <2>3, ReturnsOwed
<1> QED
  BY <1>2, <1>3, <1>4

LEMMA ReturnsSent ==
  ASSUME NEW h \in Workers, NEW c, Move(h, c),
         ReturnExcess(h) \/ ReturnUnderpayment(h) \/ RefundUnsolicited(h) \/ RefundSoldOut(h)
  PROVE  ReturnsInv(c)'
<1>0. /\ JobInv /\ JobsTyped /\ RowsTyped /\ job[h].customer = c
      /\ c \in Customers /\ Price + Fee \in Nat
  BY Money DEF Move, BaseInv, JobInv
<1>1. Moves(h, "stock") =>
        /\ job'[h].customer = c /\ Owed(job'[h]) = Price + Fee
        /\ job'[h].step \notin RefundSteps
  BY <1>0 DEF Moves, Sets, Becomes, Owed, RefundSteps, CoverSteps
<1>2. CASE ReturnExcess(h)
  <2> DEFINE a == job[h].amount - Price - Fee
  <2>1. job[h].step = "excess" /\ a \in Nat /\ a <= Cost
    BY <1>0, <1>2, AmountsTyped, ReturnExcessDoes DEF At
  <2>2. a + (Price + Fee) <= Owed(job[h])
    BY <1>0, <2>1, AmountsTyped, Money DEF Owed
  <2>3. Sent(h, a, Moves(h, "stock"))
    BY <1>0, <1>2, ReturnExcessDoes
  <2> HIDE DEF a
  <2> QED
    BY <1>0, <1>1, <1>2, <2>1, <2>2, <2>3, ReturnExcessDoes, ReturnsSends
<1>3. CASE ReturnUnderpayment(h)
  <2> DEFINE a == job[h].amount - Fee
  <2>1. job[h].step = "not_enough" /\ a \in Nat /\ a <= Cost
    BY <1>0, <1>3, AmountsTyped, ReturnUnderpaymentDoes DEF At
  <2>2. a + (Price + Fee) <= Owed(job[h])
    BY <1>0, <2>1, AmountsTyped, Money DEF Owed
  <2>3. Sent(h, a, Moves(h, "stock"))
    BY <1>0, <1>3, ReturnUnderpaymentDoes
  <2> HIDE DEF a
  <2> QED
    BY <1>0, <1>1, <1>3, <2>1, <2>2, <2>3, ReturnUnderpaymentDoes, ReturnsSends
<1>4. CASE RefundUnsolicited(h)
  <2> DEFINE a == job[h].amount - Fee
  <2>1. job[h].step = "unsolicited" /\ a \in Nat /\ a <= Cost
    BY <1>0, <1>4, AmountsTyped, RefundUnsolicitedDoes DEF At
  <2>2. a <= Owed(job[h])
    BY <1>0, <2>1, AmountsTyped, Money DEF Owed
  <2>3. Finishes(h) => job'[h].customer # c /\ job'[h].step \notin RefundSteps
    BY <1>0, NoCustomerFresh DEF Finishes, Becomes, RefundSteps, CoverSteps
  <2>4. Sent(h, a, Finishes(h))
    BY <1>0, <1>4, RefundUnsolicitedDoes
  <2> HIDE DEF a
  <2> QED
    BY <1>0, <1>4, <2>1, <2>2, <2>3, <2>4, RefundUnsolicitedDoes, ReturnsSends
<1>5. CASE RefundSoldOut(h)
  <2> DEFINE a == Price + Fee
  <2>1. job[h].step = "sold_out" /\ a \in Nat /\ a <= Cost /\ Owed(job[h]) = a
    BY <1>0, <1>5, RefundSoldOutDoes, Money DEF At, Owed
  <2>2. Sets(h, "save", REFUNDED, TRUE) =>
          /\ job'[h].customer = c /\ Owed(job'[h]) = 0
          /\ job'[h].step \notin RefundSteps
    BY <1>0, States DEF Sets, Becomes, Owed, RefundSteps, CoverSteps
  <2>3. Sent(h, a, Sets(h, "save", REFUNDED, TRUE))
    BY <1>0, <1>5, RefundSoldOutDoes
  <2> HIDE DEF a
  <2>4. a + 0 <= Owed(job[h])
    BY <2>1
  <2> QED
    BY <1>0, <1>5, <2>1, <2>2, <2>3, <2>4, RefundSoldOutDoes, ReturnsSends
<1> QED
  BY <1>2, <1>3, <1>4, <1>5

(* A session is refunded: it was held, or the handler's own.               *)
LEMMA ReturnsRefund ==
  ASSUME NEW h \in Workers, NEW c, Move(h, c), RefundPrice(h)
  PROVE  ReturnsInv(c)'
<1> DEFINE K == Price + Fee
           going == Sets(h, "save", REFUNDED, job[h].again)
<1>0. /\ JobInv /\ JobsTyped /\ RowsTyped /\ RowsTyped' /\ Counted
      /\ job[h].customer = c /\ c \in Customers /\ OthersSame(h)
  BY BookNumbers DEF Move, BaseInv, JobInv
<1>1. /\ job[h].step = "refund" /\ session' = session /\ paid'[c] = paid[c]
      /\ underpaid'[c] = underpaid[c] /\ underpaid[c] \in Nat
  BY <1>0, RefundPriceDoes DEF At, rowVars, Counted
<1>2. PICK n \in Nat :
        /\ disturbances' = disturbances + n
        /\ \/ going /\ returned'[c] <= returned[c] + K + Costs(n)
           \/ (going \/ Finishes(h)) /\ returned'[c] <= returned[c] + 0 + Costs(n)
  <2>1. PICK a \in {Price + Fee, Price - Fee} : Sent(h, a, going)
    BY <1>0, RefundPriceDoes
  <2>2. a \in Nat /\ a <= K /\ a <= Cost /\ K \in Nat
    BY Money
  <2>3. PICK n \in Nat :
          /\ disturbances' = disturbances + n
          /\ \/ going /\ returned'[c] <= returned[c] + a + Costs(n)
             \/ (going \/ Finishes(h)) /\ returned'[c] <= returned[c] + 0 + Costs(n)
    <3> HIDE DEF going, K
    <3> QED
      BY <2>1, <2>2, SentAtMost
  <2>4. Costs(n) \in Nat /\ returned[c] \in Nat /\ returned'[c] \in Nat
    BY CostsOf, BookNumbers DEF Move
  <2>5. returned'[c] <= returned[c] + a + Costs(n)
          => returned'[c] <= returned[c] + K + Costs(n)
    <3> HIDE DEF K
    <3> QED
      BY <2>2, <2>4
  <2> QED
    BY <2>3, <2>5
<1>3. /\ K \in Nat /\ Costs(n) \in Nat /\ Worth(0) = 0 /\ Worth(-1) = -K
      /\ underpaid'[c] = underpaid[c] + 0
  <2>1. Costs(n) \in Nat
    BY CostsOf
  <2> QED
    BY <1>1, <2>1, UnitPrices
<1>4. Sold(c)' = Sold(c)
  BY <1>1, SoldIfSame DEF SoldSame
<1>5. job'[h].step \in {"save", "idle"} /\ Owed(job'[h]) = 0
  BY <1>2, States DEF Sets, Finishes, Becomes, Owed
<1>6. h \in Refunders(c) /\ h \notin Refunders(c)' /\ Refunders(c)' \subseteq Refunders(c)
  BY <1>0, <1>1, <1>5 DEF Refunders, OthersSame, RefundSteps, CoverSteps
<1>7. /\ Total(Owes(c)) \in Nat /\ Total(Owes(c))' \in Nat
      /\ Total(Owes(c))' <= Total(Owes(c))
  BY <1>5, MoveOwes
<1>8. CASE going /\ returned'[c] <= returned[c] + K + Costs(n)
  <2>1. Excusing(job[h], Sold(c)) => job'[h].customer = c /\ Excusing(job'[h], Sold(c))
    BY <1>0, <1>1, <1>8 DEF Sets, Becomes, Excusing
  <2>2. Excusers(c) \subseteq Excusers(c)'
    BY <1>0, <1>4, <2>1 DEF Excusers, OthersSame
  <2>3. Held(c)' \in Int /\ Held(c)' + 1 <= Held(c) /\ Held(c) \in Nat
    BY <1>0, <1>4, <1>6, <2>2, HeldRefund, HeldType
  <2>4. Held(c)' <= Held(c) + (-1) /\ -1 \in Int
    BY <2>3
  <2> DEFINE g == K + Costs(n)
  <2> HIDE DEF K
  <2>5. /\ g \in Int /\ g + Worth(-1) <= Costs(n) + Worth(0)
        /\ returned'[c] + Total(Owes(c))'
             <= returned[c] + Total(Owes(c)) + (paid'[c] - paid[c]) + g
    BY <1>1, <1>3, <1>7, <1>8, BookNumbers DEF Move
  <2> HIDE DEF g
  <2> QED
    BY <1>2, <1>3, <1>7, <2>3, <2>4, <2>5, ReturnsBooks DEF Move
<1>9. CASE returned'[c] <= returned[c] + 0 + Costs(n)
  <2>1. Held(c)' \in Int /\ Held(c)' <= Held(c) /\ Held(c) \in Nat
    BY <1>0, <1>4, <1>6, HeldMove, HeldType
  <2>2. /\ Held(c)' <= Held(c) + 0 /\ Costs(n) + Worth(0) <= Costs(n) + Worth(0)
        /\ returned'[c] + Total(Owes(c))'
             <= returned[c] + Total(Owes(c)) + (paid'[c] - paid[c]) + Costs(n)
    BY <1>1, <1>3, <1>7, <1>9, <2>1, BookNumbers DEF Move
  <2> QED
    BY <1>2, <1>3, <1>7, <2>1, <2>2, ReturnsBooks DEF Move
<1> QED
  BY <1>2, <1>8, <1>9

LEMMA ReturnsStop ==
  ASSUME NEW h \in Workers, NEW c, Move(h, c), HandlerStops(h)
  PROVE  ReturnsInv(c)'
<1>0. JobsTyped /\ Counted /\ RowsTyped /\ RowsTyped' /\ OthersSame(h) /\ c \in Customers
  BY BookNumbers DEF Move, BaseInv
<1>1. Finishes(h) /\ Disturb /\ UNCHANGED <<rowVars, dropVars, messages, history>>
  BY <1>0, HandlerStopsDoes
<1>2. /\ disturbances' = disturbances + 1 /\ session' = session
      /\ returned'[c] = returned[c] /\ paid'[c] = paid[c]
      /\ underpaid'[c] = underpaid[c]
  BY <1>0, <1>1, DisturbCounts DEF Counted, rowVars, history
<1>3. Sold(c)' = Sold(c)
  BY <1>2, SoldIfSame DEF SoldSame
<1>4. Refunders(c)' \subseteq Refunders(c)
  BY <1>0, <1>1 DEF Refunders, OthersSame, Finishes, Becomes, RefundSteps, CoverSteps
<1>5. Held(c)' \in Int /\ Held(c)' <= Held(c) + 1
  BY <1>0, <1>3, <1>4, HeldLose
<1>6. /\ Total(Owes(c)) \in Nat /\ Total(Owes(c))' \in Nat
      /\ Total(Owes(c))' <= Total(Owes(c))
  <2>1. Owed(job'[h]) = 0
    BY <1>1 DEF Finishes, Becomes, Owed
  <2> QED
    BY <2>1, MoveOwes
<1> QED
  BY <1>2, <1>5, <1>6, ReturnsStay DEF Move

-----------------------------------------------------------------------------
(* A message or a payment is taken from the queue: a second one of the     *)
(* same customer was a disturbance.                                        *)
LEMMA ReturnsReceive ==
  ASSUME BaseInv, BaseInv', NEW c \in Customers, ReturnsInv(c),
         NEW h \in Workers, NEW k \in Customers, NEW s \in {"route", "payment"},
         NEW a \in Amounts \cup {0}, Receive(h, k, s, a)
  PROVE  ReturnsInv(c)'
<1>0. /\ JobsTyped /\ JobsTyped' /\ RowsTyped /\ RowsTyped' /\ Counted /\ JobInv
      /\ s \in JobSteps
  BY BookNumbers DEF BaseInv, JobSteps
<1>1. /\ At(h, "idle") /\ Becomes(h, s, k, NoKey, READY, NoKey, 0, a, FALSE, FALSE)
      /\ \/ disturbances' = disturbances /\ \A g \in Workers : job[g].customer # k
         \/ Disturb
      /\ UNCHANGED <<rowVars, dropVars, history>>
  BY <1>0, ReceiveDoes
<1>2. OthersSame(h) /\ job'[h].step = s /\ job'[h].customer = k
  BY <1>1 DEF Becomes
<1>3. job[h].customer # c
  BY <1>0, <1>1, NoCustomerFresh DEF At, JobInv, HandlerOK, JobOK
<1>4. /\ disturbances' = disturbances \/ disturbances' = disturbances + 1
      /\ disturbances' = disturbances => \A g \in Workers : job[g].customer # k
  BY <1>0, <1>1, DisturbCounts DEF Counted
<1>5. /\ session' = session /\ underpaid' = underpaid
      /\ returned'[c] = returned[c] /\ paid'[c] = paid[c]
  BY <1>1 DEF rowVars, history
<1>6. Sold(c)' = Sold(c)
  BY <1>5, SoldIfSame DEF SoldSame
<1>7. Owed(job'[h]) = 0
  BY <1>2 DEF Owed
<1>8. /\ Total(Owes(c)) \in Nat /\ Total(Owes(c))' \in Nat
      /\ Total(Owes(c))' <= Total(Owes(c))
  BY <1>0, <1>2, <1>3, <1>7, OwesChange
<1>9. Excusers(c) \subseteq Excusers(c)'
  BY <1>2, <1>3, <1>6 DEF Excusers, OthersSame
<1>10. CASE k # c \/ s = "payment"
  <2>1. Refunders(c)' \subseteq Refunders(c)
    BY <1>2, <1>3, <1>10 DEF Refunders, OthersSame, RefundSteps, CoverSteps
  <2>2. Held(c)' \in Int /\ Held(c)' <= Held(c)
    BY <1>0, <1>6, <1>9, <2>1, HeldMove
  <2>3. Held(c)' <= Held(c) + 1
    BY <2>2, BookNumbers
  <2> QED
    BY <1>4, <1>5, <1>8, <2>2, <2>3, ReturnsStay
<1>11. CASE k = c /\ s = "route"
  <2>1. Refunders(c)' \subseteq Refunders(c) \cup {h}
    BY <1>2 DEF Refunders, OthersSame
  <2>2. /\ Held(c)' \in Int /\ Held(c)' <= Held(c) + 1
        /\ Excusers(c) = {} /\ Excusers(c)' # {} => Held(c)' <= Held(c)
    BY <1>0, <1>6, <1>9, <2>1, HeldJoin
  <2>3. disturbances' = disturbances => Held(c)' <= Held(c)
    <3>1. h \in Excusers(c)'
      BY <1>2, <1>11 DEF Excusers, Excusing
    <3>2. disturbances' = disturbances => Excusers(c) = {}
      BY <1>4, <1>11 DEF Excusers
    <3> QED
      BY <2>2, <3>1, <3>2
  <2> QED
    BY <1>4, <1>5, <1>8, <2>2, <2>3, ReturnsStay
<1> QED
  BY <1>10, <1>11

LEMMA ReturnsCrash ==
  ASSUME BaseInv, BaseInv', NEW c \in Customers, ReturnsInv(c), Crash
  PROVE  ReturnsInv(c)'
<1>0. JobsTyped /\ JobsTyped' /\ RowsTyped /\ RowsTyped' /\ Counted
  BY BookNumbers DEF BaseInv
<1>1. /\ Disturb
      /\ \A h \in Workers : job'[h].step = "idle" /\ job'[h].customer = NoCustomer
      /\ UNCHANGED <<rowVars, dropVars, messages, history>>
  BY <1>0, CrashDoes
<1>2. /\ disturbances' = disturbances + 1 /\ session' = session /\ underpaid' = underpaid
      /\ returned'[c] = returned[c] /\ paid'[c] = paid[c]
  BY <1>0, <1>1, DisturbCounts DEF Counted, rowVars, history
<1>3. Sold(c)' = Sold(c)
  BY <1>2, SoldIfSame DEF SoldSame
<1>4. Refunders(c)' = {}
  BY <1>1 DEF Refunders, RefundSteps, CoverSteps
<1>5. Held(c)' \in Int /\ Held(c)' <= Held(c) + 1
  BY <1>0, <1>3, <1>4, HeldLose
<1>6. /\ Total(Owes(c)) \in Nat /\ Total(Owes(c))' \in Nat
      /\ Total(Owes(c))' <= Total(Owes(c))
  <2> DEFINE zero == [h \in Workers |-> 0]
  <2>1. Owes(c) \in [Workers -> Nat]
    BY <1>0, OwesType
  <2>2. Owes(c)' = zero
    BY <1>1, NoCustomerFresh DEF Owes
  <2>3. /\ Total(Owes(c)) \in Nat /\ Total(zero) \in Nat
        /\ Total(zero) <= Total(Owes(c))
    <3>1. zero \in [Workers -> Nat] /\ \A h \in Workers : zero[h] = 0 /\ Owes(c)[h] \in Nat
      BY <2>1
    <3>2. \A h \in Workers : zero[h] <= Owes(c)[h]
      BY <3>1
    <3> HIDE DEF zero
    <3> QED
      BY <2>1, <3>1, <3>2, PoolFinite, TotalLower
  <2> HIDE DEF zero
  <2> QED
    BY <2>2, <2>3
<1> QED
  BY <1>2, <1>5, <1>6, ReturnsStay

LEMMA ReturnsSame ==
  ASSUME BaseInv, BaseInv', NEW c \in Customers, ReturnsInv(c),
         UNCHANGED <<rowVars, job, boundVars, history>>
  PROVE  ReturnsInv(c)'
<1>1. /\ session' = session /\ job' = job /\ disturbances' = disturbances
      /\ underpaid' = underpaid /\ returned' = returned /\ paid' = paid
  BY DEF rowVars, boundVars, history
<1>2. Sold(c)' = Sold(c)
  BY <1>1, SoldIfSame DEF SoldSame
<1>3. Held(c)' = Held(c)
  BY <1>1, <1>2 DEF Held, Refunders, Excusers
<1>4. Owes(c)' = Owes(c)
  BY <1>1 DEF Owes
<1>5. Total(Owes(c))' = Total(Owes(c))
  BY <1>4
<1> QED
  BY <1>1, <1>3, <1>5 DEF ReturnsInv

LEMMA ReturnsHandle ==
  ASSUME BaseInv, BaseInv', NEW c \in Customers, ReturnsInv(c), NEW h \in Workers,
         Handle(h) \/ HandlePayment(h) \/ HandlerStops(h)
  PROVE  ReturnsInv(c)'
<1>1. CASE c # job[h].customer
  BY <1>1, ReturnsElsewhere
<1>2. CASE c = job[h].customer
  <2>1. Move(h, c)
    BY <1>2, TurnSteps DEF Turn, Move, BaseInv, Counted
  <2> QED
    BY <2>1, ReturnsCalm, ReturnsCount, ReturnsSaves, ReturnsPaid, ReturnsSent,
       ReturnsRefund, ReturnsStop DEF Handle, HandlePayment
<1> QED
  BY <1>1, <1>2

LEMMA ReturnsStep ==
  ASSUME BaseInv, \A c \in Customers : ReturnsInv(c), [Next]_vars
  PROVE  \A c \in Customers : ReturnsInv(c)'
<1> TAKE c \in Customers
<1>1. BaseInv' /\ ReturnsInv(c)
  BY BaseStep
<1>2. ASSUME NEW h \in Workers, NEW k \in Customers,
             \/ Receive(h, k, "route", 0)
             \/ \E a \in Amounts : Receive(h, k, "payment", a)
      PROVE  ReturnsInv(c)'
  BY <1>1, <1>2, ReturnsReceive
<1>3. ASSUME NEW h \in Workers, Handle(h) \/ HandlePayment(h) \/ HandlerStops(h)
      PROVE  ReturnsInv(c)'
  BY <1>1, <1>3, ReturnsHandle
<1>4. CASE Crash
  BY <1>1, <1>4, ReturnsCrash
<1>5. CASE EditStock \/ EndDrop \/ UNCHANGED vars
  BY <1>1, <1>5, OutsideSteps, ReturnsSame DEF vars
<1> QED
  BY <1>2, <1>3, <1>4, <1>5, Steps

LEMMA ReturnsInit ==
  ASSUME Init
  PROVE  \A c \in Customers : ReturnsInv(c)
<1> TAKE c \in Customers
<1>1. Held(c) = 0
  <2>1. Sold(c) = {}
    BY DEF Init, Sold, RowsOf, Rows
  <2>2. \A h \in Workers : job[h].step = "idle"
    BY DEF Init, NoJob
  <2>3. Refunders(c) = {} /\ Excusers(c) = {}
    BY <2>1, <2>2 DEF Refunders, Excusers, Excusing, RefundSteps, CoverSteps
  <2> QED
    BY <2>1, <2>3, FS_EmptySet DEF Held
<1>2. Total(Owes(c)) = 0
  <2>1. \A h \in Workers : job[h].customer = NoCustomer
    BY DEF Init, NoJob
  <2>2. Owes(c) = [h \in Workers |-> 0]
    BY <2>1, NoCustomerFresh DEF Owes
  <2> QED
    BY <2>2, TotalZero
<1>3. /\ disturbances = 0 /\ returned[c] = 0 /\ paid[c] = 0 /\ underpaid[c] = 0
      /\ Worth(0) = 0 /\ Costs(0) = 0
  BY UnitPrices DEF Init
<1> QED
  BY <1>1, <1>2, <1>3 DEF ReturnsInv

(* A customer gets back no more than was paid, one price and fee for every *)
(* payment that was less than the price, and the cost of every             *)
(* disturbance: though a refund is paid before the session is saved, two   *)
(* handlers may refund the same one, and send_mob_to_address may make the  *)
(* same payment more than once.                                            *)
THEOREM ReturnsBoundedHolds == Spec => []ReturnsBounded
<1> DEFINE Books == \A c \in Customers : ReturnsInv(c)
<1>1. BaseInv /\ Books /\ [Next]_vars => Books'
  BY ReturnsStep
<1>2. Init => Books
  BY ReturnsInit
<1>3. ASSUME BaseInv, Books
      PROVE  ReturnsBounded
  <2> SUFFICES ASSUME NEW c \in Customers
               PROVE  returned[c] <= paid[c] + Worth(underpaid[c]) + Costs(disturbances)
    BY DEF ReturnsBounded, Worth, Costs
  <2>0. JobsTyped /\ RowsTyped /\ Counted
    BY <1>3 DEF BaseInv, JobInv
  <2>1. /\ Held(c) \in Nat /\ Total(Owes(c)) \in Nat
        /\ returned[c] \in Nat /\ paid[c] \in Nat /\ disturbances \in Nat
        /\ underpaid[c] \in Nat
    BY <2>0, HeldType, OwesType, ItemDropBounds DEF Counted
  <2>2. /\ Worth(Held(c)) \in Nat /\ Worth(underpaid[c]) \in Nat
        /\ Costs(disturbances) \in Nat
    <3>1. \A m, n \in Nat : Worth(m) \in Nat /\ Costs(m) \in Nat
      BY WorthOf, CostsOf
    <3> QED
      BY <2>1, <3>1
  <2>3. returned[c] + Worth(Held(c)) + Total(Owes(c))
          <= paid[c] + Worth(underpaid[c]) + Costs(disturbances)
    BY <1>3 DEF ReturnsInv
  <2> QED
    BY <2>1, <2>2, <2>3
<1> QED
  BY <1>1, <1>2, <1>3, BaseInvariant, PTL DEF Spec

-----------------------------------------------------------------------------
(* Which steps lead to a new session. *)
LEMMA ToNew ==
  ASSUME BaseInv, NEW h \in Workers, Handle(h) \/ HandlePayment(h) \/ HandlerStops(h)
  PROVE  \/ job'[h].step \notin {"route", "new", "create"}
         \/ StartNew(h) \/ GetSession(h)
<1>0. JobInv /\ JobsTyped /\ RowsTyped /\ RefundsTyped /\ returned \in [Customers -> Nat]
  BY DEF BaseInv, JobInv, Counted
<1>1. Finishes(h) => job'[h].step \notin {"route", "new", "create"}
  BY DEF Finishes, Becomes
<1>2. ASSUME NEW s \in JobSteps \ {"route", "new", "create"}, NEW state, NEW b,
             Sets(h, s, state, b)
      PROVE  job'[h].step \notin {"route", "new", "create"}
  BY <1>2 DEF Sets, Becomes
<1>3. \A s \in JobSteps \ {"route", "new", "create"} :
        Moves(h, s) => job'[h].step \notin {"route", "new", "create"}
  BY DEF Moves, Sets, Becomes
<1>4. \A s \in JobSteps \ {"route", "new", "create"}, i \in Rows :
        Reads(h, s, i) => job'[h].step \notin {"route", "new", "create"}
  BY DEF Reads, Becomes
<1>5. /\ {"idle", "catalog", "list", "request", "chat", "payment",
          "unsolicited", "not_enough", "excess", "stock", "ask_size", "sold_out",
          "refund", "save", "size", "get_refunds", "create_refunds",
          "cover"} = JobSteps \ {"route", "new", "create"}
  BY DEF JobSteps
<1>8. CASE CreateSession(h)
  <2>1. job[h].customer \in Customers
    BY <1>0, <1>8, BusyKnows DEF CreateSession, At
  <2> QED
    BY <1>0, <1>8, <2>1, CreateSessionDoes DEF Finishes, Becomes
<1>9. CASE ExplainPayments(h)
  BY <1>0, <1>1, <1>2, <1>5, <1>9, ExplainPaymentsDoes
<1>10. CASE ShowCatalog(h)
  BY <1>0, <1>3, <1>5, <1>10, ShowCatalogDoes
<1>11. CASE ListOptions(h)
  BY <1>0, <1>1, <1>3, <1>5, <1>11, ListOptionsDoes
<1>12. CASE RequestPayment(h) \/ HandleCancel(h) \/ Save(h)
  <2>1. job[h].row \in Rows
    BY <1>0, <1>12, BusyKnows
    DEF RequestPayment, HandleCancel, Save, At, RowSteps, CatalogSteps
  <2> QED
    BY <1>0, <1>1, <1>2, <1>5, <1>12, <2>1, RequestPaymentDoes, HandleCancelDoes, SaveDoes
<1>13. CASE Chat(h)
  BY <1>0, <1>2, <1>5, <1>13, ChatDoes
<1>14. CASE AnswerSize(h)
  BY <1>0, <1>1, <1>14, AnswerSizeDoes
<1>15. CASE CoverFee(h)
  <2>1. /\ job[h].customer \in Customers
        /\ job[h].entry \in DOMAIN refunds[job[h].customer]
    BY <1>0, <1>15, BusyKnows DEF CoverFee, At, JobInv, HandlerOK, JobOK, EntryOK
  <2> QED
    BY <1>0, <1>15, <2>1, CoverFeeDoes DEF Becomes
<1>16. CASE KeepFee(h)
  BY <1>0, <1>3, <1>5, <1>16, KeepFeeDoes
<1>17. CASE RefundPrice(h)
  BY <1>0, <1>1, <1>2, <1>5, <1>17, RefundPriceDoes DEF Sent
<1>18. CASE IgnoreFailed(h)
  BY <1>0, <1>1, <1>18, IgnoreFailedDoes
<1>19. CASE FindUnsolicited(h)
  BY <1>0, <1>1, <1>3, <1>5, <1>19, FindUnsolicitedDoes
<1>20. CASE RefundUnsolicited(h)
  BY <1>0, <1>1, <1>20, RefundUnsolicitedDoes
<1>21. CASE FindWaiting(h)
  BY <1>0, <1>1, <1>4, <1>5, <1>21, FindWaitingDoes DEF RowsOf
<1>22. CASE ReturnUnderpayment(h) \/ ReturnExcess(h)
  BY <1>0, <1>1, <1>3, <1>5, <1>22, ReturnUnderpaymentDoes, ReturnExcessDoes DEF Sent
<1>23. CASE CheckStock(h)
  BY <1>0, <1>3, <1>5, <1>23, CheckStockDoes
<1>24. CASE RefundSoldOut(h)
  <2>1. job[h].customer \in Customers
    BY <1>0, <1>24, BusyKnows DEF RefundSoldOut, At
  <2> QED
    BY <1>0, <1>1, <1>2, <1>5, <1>24, <2>1, RefundSoldOutDoes DEF Sent
<1>25. CASE AskSize(h)
  BY <1>0, <1>1, <1>2, <1>5, <1>25, AskSizeDoes
<1>27. CASE GoOn(h)
  <2>1. PICK i \in RowsOf(job[h].customer, ActiveStates) :
          Reads(h, StepOf(session[i].state), i)
    BY <1>0, <1>27, GoOnDoes
  <2>2. session[i].state \in ActiveStates /\ job'[h].step = StepOf(session[i].state)
    BY <2>1 DEF RowsOf, Reads, Becomes
  <2> QED
    BY <2>2 DEF StepOf, ActiveStates
<1>28. CASE CancelSize(h)
  BY <1>0, <1>3, <1>5, <1>28, CancelSizeDoes
<1>29. CASE GetRefunds(h) \/ CreateRefunds(h)
  <2>1. job[h].customer \in Customers
    BY <1>0, <1>29, BusyKnows DEF GetRefunds, CreateRefunds, At
  <2> QED
    BY <1>0, <1>1, <1>3, <1>5, <1>29, <2>1, GetRefundsDoes, CreateRefundsDoes
    DEF Counts, Becomes
<1>26. CASE HandlerStops(h)
  BY <1>0, <1>1, <1>26, HandlerStopsDoes
<1> QED
  BY <1>8, <1>9, <1>10, <1>11, <1>12, <1>13, <1>14, <1>15, <1>16, <1>17,
     <1>18, <1>19, <1>20, <1>21, <1>22, <1>23, <1>24, <1>25, <1>26,
     <1>27, <1>28, <1>29 DEF Handle, HandlePayment

-----------------------------------------------------------------------------
(* Sessions that go on. *)

Active(c) == RowsOf(c, ActiveStates)

(* The handlers of a customer, those that may come to open a session, and  *)
(* the sessions that go on or may be saved as one that does.               *)
Busy(c) == {h \in Workers : job[h].customer = c}
Opening(c) == {h \in Busy(c) : job[h].step \in {"route", "new", "create"}}
Arriving(c) == {h \in Busy(c) : job[h].step = "route"}
Kept(c) == Active(c) \cup {i \in Rows : \E h \in Busy(c) : job[h].row = i}

(* A handler that found no session that goes on makes up for one that it   *)
(* opens; only while one has not yet looked may there be one more.         *)
SessionsInv(c) ==
  /\ Cardinality(Busy(c)) <= 1 + disturbances
  /\ Cardinality(Kept(c)) + Cardinality(Opening(c)) <= 2 + disturbances
  /\ Arriving(c) = {} =>
       Cardinality(Kept(c)) + Cardinality(Opening(c)) <= 1 + disturbances

LEMMA SessionSets ==
  ASSUME RowsTyped, NEW c
  PROVE  /\ IsFiniteSet(Busy(c)) /\ Cardinality(Busy(c)) \in Nat
         /\ IsFiniteSet(Opening(c)) /\ Cardinality(Opening(c)) \in Nat
         /\ IsFiniteSet(Kept(c)) /\ Cardinality(Kept(c)) \in Nat
<1>1. Busy(c) \subseteq Workers /\ Opening(c) \subseteq Workers
  BY DEF Busy, Opening
<1>2. IsFiniteSet(Rows)
  <2>1. Len(session) \in Nat /\ Rows = 1 .. Len(session)
    BY DEF RowsTyped, Rows
  <2> QED
    BY <2>1, FS_Interval
<1>3. Kept(c) \subseteq Rows
  BY DEF Kept, Active, RowsOf
<1>4. IsFiniteSet(Busy(c)) /\ IsFiniteSet(Opening(c)) /\ IsFiniteSet(Kept(c))
  BY <1>1, <1>2, <1>3, PoolFinite, FS_Subset
<1> QED
  BY <1>4, FS_CardinalityType

(* Nothing is added.                                                       *)
LEMMA SessionsFewer ==
  ASSUME BaseInv, BaseInv', NEW c \in Customers, SessionsInv(c),
         disturbances <= disturbances',
         Busy(c)' \subseteq Busy(c), Kept(c)' \subseteq Kept(c),
         Opening(c)' \subseteq Opening(c),
         \/ \E h \in Opening(c) : h \notin Opening(c)'
         \/ Arriving(c)' = {} => Arriving(c) = {}
  PROVE  SessionsInv(c)'
<1>0. /\ RowsTyped /\ RowsTyped' /\ disturbances \in Nat /\ disturbances' \in Nat
  BY ItemDropBounds DEF BaseInv, JobInv, Counted
<1>1. /\ IsFiniteSet(Busy(c)) /\ Cardinality(Busy(c)) \in Nat
      /\ IsFiniteSet(Opening(c)) /\ Cardinality(Opening(c)) \in Nat
      /\ IsFiniteSet(Kept(c)) /\ Cardinality(Kept(c)) \in Nat
  BY <1>0, SessionSets
<1>2. /\ Cardinality(Busy(c)') \in Nat /\ Cardinality(Opening(c)') \in Nat
      /\ Cardinality(Kept(c)') \in Nat
      /\ Cardinality(Busy(c)') <= Cardinality(Busy(c))
      /\ Cardinality(Opening(c)') <= Cardinality(Opening(c))
      /\ Cardinality(Kept(c)') <= Cardinality(Kept(c))
  BY <1>1, FS_Subset, FS_CardinalityType
<1>3. ASSUME NEW h \in Opening(c), h \notin Opening(c)'
      PROVE  Cardinality(Opening(c)') <= Cardinality(Opening(c)) - 1
  <2>1. Opening(c)' \subseteq Opening(c) \ {h}
    BY <1>3
  <2>2. /\ IsFiniteSet(Opening(c) \ {h})
        /\ Cardinality(Opening(c) \ {h}) = Cardinality(Opening(c)) - 1
    BY <1>1, <1>3, FS_RemoveElement
  <2> QED
    BY <2>1, <2>2, FS_Subset
<1>4. /\ Cardinality(Busy(c)) <= 1 + disturbances
      /\ Cardinality(Kept(c)) + Cardinality(Opening(c)) <= 2 + disturbances
      /\ Arriving(c) = {} =>
           Cardinality(Kept(c)) + Cardinality(Opening(c)) <= 1 + disturbances
  BY DEF SessionsInv
<1>5. /\ Cardinality(Busy(c)') <= 1 + disturbances'
      /\ Cardinality(Kept(c)') + Cardinality(Opening(c)') <= 2 + disturbances'
  BY <1>0, <1>1, <1>2, <1>4
<1>6. Arriving(c)' = {} =>
        Cardinality(Kept(c)') + Cardinality(Opening(c)') <= 1 + disturbances'
  BY <1>0, <1>1, <1>2, <1>3, <1>4
<1> QED
  BY <1>5, <1>6 DEF SessionsInv

(* A handler joins: the only one, or with a disturbance.                   *)
LEMMA SessionsJoin ==
  ASSUME BaseInv, BaseInv', NEW c \in Customers, SessionsInv(c), NEW h \in Workers,
         \/ disturbances' = disturbances /\ Busy(c) = {}
         \/ disturbances' = disturbances + 1,
         Busy(c)' \subseteq Busy(c) \cup {h}, Kept(c)' \subseteq Kept(c),
         Opening(c)' \subseteq Opening(c) \cup {h},
         Arriving(c)' = {} => Opening(c)' \subseteq Opening(c)
  PROVE  SessionsInv(c)'
<1>0. /\ RowsTyped /\ RowsTyped' /\ disturbances \in Nat
  BY ItemDropBounds DEF BaseInv, JobInv, Counted
<1>1. /\ IsFiniteSet(Busy(c)) /\ Cardinality(Busy(c)) \in Nat
      /\ IsFiniteSet(Opening(c)) /\ Cardinality(Opening(c)) \in Nat
      /\ IsFiniteSet(Kept(c)) /\ Cardinality(Kept(c)) \in Nat
  BY <1>0, SessionSets
<1>2. /\ IsFiniteSet(Busy(c) \cup {h})
      /\ Cardinality(Busy(c) \cup {h}) <= Cardinality(Busy(c)) + 1
      /\ IsFiniteSet(Opening(c) \cup {h})
      /\ Cardinality(Opening(c) \cup {h}) <= Cardinality(Opening(c)) + 1
  <2>1. /\ IsFiniteSet(Busy(c) \cup {h})
        /\ Cardinality(Busy(c) \cup {h}) =
             IF h \in Busy(c) THEN Cardinality(Busy(c)) ELSE Cardinality(Busy(c)) + 1
    BY <1>1, FS_AddElement
  <2>2. /\ IsFiniteSet(Opening(c) \cup {h})
        /\ Cardinality(Opening(c) \cup {h}) =
             IF h \in Opening(c)
             THEN Cardinality(Opening(c)) ELSE Cardinality(Opening(c)) + 1
    BY <1>1, FS_AddElement
  <2> QED
    BY <1>1, <2>1, <2>2
<1>3. /\ Cardinality(Busy(c)') \in Nat /\ Cardinality(Opening(c)') \in Nat
      /\ Cardinality(Kept(c)') \in Nat
      /\ Cardinality(Busy(c)') <= Cardinality(Busy(c) \cup {h})
      /\ Cardinality(Opening(c)') <= Cardinality(Opening(c) \cup {h})
      /\ Cardinality(Kept(c)') <= Cardinality(Kept(c))
      /\ Arriving(c)' = {} => Cardinality(Opening(c)') <= Cardinality(Opening(c))
  BY <1>1, <1>2, FS_Subset, FS_CardinalityType
<1>4. /\ Cardinality(Busy(c)') <= Cardinality(Busy(c)) + 1
      /\ Cardinality(Opening(c)') <= Cardinality(Opening(c)) + 1
  <2>1. /\ Cardinality(Busy(c) \cup {h}) \in Nat
        /\ Cardinality(Opening(c) \cup {h}) \in Nat
    BY <1>2, FS_CardinalityType
  <2> QED
    BY <1>1, <1>2, <1>3, <2>1
<1>5. /\ Cardinality(Busy(c)) <= 1 + disturbances
      /\ Cardinality(Kept(c)) + Cardinality(Opening(c)) <= 2 + disturbances
      /\ Arriving(c) = {} =>
           Cardinality(Kept(c)) + Cardinality(Opening(c)) <= 1 + disturbances
  BY DEF SessionsInv
<1>6. Busy(c) = {} =>
        /\ Cardinality(Busy(c)) = 0 /\ Cardinality(Opening(c)) = 0 /\ Arriving(c) = {}
  <2>1. Busy(c) = {} => Opening(c) = {} /\ Arriving(c) = {}
    BY DEF Opening, Arriving
  <2> QED
    BY <2>1, FS_EmptySet
<1>7. /\ Cardinality(Busy(c)') <= 1 + disturbances'
      /\ Cardinality(Kept(c)') + Cardinality(Opening(c)') <= 2 + disturbances'
  BY <1>0, <1>1, <1>3, <1>4, <1>5, <1>6
<1>8. Arriving(c)' = {} =>
        Cardinality(Kept(c)') + Cardinality(Opening(c)') <= 1 + disturbances'
  BY <1>0, <1>1, <1>3, <1>4, <1>5, <1>6
<1> QED
  BY <1>7, <1>8 DEF SessionsInv

(* Where no session goes on, there is no more to keep than handlers that   *)
(* are not about to open one.                                              *)
LEMMA KeptAtMost ==
  ASSUME BaseInv, NEW c \in Customers, Active(c) = {}
  PROVE  Cardinality(Kept(c)) + Cardinality(Opening(c)) <= Cardinality(Busy(c))
<1> DEFINE T == {h \in Busy(c) : job[h].row \in Rows}
           f == [h \in T |-> job[h].row]
<1>0. RowsTyped /\ JobInv
  BY DEF BaseInv, JobInv
<1>1. /\ IsFiniteSet(Busy(c)) /\ Cardinality(Busy(c)) \in Nat
      /\ IsFiniteSet(Opening(c)) /\ Cardinality(Opening(c)) \in Nat
      /\ IsFiniteSet(Kept(c)) /\ Cardinality(Kept(c)) \in Nat
  BY <1>0, SessionSets
<1>2. f \in Surjection(T, Kept(c))
  <2>1. f \in [T -> Kept(c)]
    BY DEF Kept
  <2>2. \A i \in Kept(c) : \E h \in T : f[h] = i
    BY DEF Kept
  <2> QED
    BY <2>1, <2>2 DEF Surjection
<1>3. T \cap Opening(c) = {}
  <2>1. ASSUME NEW h \in T, h \in Opening(c)
        PROVE  FALSE
    <3>1. h \in Workers /\ job[h].row \in Rows
          /\ job[h].step \in {"route", "new", "create"}
      BY <2>1 DEF Opening, Busy
    <3>2. job[h].row = NoKey
      BY <1>0, <3>1 DEF JobInv, HandlerOK, JobOK
    <3> QED
      BY <1>0, <3>1, <3>2, RowFields
  <2> QED
    BY <2>1
<1>4. IsFiniteSet(T) /\ Cardinality(T) \in Nat
  <2>1. T \subseteq Busy(c)
    OBVIOUS
  <2> QED
    BY <1>1, <2>1, FS_Subset, FS_CardinalityType
<1>5. Cardinality(T \cup Opening(c)) <= Cardinality(Busy(c))
  <2>1. T \cup Opening(c) \subseteq Busy(c)
    BY DEF Opening
  <2> QED
    BY <1>1, <2>1, FS_Subset
<1> HIDE DEF T, f
<1>6. Cardinality(Kept(c)) <= Cardinality(T)
  BY <1>2, <1>4, FS_Surjection
<1>7. Cardinality(T \cup Opening(c)) = Cardinality(T) + Cardinality(Opening(c))
  <2>1. Cardinality(T \cap Opening(c)) = 0
    BY <1>3, FS_EmptySet
  <2>2. Cardinality(T \cup Opening(c)) =
          Cardinality(T) + Cardinality(Opening(c)) - Cardinality(T \cap Opening(c))
    BY <1>1, <1>4, FS_Union
  <2> QED
    BY <1>1, <1>4, <2>1, <2>2
<1> QED
  BY <1>1, <1>4, <1>5, <1>6, <1>7

(* The active sessions of the customer of the handler. *)
LEMMA ActiveChange ==
  ASSUME BaseInv, NEW h \in Workers, Handle(h) \/ HandlePayment(h) \/ HandlerStops(h),
         NEW c \in Customers, job[h].customer = c
  PROVE  \/ session' = session /\ Active(c)' = Active(c)
         \/ job[h].row # NoKey /\ Active(c)' \subseteq Active(c) \cup {job[h].row}
         \/ CreateSession(h) /\ Active(c)' \subseteq Active(c) \cup {Len(session) + 1}
<1>1. CASE session' = session
  BY <1>1 DEF Active, RowsOf, Rows
<1>2. ASSUME NEW state \in SessionStates, Saves(h, state), job[h].row \in Rows
      PROVE  job[h].row # NoKey /\ Active(c)' \subseteq Active(c) \cup {job[h].row}
  <2>1. job[h].row # NoKey
    BY <1>2, RowFields DEF BaseInv, JobInv
  <2> QED
    BY <1>2, <2>1 DEF Saves, Active, RowsOf
<1>3. CASE Opens(h) /\ session' # session
  <2>1. CreateSession(h)
    <3>1. Rows' # Rows
      BY <1>3 DEF Opens
    <3>2. ASSUME RequestPayment(h) \/ HandleCancel(h) \/ Save(h)
          PROVE  Rows' = Rows
      <4>1. job[h].row \in Rows /\ job[h].state \in SessionStates
        BY <3>2, BusyKnows
        DEF RequestPayment, HandleCancel, Save, At, RowSteps, CatalogSteps,
           BaseInv, JobInv, JobsTyped, AnyJob
      <4> QED
        BY <3>2, <4>1, RequestPaymentDoes, HandleCancelDoes, SaveDoes
        DEF BaseInv, JobInv, Saves
    <3> QED
      BY <1>3, <3>1, <3>2 DEF Handle, HandlePayment, OnlyJob, rowVars, GoOn, StartNew,
         GetSession, ExplainPayments, ShowCatalog, ListOptions, Chat, AnswerSize,
         CancelSize,
         GetRefunds, CreateRefunds, CoverFee, KeepFee, RefundPrice, IgnoreFailed,
         FindUnsolicited, RefundUnsolicited, FindWaiting, ReturnUnderpayment,
         ReturnExcess,
         CheckStock, RefundSoldOut, AskSize, HandlerStops, Send, Pay
  <2> QED
    BY <1>3, <2>1 DEF Opens, Active, RowsOf
<1> QED
  BY <1>1, <1>2, <1>3, RowsChange

(* Where the rows of a customer's handlers are, after a step of one.       *)
LEMMA SessionsMove ==
  ASSUME BaseInv, BaseInv', NEW h \in Workers,
         Handle(h) \/ HandlePayment(h) \/ HandlerStops(h),
         NEW c \in Customers, job[h].customer = c, OthersSame(h)
  PROVE  /\ Busy(c)' \subseteq Busy(c)
         /\ Opening(c) \subseteq Opening(c)' \cup {h}
         /\ Opening(c)' \subseteq Opening(c) \cup {h}
         /\ Arriving(c) \subseteq Arriving(c)' \cup {h}
         /\ ~CreateSession(h) => Kept(c)' \subseteq Kept(c)
         /\ CreateSession(h) => Kept(c)' \subseteq Kept(c) \cup {Len(session) + 1}
<1>0. RowsTyped /\ RowsTyped' /\ JobInv
  BY DEF BaseInv, JobInv
<1>1. \A g \in Workers \ {h} : job'[g] = job[g]
  BY DEF OthersSame
<1>2. h \in Busy(c)
  BY DEF Busy
<1>3. ASSUME NEW g \in Workers, job[g].row # NoKey, job[g].customer = c
      PROVE  job[g].row \in Kept(c)
  BY <1>0, <1>3 DEF JobInv, HandlerOK, RowOK, Kept, Busy
<1>4. Active(c)' \subseteq Kept(c) \cup (IF CreateSession(h) THEN {Len(session) + 1} ELSE {})
  BY <1>3, ActiveChange DEF Kept
<1>5. ASSUME NEW g \in Workers, job'[g].customer = c, job'[g].row \in Rows'
      PROVE  \/ job'[g].row \in Kept(c)
             \/ CreateSession(h) /\ job'[g].row = Len(session) + 1
  <2>1. job'[g].row # NoKey
    BY <1>0, <1>5 DEF RowsTyped, Rows, NoKey
  <2>2. CASE g # h
    BY <1>1, <1>3, <1>5, <2>1, <2>2
  <2>3. CASE g = h
    <3>1. Stays(h)
      BY <1>5, <2>3, StaysOrFinishes, NoCustomerFresh DEF Finishes, Becomes
    <3>2. CASE job'[h].row = job[h].row
      BY <1>3, <2>1, <2>3, <3>2
    <3>3. CASE job'[h].row \in Active(c)
      BY <2>3, <3>3 DEF Kept
    <3>4. CASE CreateSession(h)
      <4>1. Finishes(h) \/ job'[h].row = Len(session) + 1
        BY <1>0, <3>4, CreateSessionDoes DEF JobInv, Becomes
      <4> QED
        BY <1>5, <2>3, <3>4, <4>1, NoCustomerFresh DEF Finishes, Becomes
    <3> QED
      BY <3>1, <3>2, <3>3, <3>4 DEF Stays, Active
  <2> QED
    BY <2>2, <2>3
<1>6. Kept(c)' \subseteq Kept(c) \cup (IF CreateSession(h) THEN {Len(session) + 1} ELSE {})
  BY <1>4, <1>5 DEF Kept, Busy
<1>7. /\ Busy(c)' \subseteq Busy(c)
      /\ Opening(c) \subseteq Opening(c)' \cup {h}
      /\ Opening(c)' \subseteq Opening(c) \cup {h}
      /\ Arriving(c) \subseteq Arriving(c)' \cup {h}
  BY <1>1, <1>2 DEF Busy, Opening, Arriving
<1> QED
  BY <1>6, <1>7

(* A session is opened, in place of the handler that was about to.         *)
LEMMA SessionsOpen ==
  ASSUME BaseInv, BaseInv', NEW h \in Workers, NEW c \in Customers, SessionsInv(c),
         CreateSession(h), job[h].customer = c, OthersSame(h)
  PROVE  SessionsInv(c)'
<1>0. /\ RowsTyped /\ RowsTyped' /\ disturbances \in Nat /\ JobsTyped
      /\ Handle(h)
  BY ItemDropBounds DEF BaseInv, JobInv, Counted, Handle
<1>1. /\ job[h].step = "create" /\ job'[h].step \notin {"route", "new", "create"}
      /\ disturbances' = disturbances
  BY <1>0, CreateSessionDoes DEF At, Finishes, Becomes, boundVars
<1>2. /\ Busy(c)' \subseteq Busy(c)
      /\ Kept(c)' \subseteq Kept(c) \cup {Len(session) + 1}
      /\ Opening(c)' \subseteq Opening(c) \cup {h}
      /\ Arriving(c) \subseteq Arriving(c)' \cup {h}
  BY <1>0, SessionsMove
<1>3. h \in Opening(c) /\ h \notin Opening(c)' /\ h \notin Arriving(c)
  BY <1>1 DEF Opening, Busy, Arriving
<1>4. /\ IsFiniteSet(Busy(c)) /\ Cardinality(Busy(c)) \in Nat
      /\ IsFiniteSet(Opening(c)) /\ Cardinality(Opening(c)) \in Nat
      /\ IsFiniteSet(Kept(c)) /\ Cardinality(Kept(c)) \in Nat
  BY <1>0, SessionSets
<1>5. /\ Cardinality(Busy(c)') \in Nat
      /\ Cardinality(Busy(c)') <= Cardinality(Busy(c))
  BY <1>2, <1>4, FS_Subset, FS_CardinalityType
<1>6. /\ Cardinality(Kept(c)') \in Nat
      /\ Cardinality(Kept(c)') <= Cardinality(Kept(c)) + 1
  <2>1. /\ IsFiniteSet(Kept(c) \cup {Len(session) + 1})
        /\ Cardinality(Kept(c) \cup {Len(session) + 1}) =
             IF Len(session) + 1 \in Kept(c)
             THEN Cardinality(Kept(c)) ELSE Cardinality(Kept(c)) + 1
    BY <1>4, FS_AddElement
  <2>2. /\ Cardinality(Kept(c)') \in Nat
        /\ Cardinality(Kept(c)') <= Cardinality(Kept(c) \cup {Len(session) + 1})
    BY <1>2, <2>1, FS_Subset, FS_CardinalityType
  <2> QED
    BY <1>4, <2>1, <2>2
<1>7. /\ Cardinality(Opening(c)') \in Nat
      /\ Cardinality(Opening(c)') <= Cardinality(Opening(c)) - 1
  <2>1. Opening(c)' \subseteq Opening(c) \ {h}
    BY <1>2, <1>3
  <2>2. /\ IsFiniteSet(Opening(c) \ {h})
        /\ Cardinality(Opening(c) \ {h}) = Cardinality(Opening(c)) - 1
    BY <1>3, <1>4, FS_RemoveElement
  <2> QED
    BY <2>1, <2>2, FS_Subset, FS_CardinalityType
<1>8. Arriving(c)' = {} => Arriving(c) = {}
  BY <1>2, <1>3
<1> QED
  BY <1>0, <1>1, <1>4, <1>5, <1>6, <1>7, <1>8 DEF SessionsInv

(* A handler finds that no session goes on.                                *)
LEMMA SessionsNone ==
  ASSUME BaseInv, BaseInv', NEW h \in Workers, NEW c \in Customers, SessionsInv(c),
         StartNew(h), job[h].customer = c, job'[h].step = "new"
  PROVE  SessionsInv(c)'
<1>0. /\ RowsTyped /\ disturbances \in Nat /\ JobsTyped
  BY ItemDropBounds DEF BaseInv, JobInv, Counted
<1>1. /\ Active(c) = {} /\ Moves(h, "new") /\ job[h].step = "route"
      /\ session' = session /\ disturbances' = disturbances
  BY <1>0, StartNewDoes DEF Active, At, Finishes, Becomes, OnlyJob, rowVars, boundVars
<1>2. /\ job'[h].customer = c /\ job'[h].row = job[h].row
      /\ \A g \in Workers \ {h} : job'[g] = job[g]
  BY <1>1 DEF Moves, Sets, Becomes, OthersSame
<1>3. /\ Busy(c)' = Busy(c) /\ Opening(c)' = Opening(c) /\ Kept(c)' = Kept(c)
  <2>1. /\ \A g \in Workers : g \in Busy(c)' <=> g \in Busy(c)
        /\ \A g \in Workers : g \in Opening(c)' <=> g \in Opening(c)
    BY <1>1, <1>2 DEF Busy, Opening
  <2>2. Active(c)' = Active(c) /\ Rows' = Rows
    BY <1>1 DEF Active, RowsOf, Rows
  <2>3. \A g \in Workers : job'[g].row = job[g].row
    BY <1>2
  <2>4. Busy(c)' = Busy(c) /\ Opening(c)' = Opening(c)
    BY <2>1 DEF Busy, Opening
  <2> QED
    BY <2>2, <2>3, <2>4 DEF Kept, Busy
<1>4. /\ Cardinality(Kept(c)) + Cardinality(Opening(c)) <= Cardinality(Busy(c))
      /\ Cardinality(Busy(c)) <= 1 + disturbances
  BY <1>1, KeptAtMost DEF SessionsInv
<1>5. /\ Cardinality(Busy(c)) \in Nat /\ Cardinality(Opening(c)) \in Nat
      /\ Cardinality(Kept(c)) \in Nat
  BY <1>0, SessionSets
<1> QED
  BY <1>0, <1>1, <1>3, <1>4, <1>5 DEF SessionsInv

LEMMA SessionsHandle ==
  ASSUME BaseInv, BaseInv', NEW h \in Workers,
         Handle(h) \/ HandlePayment(h) \/ HandlerStops(h),
         NEW c \in Customers, SessionsInv(c), job[h].customer = c
  PROVE  SessionsInv(c)'
<1>0. /\ RowsTyped /\ JobsTyped /\ OthersSame(h)
  BY TurnSteps DEF Turn, BaseInv, JobInv, Counted
<1>1. CASE CreateSession(h)
  BY <1>0, <1>1, SessionsOpen
<1>2. CASE StartNew(h) /\ job'[h].step = "new"
  BY <1>2, SessionsNone
<1>3. CASE ~CreateSession(h) /\ ~(StartNew(h) /\ job'[h].step = "new")
  <2>1. /\ Busy(c)' \subseteq Busy(c) /\ Kept(c)' \subseteq Kept(c)
        /\ Opening(c)' \subseteq Opening(c) \cup {h}
        /\ Arriving(c) \subseteq Arriving(c)' \cup {h}
    BY <1>0, <1>3, SessionsMove
  <2>2. disturbances <= disturbances'
    BY HandlerDisturbs
  <2>3. CASE job'[h].step \notin {"route", "new", "create"}
    <3>1. h \notin Opening(c)'
      BY <2>3 DEF Opening, Busy
    <3>2. h \in Opening(c) \/ h \notin Arriving(c)
      BY DEF Opening, Arriving
    <3> QED
      BY <2>1, <2>2, <3>1, <3>2, SessionsFewer
  <2>4. CASE GetSession(h)
    <3>1. h \in Opening(c) /\ h \notin Arriving(c)
      BY <2>4 DEF Opening, Arriving, Busy, GetSession, At
    <3> QED
      BY <2>1, <2>2, <3>1, SessionsFewer
  <2>5. CASE StartNew(h)
    <3>1. job'[h].step \in {"new", "idle"}
      BY <1>0, <2>5, StartNewDoes DEF Moves, Sets, Finishes, Becomes
    <3> QED
      BY <1>3, <2>3, <2>5, <3>1
  <2> QED
    BY <2>3, <2>4, <2>5, ToNew
<1> QED
  BY <1>1, <1>2, <1>3

(* The steps of another customer's handler. *)
LEMMA SessionsElsewhere ==
  ASSUME BaseInv, BaseInv', NEW c \in Customers, SessionsInv(c), NEW h \in Workers,
         OthersSame(h), job'[h].customer # c, Active(c)' = Active(c),
         disturbances <= disturbances'
  PROVE  SessionsInv(c)'
<1>0. RowsTyped' /\ JobInv
  BY DEF BaseInv, JobInv
<1>1. \A g \in Workers : job'[g].customer = c => job'[g] = job[g]
  BY DEF OthersSame
<1>2. Busy(c)' \subseteq Busy(c) /\ Opening(c)' \subseteq Opening(c)
  BY <1>1 DEF Busy, Opening
<1>3. ASSUME NEW g \in Workers, job'[g].customer = c, job'[g].row \in Rows'
      PROVE  job'[g].row \in Kept(c)
  <2>1. job[g].row # NoKey /\ job[g].customer = c /\ job'[g].row = job[g].row
    BY <1>0, <1>1, <1>3 DEF RowsTyped, Rows, NoKey
  <2> QED
    BY <1>0, <2>1 DEF JobInv, HandlerOK, RowOK, Kept, Busy
<1>4. Kept(c)' \subseteq Kept(c)
  BY <1>3 DEF Kept, Busy
<1>5. \A g \in Workers : g # h /\ job[g].customer = c => job'[g] = job[g]
  BY DEF OthersSame
<1>6. h \in Arriving(c) => h \in Opening(c) /\ h \notin Opening(c)'
  BY DEF Arriving, Opening, Busy
<1>7. Arriving(c) \ {h} \subseteq Arriving(c)'
  BY <1>5 DEF Arriving, Busy
<1> QED
  BY <1>2, <1>4, <1>6, <1>7, SessionsFewer

LEMMA SessionsOther ==
  ASSUME BaseInv, BaseInv', NEW h \in Workers,
         Handle(h) \/ HandlePayment(h) \/ HandlerStops(h),
         NEW c \in Customers, SessionsInv(c), job[h].customer # c
  PROVE  SessionsInv(c)'
<1>1. OthersSame(h)
  BY TurnSteps DEF Turn, BaseInv, Counted
<1>2. Active(c)' = Active(c)
  BY RowsChange, RowsElsewhere DEF Active
<1>3. job'[h].customer # c
  BY StaysOrFinishes, NoCustomerFresh DEF Stays, Finishes, Becomes
<1> QED
  BY <1>1, <1>2, <1>3, HandlerDisturbs, SessionsElsewhere

LEMMA SessionsReceive ==
  ASSUME BaseInv, BaseInv', NEW c \in Customers, SessionsInv(c),
         NEW h \in Workers, NEW k \in Customers,
         NEW s \in {"route", "payment"}, NEW a \in Amounts \cup {0}, Receive(h, k, s, a)
  PROVE  SessionsInv(c)'
<1>0. /\ JobsTyped /\ RowsTyped' /\ JobInv /\ s \in JobSteps /\ disturbances \in Nat
      /\ Disturb => disturbances' = disturbances + 1
  BY ItemDropBounds, DisturbCounts DEF BaseInv, JobInv, JobSteps, Counted
<1>1. /\ Becomes(h, s, k, NoKey, READY, NoKey, 0, a, FALSE, FALSE) /\ At(h, "idle")
      /\ \/ disturbances' = disturbances /\ \A g \in Workers : job[g].customer # k
         \/ disturbances' = disturbances + 1
      /\ UNCHANGED <<rowVars, dropVars, history>>
  BY <1>0, ReceiveDoes
<1>2. /\ OthersSame(h) /\ job'[h].customer = k /\ job'[h].row = NoKey
      /\ job'[h].step = s /\ session' = session
      /\ \A g \in Workers \ {h} : job'[g] = job[g]
  BY <1>1 DEF Becomes, OthersSame, rowVars
<1>3. Active(c)' = Active(c) /\ Rows' = Rows
  BY <1>2 DEF Active, RowsOf, Rows
<1>4. CASE k = c
  <2>1. h \notin Busy(c)
    BY <1>0, <1>1, NoCustomerFresh DEF At, Busy, JobInv, HandlerOK, JobOK
  <2>2. /\ Busy(c)' \subseteq Busy(c) \cup {h}
        /\ Opening(c)' \subseteq Opening(c) \cup {h}
    BY <1>2 DEF Busy, Opening
  <2>3. Arriving(c)' = {} => Opening(c)' \subseteq Opening(c)
    <3>1. h \in Opening(c)' => h \in Arriving(c)'
      BY <1>2 DEF Opening, Arriving, Busy
    <3> QED
      BY <2>2, <3>1
  <2>4. Kept(c)' \subseteq Kept(c)
    <3>1. NoKey \notin Rows'
      BY <1>0 DEF RowsTyped, Rows, NoKey
    <3> QED
      BY <1>2, <1>3, <3>1 DEF Kept, Busy
  <2>5. \/ disturbances' = disturbances /\ Busy(c) = {}
        \/ disturbances' = disturbances + 1
    BY <1>1, <1>4 DEF Busy
  <2> QED
    BY <2>2, <2>3, <2>4, <2>5, SessionsJoin
<1>5. CASE k # c
  <2>1. disturbances <= disturbances'
    BY <1>0, <1>1
  <2> QED
    BY <1>2, <1>3, <1>5, <2>1, SessionsElsewhere
<1> QED
  BY <1>4, <1>5

LEMMA SessionsCrash ==
  ASSUME BaseInv, BaseInv', NEW c \in Customers, SessionsInv(c), Crash
  PROVE  SessionsInv(c)'
<1>0. JobsTyped /\ disturbances \in Nat /\ disturbances' \in Nat
  BY ItemDropBounds DEF BaseInv, JobInv, Counted
<1>1. /\ \A h \in Workers : job'[h].customer = NoCustomer
      /\ session' = session /\ disturbances' = disturbances + 1
  BY <1>0, CrashDoes, DisturbCounts DEF rowVars, BaseInv, Counted
<1>2. Busy(c)' = {} /\ Opening(c)' = {}
  BY <1>1, NoCustomerFresh DEF Busy, Opening
<1>3. Active(c)' = Active(c)
  BY <1>1 DEF Active, RowsOf, Rows
<1>4. Kept(c)' \subseteq Kept(c)
  BY <1>2, <1>3 DEF Kept
<1>5. Arriving(c) \subseteq Opening(c)
  BY DEF Arriving, Opening
<1>6. disturbances <= disturbances'
  BY <1>0, <1>1
<1> QED
  BY <1>2, <1>4, <1>5, <1>6, SessionsFewer

LEMMA SessionsStep ==
  ASSUME BaseInv, \A c \in Customers : SessionsInv(c), [Next]_vars
  PROVE  \A c \in Customers : SessionsInv(c)'
<1> TAKE c \in Customers
<1>0. BaseInv' /\ SessionsInv(c)
  BY BaseStep
<1>1. ASSUME NEW h \in Workers, NEW k \in Customers,
             \/ Receive(h, k, "route", 0)
             \/ \E a \in Amounts : Receive(h, k, "payment", a)
      PROVE  SessionsInv(c)'
  BY <1>0, <1>1, SessionsReceive
<1>2. ASSUME NEW h \in Workers, Handle(h) \/ HandlePayment(h) \/ HandlerStops(h)
      PROVE  SessionsInv(c)'
  BY <1>0, <1>2, SessionsHandle, SessionsOther
<1>3. CASE Crash
  BY <1>0, <1>3, SessionsCrash
<1>4. CASE EditStock \/ EndDrop \/ UNCHANGED vars
  <2>1. UNCHANGED <<session, job, disturbances>>
    BY <1>4, OutsideSteps DEF vars, rowVars, boundVars
  <2> QED
    BY <1>0, <2>1 DEF SessionsInv, Busy, Opening, Arriving, Kept, Active, RowsOf, Rows
<1> QED
  BY <1>1, <1>2, <1>3, <1>4, Steps

LEMMA SessionsInit ==
  ASSUME Init
  PROVE  \A c \in Customers : SessionsInv(c)
<1> TAKE c \in Customers
<1>1. /\ session = <<>> /\ disturbances = 0
      /\ \A h \in Workers : job[h].customer = NoCustomer
  BY DEF Init, NoJob
<1>2. Busy(c) = {} /\ Opening(c) = {} /\ Kept(c) = {}
  BY <1>1, NoCustomerFresh DEF Busy, Opening, Kept, Active, RowsOf, Rows
<1>3. /\ Cardinality(Busy(c)) = 0 /\ Cardinality(Opening(c)) = 0
      /\ Cardinality(Kept(c)) = 0
  BY <1>2, FS_EmptySet
<1> QED
  BY <1>1, <1>3 DEF SessionsInv

LEMMA SessionsAtMost ==
  ASSUME BaseInv, NEW c \in Customers, SessionsInv(c)
  PROVE  Cardinality(RowsOf(c, ActiveStates)) <= 1 + disturbances
<1>0. RowsTyped /\ disturbances \in Nat
  BY ItemDropBounds DEF BaseInv, JobInv, Counted
<1>1. /\ IsFiniteSet(Opening(c)) /\ Cardinality(Opening(c)) \in Nat
      /\ IsFiniteSet(Kept(c)) /\ Cardinality(Kept(c)) \in Nat
  BY <1>0, SessionSets
<1>2. Cardinality(Active(c)) \in Nat /\ Cardinality(Active(c)) <= Cardinality(Kept(c))
  <2>1. Active(c) \subseteq Kept(c)
    BY DEF Kept
  <2> QED
    BY <1>1, <2>1, FS_Subset, FS_CardinalityType
<1>3. Arriving(c) # {} => Cardinality(Opening(c)) # 0
  <2>1. Arriving(c) \subseteq Opening(c)
    BY DEF Arriving, Opening
  <2> QED
    BY <1>1, <2>1, FS_EmptySet
<1> QED
  BY <1>0, <1>1, <1>2, <1>3 DEF SessionsInv, Active

(* A customer has one session that goes on, and one more with every        *)
(* disturbance, whatever a stale copy brings back.                         *)
THEOREM ActiveSessionsBoundedHolds == Spec => []ActiveSessionsBounded
<1> DEFINE AllSessions == \A c \in Customers : SessionsInv(c)
<1>1. BaseInv /\ AllSessions /\ [Next]_vars => AllSessions'
  BY SessionsStep
<1>2. BaseInv /\ AllSessions => ActiveSessionsBounded
  BY SessionsAtMost DEF ActiveSessionsBounded
<1>3. Init => AllSessions
  BY SessionsInit
<1> QED
  BY <1>1, <1>2, <1>3, BaseInvariant, PTL DEF Spec

-----------------------------------------------------------------------------
(* Refunded sessions. *)

(* The handlers of c that are to save a session as refunded, and the rows  *)
(* that are refunded or about to be.                                       *)
Refunding(c) ==
  {h \in Workers :
     job[h].customer = c /\ job[h].step = "save" /\ job[h].state = REFUNDED}

Repaid(c) == RowsOf(c, {REFUNDED}) \cup {job[h].row : h \in Refunding(c)}

(* Each of them has had its price returned, less the fee.                  *)
RefundInv(c) ==
  disturbances = 0 => returned[c] >= (Price - Fee) * Cardinality(Repaid(c))

(* Which steps lead to a save().                                           *)
LEMMA ToSave ==
  ASSUME BaseInv, NEW h \in Workers, Handle(h) \/ HandlePayment(h) \/ HandlerStops(h),
         job'[h].step = "save"
  PROVE  \/ ExplainPayments(h) \/ RequestPayment(h) \/ Save(h) \/ AskSize(h)
         \/ RefundPrice(h) \/ RefundSoldOut(h)
<1>0. /\ JobsTyped /\ NoJob.step = "idle"
      /\ \A f \in [Workers -> AnyJob] : /\ h \in DOMAIN f
                                        /\ DOMAIN f[h] = DOMAIN NoJob
  BY DEF BaseInv, JobInv, AnyJob, NoJob
<1>1. job[h] \in AnyJob /\ h \in DOMAIN job /\ "step" \in DOMAIN job[h]
  BY <1>0 DEF JobsTyped, AnyJob
<1>2. ASSUME NEW s, Goto(h, s)
      PROVE  job'[h].step = s
  BY <1>1, <1>2 DEF Goto
<1>3. ASSUME Done(h)
      PROVE  job'[h].step = "idle"
  BY <1>0, <1>1, <1>3 DEF Done
<1>4. ASSUME NEW i, NEW s, Read(h, i, s)
      PROVE  job'[h].step = s
  BY <1>1, <1>4, ZenonT(40) DEF Read
<1>5. ASSUME NEW s, NEW state, SetState(h, state, s)
      PROVE  job'[h].step = s
  BY <1>1, <1>5 DEF SetState
<1>6. ~GoOn(h)
  <2>1. ASSUME NEW i, Read(h, i, StepOf(session[i].state)),
               i \in RowsOf(job[h].customer, ActiveStates)
        PROVE  FALSE
    <3>1. job'[h].step = StepOf(session[i].state)
      BY <1>4, <2>1
    <3>2. session[i].state \in ActiveStates
      BY <2>1 DEF RowsOf
    <3> QED
      BY <3>1, <3>2 DEF StepOf, ActiveStates
  <2> QED
    BY <2>1 DEF GoOn, First, ActiveRows
<1>7. ~StartNew(h) /\ ~GetSession(h) /\ ~ShowCatalog(h) /\ ~ListOptions(h)
  BY <1>2, <1>3, <1>4 DEF StartNew, GetSession, ShowCatalog, ListOptions
<1>8. ~AnswerSize(h) /\ ~CancelSize(h) /\ ~KeepFee(h) /\ ~IgnoreFailed(h) /\ ~CheckStock(h)
      /\ ~RefundUnsolicited(h) /\ ~FindUnsolicited(h)
  BY <1>2, <1>3 DEF AnswerSize, CancelSize, KeepFee, IgnoreFailed, CheckStock,
     RefundUnsolicited, FindUnsolicited
<1>9. ~HandlerStops(h)
  BY <1>3 DEF HandlerStops
<1>10. ~ReturnUnderpayment(h) /\ ~ReturnExcess(h)
  BY <1>3, <1>5 DEF ReturnUnderpayment, ReturnExcess, Send
<1>11. ~Chat(h) /\ ~HandleCancel(h)
  BY <1>1, ZenonT(60) DEF Chat, HandleCancel
<1>12. ~CreateSession(h)
  BY <1>1, <1>3 DEF CreateSession
<1>13. ~GetRefunds(h) /\ ~CreateRefunds(h) /\ ~CoverFee(h)
  BY <1>1, <1>2, <1>3, ZenonT(60) DEF GetRefunds, CreateRefunds, CoverFee
<1>14. ~FindWaiting(h)
  <2>1. BaseInv /\ RowsTyped
    BY DEF BaseInv, JobInv
  <2> QED
    BY <1>0, <2>1, FindWaitingDoes DEF Finishes, Reads, Becomes
<1> QED
  BY <1>6, <1>7, <1>8, <1>9, <1>10, <1>11, <1>12, <1>13, <1>14 DEF Handle, HandlePayment

(* Which rows are refunded after a step of a handler of c: those that were *)
(* or were about to be, and the one whose refund has just been sent.       *)
LEMMA RefundedRows ==
  ASSUME BaseInv, NEW h \in Workers, Handle(h) \/ HandlePayment(h) \/ HandlerStops(h),
         NEW c \in Customers, job[h].customer = c
  PROVE  RowsOf(c, {REFUNDED})' \subseteq Repaid(c)
<1>0. JobInv /\ JobsTyped /\ RowsTyped
  BY DEF BaseInv, JobInv
<1>1. CASE session' = session
  BY <1>1 DEF Repaid, RowsOf, Rows
<1>2. ASSUME NEW state \in SessionStates, Saves(h, state), job[h].row \in Rows,
             state = REFUNDED => h \in Refunding(c)
      PROVE  RowsOf(c, {REFUNDED})' \subseteq Repaid(c)
  BY <1>2 DEF Saves, Repaid, RowsOf
<1>3. CASE Opens(h)
  BY <1>3, States DEF Opens, Repaid, RowsOf
<1>4. CASE RequestPayment(h) \/ HandleCancel(h) \/ Save(h)
  <2>1. job[h].row \in Rows /\ job[h].state \in SessionStates
    BY <1>0, <1>4, BusyKnows DEF RequestPayment, HandleCancel, Save, At, RowSteps,
       CatalogSteps, JobsTyped, AnyJob
  <2>2. CASE RequestPayment(h)
    BY <1>0, <1>2, <2>1, <2>2, States, RequestPaymentDoes
  <2>3. CASE HandleCancel(h)
    BY <1>0, <1>2, <2>1, <2>3, States, HandleCancelDoes
  <2>4. CASE Save(h)
    <3>1. Saves(h, job[h].state) /\ job[h].step = "save"
      BY <1>0, <2>1, <2>4, SaveDoes DEF At
    <3>2. job[h].state = REFUNDED => h \in Refunding(c)
      BY <3>1 DEF Refunding
    <3> QED
      BY <1>2, <2>1, <3>1, <3>2
  <2> QED
    BY <1>4, <2>2, <2>3, <2>4
<1>5. CASE CreateSession(h)
  <2>1. job[h].customer \in Customers
    OBVIOUS
  <2> QED
    BY <1>0, <1>3, <1>5, <2>1, CreateSessionDoes
<1>6. CASE ~RequestPayment(h) /\ ~HandleCancel(h) /\ ~Save(h) /\ ~CreateSession(h)
  <2>1. session' = session
    BY <1>6 DEF Handle, HandlePayment, OnlyJob, rowVars, GoOn, StartNew, GetSession,
       ExplainPayments, ShowCatalog, ListOptions, Chat, AnswerSize, CancelSize,
       GetRefunds, CreateRefunds, CoverFee, KeepFee, RefundPrice, IgnoreFailed,
       FindUnsolicited, RefundUnsolicited, FindWaiting, ReturnUnderpayment, ReturnExcess,
       CheckStock, RefundSoldOut, AskSize, HandlerStops, Send, Pay
  <2> QED
    BY <1>1, <2>1
<1> QED
  BY <1>4, <1>5, <1>6

(* The handler itself.                                                     *)
LEMMA RefundingNext ==
  ASSUME BaseInv, NEW h \in Workers, Handle(h) \/ HandlePayment(h) \/ HandlerStops(h),
         job'[h].step = "save", job'[h].state = REFUNDED
  PROVE  /\ job'[h].row = job[h].row
         /\ \/ Save(h) /\ job[h].step = "save" /\ job[h].state = REFUNDED
            \/ RefundPrice(h) \/ RefundSoldOut(h)
<1>0. JobInv /\ JobsTyped /\ RowsTyped /\ JobOK(job[h]) /\ Counted
  BY DEF BaseInv, JobInv, HandlerOK
<1>1. ASSUME Finishes(h)
      PROVE  FALSE
  BY <1>1 DEF Finishes, Becomes
<1>2. ASSUME NEW s, NEW state, NEW b, Sets(h, s, state, b)
      PROVE  job'[h].row = job[h].row /\ job'[h].state = state
  BY <1>2 DEF Sets, Becomes
<1>3. CASE ExplainPayments(h)
  <2>1. job[h].step = "catalog" /\ job[h].again /\ Sets(h, "save", job[h].state, FALSE)
    BY <1>0, <1>1, <1>3, ExplainPaymentsDoes DEF At
  <2>2. job[h].state \in {WAITING_FOR_PAYMENT, CANCELLED} /\ job'[h].state = job[h].state
    BY <1>0, <1>2, <2>1 DEF JobOK, CatalogSteps
  <2> QED
    BY <2>2, States
<1>4. CASE RequestPayment(h)
  <2>1. job[h].row \in Rows
    BY <1>0, <1>4, BusyKnows DEF RequestPayment, At, RowSteps, CatalogSteps
  <2>2. Sets(h, "save", WAITING_FOR_PAYMENT, FALSE)
    BY <1>0, <1>1, <1>4, <2>1, RequestPaymentDoes
  <2> QED
    BY <1>2, <2>2, States
<1>5. CASE AskSize(h)
  <2>1. Sets(h, "save", WAITING_FOR_SIZE, job[h].again)
    BY <1>0, <1>1, <1>5, AskSizeDoes
  <2> QED
    BY <1>2, <2>1, States
<1>6. CASE Save(h)
  <2>1. job[h].row \in Rows
    BY <1>0, <1>6, BusyKnows DEF Save, At, RowSteps
  <2>2. Sets(h, "save", job[h].state, FALSE) /\ At(h, "save")
    BY <1>0, <1>1, <1>6, <2>1, SaveDoes
  <2> QED
    BY <1>2, <1>6, <2>2 DEF At
<1>7. CASE RefundPrice(h)
  <2>1. Sets(h, "save", REFUNDED, job[h].again)
    BY <1>0, <1>1, <1>7, RefundPriceDoes DEF Sent
  <2> QED
    BY <1>2, <1>7, <2>1
<1>8. CASE RefundSoldOut(h)
  <2>1. job[h].customer \in Customers /\ returned \in [Customers -> Nat]
    BY <1>0, <1>8, BusyKnows DEF RefundSoldOut, At, Counted
  <2>2. Sets(h, "save", REFUNDED, TRUE)
    BY <1>0, <1>1, <1>8, <2>1, RefundSoldOutDoes DEF Sent
  <2> QED
    BY <1>2, <1>8, <2>2
<1> QED
  BY <1>3, <1>4, <1>5, <1>6, <1>7, <1>8, ToSave

LEMMA RepaidChange ==
  ASSUME BaseInv, NEW h \in Workers, Handle(h) \/ HandlePayment(h) \/ HandlerStops(h),
         NEW c \in Customers, job[h].customer = c
  PROVE  \/ Repaid(c)' \subseteq Repaid(c)
         \/ RefundPrice(h) /\ Repaid(c)' \subseteq Repaid(c) \cup {job[h].row}
         \/ RefundSoldOut(h) /\ Repaid(c)' \subseteq Repaid(c) \cup {job[h].row}
<1>1. OthersSame(h)
  BY TurnSteps DEF Turn, BaseInv, Counted
<1>2. \A g \in Workers \ {h} : g \in Refunding(c)' => g \in Refunding(c) /\ job'[g] = job[g]
  BY <1>1 DEF Refunding, OthersSame
<1>3. \A g \in Workers \ {h} : g \in Refunding(c)' => job'[g].row \in Repaid(c)
  BY <1>2 DEF Repaid
<1>4. h \in Refunding(c)' =>
        /\ job'[h].row = job[h].row
        /\ h \in Refunding(c) \/ RefundPrice(h) \/ RefundSoldOut(h)
  BY RefundingNext DEF Refunding
<1>5. RowsOf(c, {REFUNDED})' \subseteq Repaid(c)
  BY RefundedRows
<1>6. h \in Refunding(c) => job[h].row \in Repaid(c)
  BY DEF Repaid
<1>7. Repaid(c)' = RowsOf(c, {REFUNDED})' \cup {job'[g].row : g \in Refunding(c)'}
  BY DEF Repaid
<1>8. \A g \in Refunding(c)' : g \in Workers
  BY DEF Refunding
<1>9. CASE h \in Refunding(c)' /\ h \notin Refunding(c)
  <2>1. \A g \in Refunding(c)' : job'[g].row \in Repaid(c) \cup {job[h].row}
    BY <1>3, <1>4, <1>8, <1>9
  <2>2. Repaid(c)' \subseteq Repaid(c) \cup {job[h].row}
    BY <1>5, <1>7, <2>1
  <2> QED
    BY <1>4, <1>9, <2>2
<1>10. CASE h \notin Refunding(c)' \/ h \in Refunding(c)
  <2>1. \A g \in Refunding(c)' : job'[g].row \in Repaid(c)
    BY <1>3, <1>4, <1>6, <1>8, <1>10
  <2> QED
    BY <1>5, <1>7, <2>1
<1> QED
  BY <1>9, <1>10

(* A refund that is not disturbed returns at least the price less the fee. *)
LEMMA RefundReturns ==
  ASSUME BaseInv, NEW h \in Workers, RefundPrice(h) \/ RefundSoldOut(h),
         NEW c \in Customers, job[h].customer = c, disturbances' = disturbances
  PROVE  returned'[c] >= returned[c] + (Price - Fee)
<1>0. /\ JobsTyped /\ Counted /\ returned \in [Customers -> Nat] /\ returned[c] \in Nat
      /\ Price + Fee \in Nat /\ Price - Fee \in Nat /\ Price + Fee >= Price - Fee
      /\ disturbances \in Nat
  BY Money, ItemDropBounds DEF BaseInv, JobInv, Counted
<1>1. ASSUME NEW a \in Nat, a >= Price - Fee, NEW ACTION going, Sent(h, a, going)
      PROVE  returned'[c] >= returned[c] + (Price - Fee)
  <2>1. \/ \E n \in Nat : /\ disturbances' = disturbances + n
                         /\ returned'[c] = returned[c] + (1 + n) * a
        \/ \E n \in Nat : disturbances' = disturbances + 1 + n
        \/ disturbances' = disturbances + 1
    BY <1>0, <1>1, SentTyped
  <2>2. PICK n \in Nat : /\ disturbances' = disturbances + n
                        /\ returned'[c] = returned[c] + (1 + n) * a
    BY <1>0, <2>1
  <2>3. n = 0
    BY <1>0, <2>2
  <2>4. returned'[c] = returned[c] + a
    BY <2>2, <2>3
  <2> QED
    BY <1>0, <1>1, <2>4
<1>2. CASE RefundPrice(h)
  BY <1>0, <1>1, <1>2, RefundPriceDoes
<1>3. CASE RefundSoldOut(h)
  BY <1>0, <1>1, <1>3, RefundSoldOutDoes
<1> QED
  BY <1>2, <1>3

(* Nothing is taken back.                                                  *)
LEMMA ReturnedGrows ==
  ASSUME BaseInv, NEW h \in Workers, Handle(h) \/ HandlePayment(h) \/ HandlerStops(h),
         NEW c \in Customers, job[h].customer = c
  PROVE  returned'[c] >= returned[c]
<1>0. /\ JobInv /\ JobsTyped /\ Counted /\ returned \in [Customers -> Nat]
      /\ returned[c] \in Nat /\ job[h].customer \in Customers
  BY DEF BaseInv, JobInv, Counted
<1>1. ASSUME NEW a \in Nat, NEW ACTION going, Sent(h, a, going)
      PROVE  returned'[c] >= returned[c]
  <2>1. /\ returned' \in [Customers -> Nat]
        /\ returned[c] <= returned'[c]
    BY <1>0, <1>1, SentTyped
  <2> QED
    BY <1>0, <2>1
<1>2. CASE RefundPrice(h)
  BY <1>0, <1>1, <1>2, RefundPriceDoes, Money
<1>3. CASE RefundSoldOut(h)
  BY <1>0, <1>1, <1>3, RefundSoldOutDoes, AmountsTyped
<1>4. CASE ReturnUnderpayment(h)
  BY <1>0, <1>1, <1>4, ReturnUnderpaymentDoes, AmountsTyped DEF At
<1>5. CASE ReturnExcess(h)
  BY <1>0, <1>1, <1>5, ReturnExcessDoes, AmountsTyped DEF At
<1>6. CASE RefundUnsolicited(h)
  BY <1>0, <1>1, <1>6, RefundUnsolicitedDoes, AmountsTyped DEF At
<1>7. CASE FindUnsolicited(h) \/ FindWaiting(h) \/ CoverFee(h) \/ HandlerStops(h)
  <2>1. returned' = returned
    BY <1>7 DEF FindUnsolicited, FindWaiting, CoverFee, HandlerStops, history
  <2> QED
    BY <1>0, <2>1
<1>8. ASSUME Quiet
      PROVE  returned'[c] >= returned[c]
  BY <1>0, <1>8 DEF Quiet, history
<1> QED
  BY <1>2, <1>3, <1>4, <1>5, <1>6, <1>7, <1>8, QuietSteps DEF Handle, HandlePayment

(* They are rows of the table, so finitely many.                           *)
LEMMA RepaidFinite ==
  ASSUME BaseInv, NEW c \in Customers
  PROVE  IsFiniteSet(Repaid(c)) /\ Cardinality(Repaid(c)) \in Nat
<1>1. IsFiniteSet(Rows)
  <2>1. Rows = 1 .. Len(session) /\ Len(session) \in Nat
    BY DEF BaseInv, JobInv, RowsTyped, Rows
  <2> QED
    BY <2>1, FS_Interval
<1>2. \A h \in Refunding(c) : job[h].row \in Rows
  BY BusyKnows DEF BaseInv, Refunding, RowSteps
<1>3. Repaid(c) \subseteq Rows
  BY <1>2 DEF Repaid, RowsOf
<1> QED
  BY <1>1, <1>3, FS_Subset, FS_CardinalityType

(* The books, for a step that adds a refunded session when it pays for it. *)
LEMMA RefundBooks ==
  ASSUME NEW c \in Customers, BaseInv, BaseInv', RefundInv(c), disturbances = 0,
         \/ Repaid(c)' \subseteq Repaid(c) /\ returned'[c] >= returned[c]
         \/ /\ \E i : Repaid(c)' \subseteq Repaid(c) \cup {i}
            /\ returned'[c] >= returned[c] + (Price - Fee)
  PROVE  RefundInv(c)'
<1> DEFINE K == Price - Fee
           n == Cardinality(Repaid(c))
           m == Cardinality(Repaid(c)')
           p == Repaid(c)'
<1>1. /\ K \in Nat
      /\ returned[c] \in Nat /\ returned'[c] \in Nat
  BY Money DEF BaseInv, JobInv, Counted
<1>2. IsFiniteSet(Repaid(c)) /\ n \in Nat
  BY RepaidFinite
<1>3. returned[c] >= K * n
  BY DEF RefundInv
<1>4. CASE p \subseteq Repaid(c) /\ returned'[c] >= returned[c]
  <2>1. m \in Nat /\ m <= n
    BY <1>2, <1>4, NoMore
  <2> HIDE DEF K, n, m
  <2>2. K * m <= K * n /\ K * m \in Nat /\ K * n \in Nat
    BY <1>1, <1>2, <2>1
  <2> DEFINE a == K * m
             b == K * n
  <2>3. returned[c] >= b /\ a <= b /\ a \in Nat /\ b \in Nat
    BY <1>3, <2>2
  <2> HIDE DEF a, b
  <2>4. returned'[c] >= a
    BY <1>1, <1>4, <2>3
  <2> QED
    BY <2>4 DEF RefundInv, K, m, a
<1>5. ASSUME NEW i, p \subseteq Repaid(c) \cup {i}, returned'[c] >= returned[c] + (Price - Fee)
      PROVE  RefundInv(c)'
  <2>1. m \in Nat /\ m <= n + 1
    BY <1>2, <1>5, OneMore
  <2>2. returned'[c] >= returned[c] + K
    BY <1>5
  <2> HIDE DEF K, n, m
  <2>3. K * m <= K * n + K /\ K * m \in Nat /\ K * n \in Nat
    BY <1>1, <1>2, <2>1
  <2> DEFINE a == K * m
             b == K * n
  <2>4. returned[c] >= b /\ a <= b + K /\ a \in Nat /\ b \in Nat
    BY <1>3, <2>3
  <2> HIDE DEF a, b
  <2>5. returned'[c] >= a
    BY <1>1, <2>2, <2>4
  <2> QED
    BY <2>5 DEF RefundInv, K, m, a
<1> QED
  BY <1>4, <1>5

LEMMA RefundElsewhere ==
  ASSUME NEW c \in Customers, BaseInv, BaseInv', RefundInv(c), disturbances = 0,
         NEW h \in Workers, OthersSame(h), job[h].customer # c,
         job'[h].step # "save" \/ job'[h].customer # c,
         RowsOf(c, {REFUNDED})' = RowsOf(c, {REFUNDED}), returned'[c] = returned[c]
  PROVE  RefundInv(c)'
<1>1. \A g \in Refunding(c)' : g \in Refunding(c) /\ job'[g].row = job[g].row
  BY DEF Refunding, OthersSame
<1>2. Repaid(c)' \subseteq Repaid(c)
  BY <1>1 DEF Repaid
<1>3. returned'[c] >= returned[c]
  BY DEF BaseInv, Counted
<1> QED
  BY <1>2, <1>3, RefundBooks

LEMMA RefundHandle ==
  ASSUME NEW c \in Customers, BaseInv, BaseInv', RefundInv(c),
         disturbances = 0, disturbances' = disturbances,
         NEW h \in Workers, Handle(h) \/ HandlePayment(h) \/ HandlerStops(h)
  PROVE  RefundInv(c)'
<1>1. CASE job[h].customer = c
  <2>1. CASE Repaid(c)' \subseteq Repaid(c)
    BY <1>1, <2>1, ReturnedGrows, RefundBooks
  <2>2. CASE /\ RefundPrice(h) \/ RefundSoldOut(h)
             /\ Repaid(c)' \subseteq Repaid(c) \cup {job[h].row}
    BY <1>1, <2>2, RefundReturns, RefundBooks
  <2> QED
    BY <1>1, <2>1, <2>2, RepaidChange
<1>2. CASE job[h].customer # c
  <2>1. OthersSame(h)
    BY TurnSteps DEF Turn, BaseInv, Counted
  <2>2. RowsOf(c, {REFUNDED})' = RowsOf(c, {REFUNDED})
    BY <1>2, RowsChange, RowsElsewhere
  <2>3. job'[h].customer # c
    BY <1>2, StaysOrFinishes, NoCustomerFresh DEF Stays, Finishes, Becomes
  <2>4. returned'[c] = returned[c]
    BY <1>2, OthersMoney
  <2> QED
    BY <1>2, <2>1, <2>2, <2>3, <2>4, RefundElsewhere
<1> QED
  BY <1>1, <1>2

LEMMA RefundReceive ==
  ASSUME NEW c \in Customers, BaseInv, BaseInv', RefundInv(c), disturbances = 0,
         NEW h \in Workers, NEW k \in Customers,
         NEW s \in {"route", "payment"}, NEW a \in Amounts \cup {0}, Receive(h, k, s, a)
  PROVE  RefundInv(c)'
<1>0. JobInv /\ JobsTyped /\ s \in JobSteps
  BY DEF BaseInv, JobInv, JobSteps
<1>1. /\ At(h, "idle") /\ Becomes(h, s, k, NoKey, READY, NoKey, 0, a, FALSE, FALSE)
      /\ UNCHANGED <<rowVars, dropVars, history>>
  BY <1>0, ReceiveDoes
<1>2. OthersSame(h) /\ job'[h].step # "save"
  BY <1>1 DEF Becomes
<1>3. job[h].customer # c
  BY <1>0, <1>1, NoCustomerFresh DEF At, JobInv, HandlerOK, JobOK
<1>4. /\ RowsOf(c, {REFUNDED})' = RowsOf(c, {REFUNDED})
      /\ returned'[c] = returned[c]
  BY <1>1 DEF rowVars, history, RowsOf, Rows
<1> QED
  BY <1>2, <1>3, <1>4, RefundElsewhere

LEMMA RefundStep ==
  ASSUME BaseInv, \A c \in Customers : RefundInv(c), [Next]_vars
  PROVE  \A c \in Customers : RefundInv(c)'
<1> TAKE c \in Customers
<1>0. /\ BaseInv' /\ RefundInv(c)
      /\ disturbances \in Nat /\ disturbances' \in Nat
      /\ disturbances <= disturbances'
  BY BaseStep, DisturbancesGrow
<1>1. CASE disturbances' # 0
  BY <1>1 DEF RefundInv
<1>2. CASE disturbances' = 0
  <2>1. disturbances = 0 /\ disturbances' = disturbances
    BY <1>0, <1>2
  <2>2. ASSUME NEW h \in Workers, NEW k \in Customers,
               \/ Receive(h, k, "route", 0)
               \/ \E a \in Amounts : Receive(h, k, "payment", a)
        PROVE  RefundInv(c)'
    BY <1>0, <2>1, <2>2, RefundReceive
  <2>3. ASSUME NEW h \in Workers, Handle(h) \/ HandlePayment(h) \/ HandlerStops(h)
        PROVE  RefundInv(c)'
    BY <1>0, <2>1, <2>3, RefundHandle
  <2>4. ~Crash
    <3>1. Crash => disturbances' = disturbances + 1
      BY DisturbCounts DEF Crash, BaseInv, Counted
    <3> QED
      BY <1>0, <2>1, <3>1
  <2>5. CASE EditStock \/ EndDrop \/ UNCHANGED vars
    <3>1. UNCHANGED <<session, job, disturbances, returned>>
      BY <2>5, OutsideSteps DEF vars, rowVars, boundVars, history
    <3>2. Repaid(c)' = Repaid(c)
      BY <3>1 DEF Repaid, Refunding, RowsOf, Rows
    <3> QED
      BY <1>0, <3>1, <3>2 DEF RefundInv
  <2> QED
    BY <2>2, <2>3, <2>4, <2>5, Steps
<1> QED
  BY <1>1, <1>2

LEMMA RefundInit ==
  ASSUME Init
  PROVE  \A c \in Customers : RefundInv(c)
<1> TAKE c \in Customers
<1>1. /\ session = <<>> /\ returned[c] = 0
      /\ \A h \in Workers : job[h].step = "idle"
  BY DEF Init, NoJob
<1>2. Repaid(c) = {}
  BY <1>1 DEF Repaid, Refunding, RowsOf, Rows
<1>3. (Price - Fee) * Cardinality(Repaid(c)) = 0
  BY <1>2, FS_EmptySet, Money
<1> QED
  BY <1>1, <1>3 DEF RefundInv

(* While nothing is disturbed every refunded session has had its price     *)
(* returned, less the fee: the refund is sent before the session is saved. *)
THEOREM RefundedIsReturnedHolds == Spec => []RefundedIsReturned
<1> DEFINE AllRepaid == \A c \in Customers : RefundInv(c)
<1>1. BaseInv /\ AllRepaid /\ [Next]_vars => AllRepaid'
  BY RefundStep
<1>2. ASSUME BaseInv, AllRepaid
      PROVE  RefundedIsReturned
  <2> SUFFICES ASSUME disturbances = 0, NEW c \in Customers
               PROVE  returned[c] >= (Price - Fee) * Cardinality(RowsOf(c, {REFUNDED}))
    BY DEF RefundedIsReturned
  <2> DEFINE K == Price - Fee
             n == Cardinality(Repaid(c))
             m == Cardinality(RowsOf(c, {REFUNDED}))
  <2>1. m \in Nat /\ n \in Nat /\ m <= n
    <3>1. RowsOf(c, {REFUNDED}) \subseteq Repaid(c)
      BY DEF Repaid
    <3> QED
      BY <1>2, <3>1, RepaidFinite, NoMore
  <2>2. returned[c] >= K * n /\ returned[c] \in Nat /\ K \in Nat
    BY <1>2, Money DEF RefundInv, BaseInv, Counted
  <2> HIDE DEF K, n, m
  <2>3. K * m <= K * n
    BY <2>1, <2>2
  <2>4. returned[c] >= K * m
    BY <2>1, <2>2, <2>3
  <2> QED
    BY <2>4 DEF K, m
<1>3. Init => AllRepaid
  BY RefundInit
<1> QED
  BY <1>1, <1>2, <1>3, BaseInvariant, PTL DEF Spec
=============================================================================
