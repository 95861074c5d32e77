--------------------------- MODULE AirDropProofs ----------------------------
(***************************************************************************)
(* Proofs about module AirDrop, for any handlers, customers, coins and     *)
(* stocks, and any number of messages and disturbances.                    *)
(*                                                                         *)
(* First what each step does to the job of its handler and to the rows,    *)
(* field by field: lemmas to cite instead of the actions.  Then that where *)
(* a handler stands says what it has done (JobInv), that it stands at a    *)
(* row of its customer (RowInv), where its copy of the row comes from      *)
(* (CopyFrom), and the theorems that follow.                               *)
(***************************************************************************)
EXTENDS AirDrop, SequenceTheorems, TotalsProofs, BonusCoinsProofs

-----------------------------------------------------------------------------
(* What a step does to the job of its handler, field by field. *)

AnyJob ==
  [step : JobSteps, customer : Customers \cup {NoCustomer}, row : Nat,
   state : SessionStates, coin : Coins \cup {NoCoin},
   refunded : BOOLEAN, paid : BOOLEAN, sends : Nat]

JobsTyped == job \in [Workers -> AnyJob]

Becomes(h, step, customer, row, state, its_coin, refunded, paid, sends) ==
  /\ JobsTyped'
  /\ \A g \in Workers \ {h} : job'[g] = job[g]
  /\ job'[h].step = step
  /\ job'[h].customer = customer
  /\ job'[h].row = row
  /\ job'[h].state = state
  /\ job'[h].coin = its_coin
  /\ job'[h].refunded = refunded
  /\ job'[h].paid = paid
  /\ job'[h].sends = sends

Sends(h, state, step) ==
  Becomes(h, step, job[h].customer, job[h].row, state, job[h].coin,
          job[h].refunded, job[h].paid, job[h].sends + 1)

Sets(h, state, step) ==
  Becomes(h, step, job[h].customer, job[h].row, state, job[h].coin,
          job[h].refunded, job[h].paid, job[h].sends)

Moves(h, step) == Sets(h, job[h].state, step)

Finishes(h) ==
  Becomes(h, "idle", NoCustomer, NoRow, READY, NoCoin, FALSE, FALSE, 0)

LEMMA GotoDoes ==
  ASSUME JobsTyped, NEW h \in Workers, NEW s \in JobSteps, Goto(h, s)
  PROVE  Moves(h, s)
BY DEF JobsTyped, AnyJob, Goto, Moves, Sets, Becomes

LEMMA SetStateDoes ==
  ASSUME JobsTyped, NEW h \in Workers, NEW s \in JobSteps,
         NEW state \in SessionStates, SetState(h, state, s)
  PROVE  Sets(h, state, s)
BY DEF JobsTyped, AnyJob, SetState, Sets, Becomes

LEMMA DoneDoes ==
  ASSUME JobsTyped, NEW h \in Workers, Done(h)
  PROVE  Finishes(h)
<1>1. NoJob \in AnyJob
  BY DEF NoJob, AnyJob, JobSteps, SessionStates, NoRow
<1>2. JobsTyped'
  BY <1>1 DEF JobsTyped, Done
<1>3. job'[h] = NoJob /\ \A g \in Workers \ {h} : job'[g] = job[g]
  BY DEF JobsTyped, Done
<1> QED
  BY <1>2, <1>3 DEF Finishes, Becomes, NoJob

(* Something went wrong, or was done twice. *)
Disturbs == \E d \in Nat : d > 0 /\ disturbances' = disturbances + d

LEMMA DisturbDoes == Disturb => Disturbs
BY DEF Disturb, Disturbs

LEMMA AttemptDoes ==
  ASSUME NEW o \in Outcomes, NEW n \in Repeats, Attempt(o, n)
  PROVE  /\ n \in Nat
         /\ n > 0 => Received(o)
         /\ (o = "sent" /\ n = 0) \/ Disturbs
<1>1. n \in Nat
  BY AirDropBounds DEF Repeats
<1>2. ASSUME ~(o = "sent" /\ n = 0)
      PROVE  Disturbs
  <2> DEFINE d == n + (IF o = "sent" THEN 0 ELSE 1)
  <2>1. d \in Nat /\ d > 0 /\ disturbances' = disturbances + d
    BY <1>1, <1>2 DEF Attempt
  <2> HIDE DEF d
  <2> QED
    BY <2>1 DEF Disturbs
<1>3. n > 0 => Received(o)
  BY DEF Attempt, Received
<1> QED
  BY <1>1, <1>2, <1>3

LEMMA SendDoes ==
  ASSUME JobsTyped, NEW h \in Workers, NEW s \in JobSteps, NEW o \in Outcomes,
         NEW n \in Repeats, NEW state \in SessionStates, Send(h, o, n, state, s)
  PROVE  /\ n \in Nat
         /\ n > 0 => Received(o)
         /\ (o = "sent" /\ n = 0) \/ Disturbs
         /\ IF Continues(o) THEN Sends(h, state, s) ELSE Finishes(h)
<1>1. Attempt(o, n)
  BY DEF Send
<1>2. n \in Nat
  BY <1>1, AttemptDoes
<1>3. n > 0 => Received(o)
  BY <1>1, AttemptDoes
<1>4. (o = "sent" /\ n = 0) \/ Disturbs
  BY <1>1, AttemptDoes
<1>5. CASE Continues(o)
  <2>1. Sends(h, state, s)
    BY <1>5 DEF Send, JobsTyped, AnyJob, Sends, Becomes
  <2> QED
    BY <1>2, <1>3, <1>4, <1>5, <2>1
<1>6. CASE ~Continues(o)
  <2>1. Finishes(h)
    BY <1>6, DoneDoes DEF Send
  <2> QED
    BY <1>2, <1>3, <1>4, <1>6, <2>1
<1> QED
  BY <1>5, <1>6

(* RemoveAt of the community modules. *)
LEMMA RemoveAtDoes ==
  ASSUME NEW S, NEW s \in Seq(S), NEW k \in 1 .. Len(s)
  PROVE  /\ RemoveAt(s, k) \in Seq(S)
         /\ Len(RemoveAt(s, k)) = Len(s) - 1
         /\ \A m \in 1 .. k - 1 : RemoveAt(s, k)[m] = s[m]
         /\ \A m \in k .. Len(s) - 1 : RemoveAt(s, k)[m] = s[m + 1]
<1> DEFINE before == SubSeq(s, 1, k - 1)
           after == SubSeq(s, k + 1, Len(s))
<1>1. /\ before \in Seq(S) /\ Len(before) = k - 1
      /\ \A m \in 1 .. k - 1 : before[m] = s[m]
  OBVIOUS
<1>2. /\ after \in Seq(S) /\ Len(after) = Len(s) - k
      /\ \A m \in 1 .. Len(s) - k : after[m] = s[k + m]
  OBVIOUS
<1>3. RemoveAt(s, k) = before \o after
  BY DEF RemoveAt
<1> HIDE DEF before, after
<1>4. /\ RemoveAt(s, k) \in Seq(S)
      /\ Len(RemoveAt(s, k)) = Len(before) + Len(after)
  BY <1>1, <1>2, <1>3, ConcatProperties
<1>5. ASSUME NEW m \in 1 .. k - 1
      PROVE  RemoveAt(s, k)[m] = s[m]
  BY <1>1, <1>2, <1>3
<1>6. ASSUME NEW m \in k .. Len(s) - 1
      PROVE  RemoveAt(s, k)[m] = s[m + 1]
  <2>1. m - Len(before) \in 1 .. Len(s) - k /\ k + (m - Len(before)) = m + 1
    BY <1>1
  <2>2. RemoveAt(s, k)[m] = after[m - Len(before)]
    BY <1>1, <1>2, <1>3, <2>1
  <2> QED
    BY <2>1, <2>2, <1>2
<1> QED
  BY <1>1, <1>2, <1>4, <1>5, <1>6

-----------------------------------------------------------------------------
(* The rows. *)

RowType ==
  [customer : Customers, state : SessionStates, coin : Coins \cup {NoCoin}]

RowsTyped ==
  /\ session \in Seq(RowType)
  /\ recent \in Seq(Rows)
  /\ Len(recent) = Len(session)
  /\ \A i \in Rows : \E k \in Rows : recent[k] = i

(* first() finds a row whenever there is one.                              *)
LEMMA FirstMember ==
  ASSUME RowsTyped, NEW S \in SUBSET Rows, S # {}
  PROVE  First(S) \in S
<1> DEFINE top == {i \in S : \A j \in S : session[j].state <= session[i].state}
           at == {k \in DOMAIN recent : recent[k] \in top}
           T == {n \in 1 .. 11 : \E i \in S : n = session[i].state + 2}
<1>1. \A i \in S : session[i].state \in Int /\ session[i].state + 2 \in 1 .. 11
  <2> TAKE i \in S
  <2>1. session[i] \in RowType
    BY DEF RowsTyped, Rows
  <2>2. session[i].state \in SessionStates
    BY <2>1 DEF RowType
  <2> QED
    BY <2>2
    DEF SessionStates, CANCELLED, READY, WAITING_FOR_PAYMENT,
        ALLOW_CONTACT_REQUESTED, COMPLETED, OUT_OF_STOCK
<1>2. T \in SUBSET (1 .. 11) /\ T # {}
  BY <1>1
<1> HIDE DEF T
<1>3. PICK m \in T : \A n \in T : n <= m
  BY <1>2, GreatestExists
<1>4. PICK i \in S : m = session[i].state + 2
  BY DEF T
<1>5. ASSUME NEW j \in S
      PROVE  session[j].state <= session[i].state
  <2>1. session[j].state + 2 \in T
    BY <1>1 DEF T
  <2>2. session[j].state + 2 <= m
    BY <1>3, <2>1
  <2> QED
    BY <2>2, <1>1, <1>4
<1>6. i \in top
  BY <1>5
<1>7. at # {} /\ at \in SUBSET (1 .. Len(recent)) /\ Len(recent) \in Nat
  <2>1. /\ DOMAIN recent = 1 .. Len(recent) /\ Len(recent) \in Nat
        /\ DOMAIN recent = Rows
    BY DEF RowsTyped, Rows
  <2>2. PICK k \in Rows : recent[k] = i
    BY DEF RowsTyped
  <2>3. k \in at
    BY <2>1, <2>2, <1>6
  <2> QED
    BY <2>1, <2>3
<1> HIDE DEF at
<1>8. PICK k \in at : \A l \in at : l <= k
  BY <1>7, GreatestExists
<1>9. (CHOOSE k_1 \in at : \A l \in at : l <= k_1) \in at
  BY <1>8
<1>10. First(S) = recent[CHOOSE k_1 \in at : \A l \in at : l <= k_1]
  BY DEF First, at
<1> QED
  BY <1>9, <1>10 DEF at

(* What save() does to the rows: one of them becomes the handler's copy,   *)
(* and the last saved.                                                     *)
RowSaved(h) ==
  /\ RowsTyped'
  /\ Rows' = Rows
  /\ \A i \in Rows : session'[i].customer = session[i].customer
  /\ session'[job[h].row].state = job[h].state
  /\ session'[job[h].row].coin = job[h].coin
  /\ \A i \in Rows \ {job[h].row} : session'[i] = session[i]

LEMMA SaveRowDoes ==
  ASSUME JobsTyped, RowsTyped, NEW h \in Workers, job[h].row \in Rows, SaveRow(h)
  PROVE  RowSaved(h)
<1> DEFINE i == job[h].row
           k == CHOOSE k \in DOMAIN recent : recent[k] = i
           rest == RemoveAt(recent, k)
<1>1. job[h].state \in SessionStates /\ job[h].coin \in Coins \cup {NoCoin}
  BY DEF JobsTyped, AnyJob
<1>2. session \in Seq(RowType) /\ i \in 1 .. Len(session)
  BY DEF RowsTyped, Rows
<1>3. session[i].customer \in Customers
  <2>1. session[i] \in RowType
    BY <1>2
  <2> QED
    BY <2>1 DEF RowType
<1> DEFINE r == [customer |-> session[i].customer, state |-> job[h].state,
                 coin |-> job[h].coin]
<1>4. r \in RowType
  BY <1>1, <1>3 DEF RowType
<1>5. session' = [session EXCEPT ![i] = r]
  BY DEF SaveRow
<1> HIDE DEF r
<1>6. /\ session' \in Seq(RowType)
      /\ Len(session') = Len(session)
      /\ session'[i] = r
      /\ \A j \in Rows \ {i} : session'[j] = session[j]
  BY <1>2, <1>4, <1>5 DEF Rows
<1>7. Rows' = Rows /\ Rows = 1 .. Len(session)
  BY <1>2, <1>6 DEF Rows
<1>8. /\ recent \in Seq(Rows) /\ Len(recent) = Len(session)
      /\ DOMAIN recent = Rows /\ Len(session) \in Nat
  BY <1>7 DEF RowsTyped
<1>9. k \in DOMAIN recent /\ recent[k] = i
  BY <1>8 DEF RowsTyped
<1>10. k \in 1 .. Len(recent) /\ i \in Rows
  BY <1>7, <1>8, <1>9
<1>11. recent' = Append(rest, i)
  BY DEF SaveRow
<1> HIDE DEF k
<1>12. /\ rest \in Seq(Rows)
       /\ Len(rest) = Len(recent) - 1
       /\ \A m \in 1 .. k - 1 : rest[m] = recent[m]
       /\ \A m \in k .. Len(recent) - 1 : rest[m] = recent[m + 1]
  BY <1>8, <1>10, RemoveAtDoes
<1> HIDE DEF rest
<1>13. recent' \in Seq(Rows) /\ Len(recent') = Len(recent)
  BY <1>8, <1>10, <1>11, <1>12
<1>14. ASSUME NEW j \in Rows
       PROVE  \E m \in Rows : recent'[m] = j
  <2>1. PICK l \in Rows : recent[l] = j
    BY DEF RowsTyped
  <2>2. CASE l < k
    <3>1. l \in 1 .. k - 1 /\ l \in 1 .. Len(rest)
      <4>1. l \in 1 .. Len(session) /\ k \in 1 .. Len(session)
        BY <1>7, <1>8, <1>10
      <4>2. Len(rest) = Len(session) - 1 /\ Len(session) \in Nat
        BY <1>8, <1>12
      <4> HIDE DEF i
      <4> QED
        BY <4>1, <4>2, <2>2
    <3>2. recent'[l] = rest[l]
      BY <3>1, <1>11, <1>12
    <3> QED
      BY <3>1, <3>2, <2>1, <1>12
  <2>3. CASE l > k
    <3>1. l - 1 \in k .. Len(recent) - 1 /\ l - 1 \in 1 .. Len(rest) /\ l - 1 \in Rows
      BY <2>3, <1>7, <1>8, <1>10, <1>12
    <3>2. recent'[l - 1] = rest[l - 1] /\ rest[l - 1] = recent[l]
      BY <3>1, <1>7, <1>11, <1>12
    <3> QED
      BY <3>1, <3>2, <2>1
  <2>4. CASE l = k
    <3>1. recent'[Len(recent)] = i
      BY <1>11, <1>12, <1>10, <1>8
    <3> QED
      BY <3>1, <2>4, <2>1, <1>9, <1>7, <1>8, <1>10
  <2> QED
    BY <2>2, <2>3, <2>4, <1>7, <1>10
<1>15. RowsTyped'
  BY <1>6, <1>7, <1>8, <1>13, <1>14 DEF RowsTyped
<1> QED
  BY <1>6, <1>7, <1>15, <1>10 DEF RowSaved, r

-----------------------------------------------------------------------------
(* The actions that change nothing of a row, and their lemmas. *)

LEMMA ReceiveDoes ==
  ASSUME JobsTyped, NEW h \in Workers, NEW c \in Customers, NEW s \in JobSteps, Receive(h, c, s)
  PROVE  /\ At(h, "idle")
         /\ Becomes(h, s, c, NoRow, READY, NoCoin, FALSE, FALSE, 0)
         /\ \/ disturbances' = disturbances /\ \A g \in Workers : job[g].customer # c
            \/ Disturbs
         /\ UNCHANGED <<coinVars, rowVars, prefs, open, history>>
BY DisturbDoes DEF Receive, NoJob, NoRow, READY, SessionStates, AnyJob, JobsTyped,
     Becomes

LEMMA DeclineDoes ==
  ASSUME JobsTyped, NEW h \in Workers, Decline(h)
  PROVE  /\ At(h, "new")
         /\ Finishes(h)
         /\ OnlyJob
BY DoneDoes DEF Decline

LEMMA WelcomeDoes ==
  ASSUME JobsTyped, NEW h \in Workers, Welcome(h)
  PROVE  /\ At(h, "new") /\ open
         /\ RowsOf(job[h].customer, SoldStates \cup ErroredStates) = {}
         /\ Moves(h, "quota")
         /\ OnlyJob
BY GotoDoes DEF Welcome, JobSteps

LEMMA RejectDoes ==
  ASSUME JobsTyped, NEW h \in Workers, RejectOverQuota(h)
  PROVE  /\ At(h, "quota")
         /\ Finishes(h)
         /\ OnlyJob
BY DoneDoes DEF RejectOverQuota

LEMMA CheckQuotaDoes ==
  ASSUME JobsTyped, NEW h \in Workers, CheckQuota(h)
  PROVE  /\ At(h, "quota")
         /\ Moves(h, "get") \/ Finishes(h)
         /\ OnlyJob
BY GotoDoes, DoneDoes DEF CheckQuota, JobSteps

LEMMA GetSessionDoes ==
  ASSUME JobsTyped, NEW h \in Workers, GetSession(h)
  PROVE  /\ At(h, "get")
         /\ Moves(h, "create") \/ Finishes(h)
         /\ OnlyJob
BY GotoDoes, DoneDoes DEF GetSession, JobSteps

LEMMA HandleOverQuotaDoes ==
  ASSUME JobsTyped, NEW h \in Workers, HandleOverQuota(h)
  PROVE  /\ At(h, "active")
         /\ Sets(h, OUT_OF_STOCK, "save")
         /\ OnlyJob
BY SetStateDoes DEF HandleOverQuota, JobSteps, SessionStates

LEMMA AnswerReadyDoes ==
  ASSUME JobsTyped, NEW h \in Workers, AnswerReady(h)
  PROVE  /\ At(h, "active") /\ job[h].state = READY
         /\ \/ Sets(h, CANCELLED, "save")
            \/ Moves(h, "offer")
            \/ Moves(h, "save")
         /\ OnlyJob
BY SetStateDoes, GotoDoes DEF AnswerReady, Active, JobSteps, SessionStates

LEMMA OfferDoes ==
  ASSUME JobsTyped, NEW h \in Workers, Offer(h)
  PROVE  /\ At(h, "offer")
         /\ (Started < InitialCoinLimit /\ Moves(h, "initial")) \/ Sets(h, CANCELLED, "save")
         /\ OnlyJob
BY SetStateDoes, GotoDoes DEF Offer, UnderDropQuota, JobSteps, SessionStates

LEMMA ExplainPaymentDoes ==
  ASSUME JobsTyped, NEW h \in Workers, ExplainPayment(h)
  PROVE  /\ At(h, "active")
         /\ Finishes(h)
         /\ OnlyJob
BY DoneDoes DEF ExplainPayment, Active

LEMMA AnswerContactDoes ==
  ASSUME JobsTyped, NEW h \in Workers, AnswerContact(h)
  PROVE  /\ At(h, "active") /\ job[h].state = ALLOW_CONTACT_REQUESTED
         /\ Sets(h, COMPLETED, "save")
         /\ prefs' = prefs \cup {job[h].customer}
         /\ UNCHANGED <<coinVars, rowVars, open, boundVars, history>>
BY SetStateDoes DEF AnswerContact, Active, JobSteps, SessionStates

LEMMA HelpContactDoes ==
  ASSUME JobsTyped, NEW h \in Workers, HelpContact(h)
  PROVE  /\ At(h, "active")
         /\ Finishes(h)
         /\ OnlyJob
BY DoneDoes DEF HelpContact, Active

LEMMA IgnoreFailedDoes ==
  ASSUME JobsTyped, NEW h \in Workers, IgnoreFailed(h)
  PROVE  /\ At(h, "payment")
         /\ Finishes(h)
         /\ OnlyJob
BY DoneDoes DEF IgnoreFailed

LEMMA KeepSmallDoes ==
  ASSUME JobsTyped, NEW h \in Workers, KeepSmall(h)
  PROVE  /\ At(h, "unsolicited")
         /\ Finishes(h)
         /\ OnlyJob
BY DoneDoes DEF KeepSmall

LEMMA FindUnsolicitedDoes ==
  ASSUME JobsTyped, NEW h \in Workers, FindUnsolicited(h)
  PROVE  /\ At(h, "payment")
         /\ Becomes(h, "unsolicited", job[h].customer, job[h].row, job[h].state,
                    job[h].coin, job[h].refunded, TRUE, job[h].sends)
         /\ OnlyJob
BY ZenonT(40) DEF FindUnsolicited, JobSteps, AnyJob, JobsTyped, Becomes

LEMMA RefundUnsolicitedDoes ==
  ASSUME JobsTyped, NEW h \in Workers, RefundUnsolicited(h)
  PROVE  /\ At(h, "unsolicited")
         /\ Sends(h, job[h].state, "end") \/ Finishes(h)
         /\ UNCHANGED <<coinVars, rowVars, prefs, open, messages, history>>
<1>1. job[h].state \in SessionStates
  BY DEF JobsTyped, AnyJob
<1> QED
  BY <1>1, SendDoes DEF RefundUnsolicited, Refund, JobSteps

LEMMA RefundSoldOutDoes ==
  ASSUME JobsTyped, NEW h \in Workers, RefundSoldOut(h)
  PROVE  /\ At(h, "except") /\ ~job[h].refunded
         /\ Sends(h, job[h].state, "end") \/ Finishes(h)
         /\ UNCHANGED <<coinVars, rowVars, prefs, open, messages, history>>
<1>1. job[h].state \in SessionStates
  BY DEF JobsTyped, AnyJob
<1> QED
  BY <1>1, SendDoes DEF RefundSoldOut, Refund, JobSteps

LEMMA CheckFundsDoes ==
  ASSUME JobsTyped, NEW h \in Workers, CheckFunds(h)
  PROVE  /\ At(h, "funds")
         /\ Moves(h, "bonus") \/ Moves(h, "refund_funds")
         /\ OnlyJob
BY GotoDoes DEF CheckFunds, JobSteps

LEMMA LeaveExceptDoes ==
  ASSUME JobsTyped, NEW h \in Workers, LeaveExcept(h)
  PROVE  /\ At(h, "except") /\ job[h].refunded
         /\ Moves(h, "end")
         /\ OnlyJob
BY GotoDoes DEF LeaveExcept, JobSteps

LEMMA HandlerFailsDoes ==
  ASSUME JobsTyped, NEW h \in Workers, HandlerFails(h)
  PROVE  /\ ~At(h, "idle") /\ ~At(h, "claim")
         /\ Finishes(h)
         /\ Disturbs
         /\ UNCHANGED <<coinVars, rowVars, prefs, open, messages, history>>
BY DoneDoes, DisturbDoes DEF HandlerFails, At

LEMMA CheckPreferencesDoes ==
  ASSUME JobsTyped, NEW h \in Workers, CheckPreferences(h)
  PROVE  /\ At(h, "preferences")
         /\ Sets(h, IF job[h].customer \in prefs THEN COMPLETED
                    ELSE ALLOW_CONTACT_REQUESTED, "save")
         /\ OnlyJob
<1>1. /\ (IF job[h].customer \in prefs THEN COMPLETED ELSE ALLOW_CONTACT_REQUESTED)
           \in SessionStates
      /\ "save" \in JobSteps
  BY DEF SessionStates, JobSteps
<1> QED
  BY <1>1, SetStateDoes DEF CheckPreferences

LEMMA EndDoes ==
  ASSUME JobsTyped, NEW h \in Workers, End(h)
  PROVE  /\ At(h, "end")
         /\ Finishes(h)
         /\ job[h].sends # 0 => kept' = kept
         /\ UNCHANGED <<coinVars, rowVars, prefs, open, boundVars, initial, bonus, repeated>>
BY DoneDoes DEF End, Finish

LEMMA TakeNothingDoes ==
  ASSUME JobsTyped, NEW h \in Workers, TakeNothing(h)
  PROVE  /\ At(h, "claim") /\ pc[h] = "out_of_stock"
         /\ Sets(h, OUT_OF_STOCK, "save_sold_out")
         /\ Return(h)
         /\ UNCHANGED <<rowVars, prefs, open, boundVars, history>>
BY SetStateDoes DEF TakeNothing, JobSteps, SessionStates

-----------------------------------------------------------------------------
(* The other actions. *)

LEMMA CreateSessionDoes ==
  ASSUME JobsTyped, RowsTyped, NEW h \in Workers, job[h].customer \in Customers,
         CreateSession(h)
  PROVE  /\ At(h, "create")
         /\ RowsTyped'
         /\ Len(session) + 1 \notin Rows /\ Len(session) + 1 # NoRow
         /\ Rows' = Rows \cup {Len(session) + 1}
         /\ \A i \in Rows : session'[i] = session[i]
         /\ session'[Len(session) + 1] =
              [customer |-> job[h].customer, state |-> READY, coin |-> NoCoin]
         /\ Finishes(h)
         /\ UNCHANGED <<coinVars, prefs, open, boundVars, history>>
<1> DEFINE r == [customer |-> job[h].customer, state |-> READY, coin |-> NoCoin]
           n == Len(session) + 1
<1>1. session \in Seq(RowType) /\ Len(session) \in Nat /\ Rows = 1 .. Len(session)
  BY DEF RowsTyped, Rows
<1>2. r \in RowType
  BY DEF RowType, SessionStates
<1>3. session' = Append(session, r) /\ recent' = Append(recent, n)
  BY DEF CreateSession
<1> HIDE DEF r
<1>4. /\ session' \in Seq(RowType) /\ Len(session') = n /\ session'[n] = r
      /\ \A i \in 1 .. Len(session) : session'[i] = session[i]
  BY <1>1, <1>2, <1>3
<1>5. Rows' = Rows \cup {n} /\ n \notin Rows /\ n # NoRow /\ Rows' = 1 .. n
  BY <1>1, <1>4 DEF Rows, NoRow
<1>6. recent \in Seq(Rows) /\ Len(recent) = Len(session) /\ DOMAIN recent = Rows
  BY <1>1 DEF RowsTyped
<1>7. recent \in Seq(Rows')
  BY <1>1, <1>5, <1>6, SMTT(30)
<1>8. /\ recent' \in Seq(Rows') /\ Len(recent') = n /\ recent'[n] = n
      /\ \A i \in 1 .. Len(session) : recent'[i] = recent[i]
  BY <1>1, <1>3, <1>5, <1>6, <1>7
<1>9. ASSUME NEW i \in Rows'
      PROVE  \E k \in Rows' : recent'[k] = i
  <2>1. CASE i = n
    BY <2>1, <1>5, <1>8
  <2>2. CASE i # n
    <3>1. PICK k \in Rows : recent[k] = i
      BY <2>2, <1>5 DEF RowsTyped
    <3> QED
      BY <3>1, <1>1, <1>5, <1>8
  <2> QED
    BY <2>1, <2>2
<1>10. RowsTyped'
  BY <1>4, <1>8, <1>9 DEF RowsTyped
<1>11. At(h, "create") /\ Finishes(h)
       /\ UNCHANGED <<coinVars, prefs, open, boundVars, history>>
  BY DoneDoes DEF CreateSession
<1> QED
  BY <1>1, <1>4, <1>5, <1>10, <1>11 DEF r

LEMMA RowsOfMember ==
  ASSUME RowsTyped, NEW c, NEW states, NEW i \in RowsOf(c, states)
  PROVE  /\ i \in Rows /\ i \in Nat
         /\ session[i].customer = c
         /\ session[i].state \in states
         /\ session[i] \in RowType
         /\ session[i].state \in SessionStates
         /\ session[i].coin \in Coins \cup {NoCoin}
<1>1. i \in Rows /\ session[i].customer = c /\ session[i].state \in states
  BY DEF RowsOf
<1>2. session[i] \in RowType /\ i \in Nat
  BY <1>1 DEF RowsTyped, Rows
<1> QED
  BY <1>1, <1>2 DEF RowType

(* A handler that takes a copy of a row goes on, and notes the copy.       *)
Noted(g, f, h, i, state, c) ==
  g = [f EXCEPT ![h].row = i, ![h].state = state, ![h].coin = c]

LEMMA NotedDoes ==
  ASSUME NEW f \in [Workers -> AnyJob], NEW h \in Workers, NEW i \in Nat,
         NEW state \in SessionStates, NEW c \in Coins \cup {NoCoin},
         NEW g, Noted(g, f, h, i, state, c)
  PROVE  /\ g \in [Workers -> AnyJob]
         /\ \A v \in Workers \ {h} : g[v] = f[v]
         /\ g[h].step = f[h].step
         /\ g[h].customer = f[h].customer
         /\ g[h].refunded = f[h].refunded
         /\ g[h].paid = f[h].paid
         /\ g[h].sends = f[h].sends
         /\ g[h].row = i /\ g[h].state = state /\ g[h].coin = c
BY ZenonT(40) DEF AnyJob, Noted

GoneOn(h, s) == [job EXCEPT ![h].step = s]
GoneOnPaid(h, s) == [job EXCEPT ![h].step = s, ![h].paid = TRUE]

(* f is job, but that handler h has gone on to a step. *)
Gone(f, h, s, paid) ==
  /\ f \in [Workers -> AnyJob]
  /\ \A g \in Workers \ {h} : f[g] = job[g]
  /\ f[h].step = s
  /\ f[h].customer = job[h].customer
  /\ f[h].refunded = job[h].refunded
  /\ f[h].paid = paid
  /\ f[h].sends = job[h].sends

LEMMA GoneOnDoes ==
  ASSUME JobsTyped, NEW h \in Workers, NEW s \in JobSteps
  PROVE  /\ Gone(GoneOn(h, s), h, s, job[h].paid)
         /\ Gone(GoneOnPaid(h, s), h, s, TRUE)
<1>1. Gone(GoneOn(h, s), h, s, job[h].paid)
  BY DEF JobsTyped, AnyJob, GoneOn, Gone
<1>2. Gone(GoneOnPaid(h, s), h, s, TRUE)
  BY DEF JobsTyped, AnyJob, GoneOnPaid, Gone
<1> QED
  BY <1>1, <1>2

LEMMA CopyDoes ==
  ASSUME JobsTyped, NEW h \in Workers, NEW s \in JobSteps, NEW i \in Nat,
         NEW state \in SessionStates, NEW c \in Coins \cup {NoCoin},
         NEW paid \in BOOLEAN,
         NEW f, Gone(f, h, s, paid), Noted(job', f, h, i, state, c)
  PROVE  Becomes(h, s, job[h].customer, i, state, c, job[h].refunded,
                 paid, job[h].sends)
<1>1. f \in [Workers -> AnyJob]
  BY DEF Gone
<1>2. /\ job' \in [Workers -> AnyJob]
      /\ \A g \in Workers \ {h} : job'[g] = f[g]
      /\ job'[h].step = f[h].step
      /\ job'[h].customer = f[h].customer
      /\ job'[h].refunded = f[h].refunded
      /\ job'[h].paid = f[h].paid
      /\ job'[h].sends = f[h].sends
      /\ job'[h].row = i /\ job'[h].state = state /\ job'[h].coin = c
  BY <1>1, NotedDoes
<1> QED
  BY <1>2 DEF JobsTyped, Becomes, Gone

(* A handler notes the coin it claimed.                                    *)
LEMMA TakeDoes ==
  ASSUME JobsTyped, NEW h \in Workers, NEW s \in JobSteps,
         NEW state \in SessionStates, NEW c \in Coins \cup {NoCoin},
         job' = [job EXCEPT ![h].coin = c, ![h].step = s, ![h].state = state]
  PROVE  Becomes(h, s, job[h].customer, job[h].row, state, c, job[h].refunded,
                 job[h].paid, job[h].sends)
BY ZenonT(40) DEF JobsTyped, AnyJob, Becomes

LEMMA RouteDoes ==
  ASSUME JobsTyped, RowsTyped, NEW h \in Workers, Route(h)
  PROVE  /\ At(h, "route")
         /\ \/ ActiveRows(job[h].customer) = {} /\ Moves(h, "new")
            \/ \E i \in ActiveRows(job[h].customer) :
                 Becomes(h, "active", job[h].customer, i, session[i].state,
                         session[i].coin, job[h].refunded, job[h].paid,
                         job[h].sends)
         /\ OnlyJob
<1> DEFINE rows == ActiveRows(job[h].customer)
<1>1. CASE rows = {}
  <2>1. Goto(h, "new")
    BY <1>1 DEF Route
  <2>2. Moves(h, "new")
    BY <2>1, GotoDoes DEF JobSteps
  <2> QED
    BY <1>1, <2>2 DEF Route
<1>2. CASE rows # {}
  <2>1. rows = RowsOf(job[h].customer, ActiveStates) /\ rows \in SUBSET Rows
    BY <1>2 DEF ActiveRows, RowsOf
  <2>2. First(rows) \in rows
    BY <2>1, <1>2, FirstMember
  <2> DEFINE i == First(rows)
  <2>3. /\ i \in Nat /\ session[i].state \in SessionStates
        /\ session[i].coin \in Coins \cup {NoCoin}
    BY <2>1, <2>2, RowsOfMember
  <2>4. Noted(job', GoneOn(h, "active"), h, i, session[i].state, session[i].coin)
    BY <1>2 DEF Route, Noted, GoneOn
  <2> HIDE DEF i
  <2>5. Becomes(h, "active", job[h].customer, i, session[i].state,
                session[i].coin, job[h].refunded, job[h].paid, job[h].sends)
    <3>1. job[h].paid \in BOOLEAN /\ "active" \in JobSteps
      BY DEF JobsTyped, AnyJob, JobSteps
    <3> QED
      BY <3>1, <2>3, <2>4, GoneOnDoes, CopyDoes
  <2>6. \E i_1 \in rows :
          Becomes(h, "active", job[h].customer, i_1, session[i_1].state,
                  session[i_1].coin, job[h].refunded, job[h].paid, job[h].sends)
    BY <2>2, <2>5 DEF i
  <2> QED
    BY <2>6 DEF Route
<1> QED
  BY <1>1, <1>2

LEMMA FindWaitingDoes ==
  ASSUME JobsTyped, RowsTyped, NEW h \in Workers, FindWaiting(h)
  PROVE  /\ At(h, "payment")
         /\ \E i \in WaitingRows(job[h].customer) :
              Becomes(h, "claim", job[h].customer, i, session[i].state,
                      session[i].coin, job[h].refunded, TRUE, job[h].sends)
         /\ Call(h)
         /\ UNCHANGED <<rowVars, prefs, open, boundVars, history>>
<1> DEFINE rows == WaitingRows(job[h].customer)
           i == First(rows)
<1>1. rows # {} /\ rows = RowsOf(job[h].customer, {WAITING_FOR_PAYMENT})
      /\ rows \in SUBSET Rows
  BY DEF FindWaiting, WaitingRows, RowsOf
<1>2. First(rows) \in rows
  BY <1>1, FirstMember
<1>3. /\ i \in Nat /\ session[i].state \in SessionStates
      /\ session[i].coin \in Coins \cup {NoCoin}
  BY <1>1, <1>2, RowsOfMember
<1>4. Noted(job', GoneOnPaid(h, "claim"), h, i, session[i].state, session[i].coin)
  BY DEF FindWaiting, Noted, GoneOnPaid
<1> HIDE DEF i
<1>5. Becomes(h, "claim", job[h].customer, i, session[i].state,
              session[i].coin, job[h].refunded, TRUE, job[h].sends)
  <2>1. TRUE \in BOOLEAN /\ "claim" \in JobSteps
    BY DEF JobSteps
  <2> QED
    BY <2>1, <1>3, <1>4, GoneOnDoes, CopyDoes
<1>6. \E i_1 \in rows :
        Becomes(h, "claim", job[h].customer, i_1, session[i_1].state,
                session[i_1].coin, job[h].refunded, TRUE, job[h].sends)
  BY <1>2, <1>5 DEF i
<1> QED
  BY <1>6 DEF FindWaiting

LEMMA RefundFundsDoes ==
  ASSUME JobsTyped, NEW h \in Workers, RefundFunds(h)
  PROVE  /\ At(h, "refund_funds")
         /\ \/ Becomes(h, "except", job[h].customer, job[h].row, job[h].state,
                       job[h].coin, TRUE, job[h].paid, job[h].sends + 1)
            \/ Finishes(h)
         /\ UNCHANGED <<coinVars, rowVars, prefs, open, messages, history>>
<1>1. PICK o \in Outcomes, n \in Repeats :
        IF Continues(o)
        THEN job' = [job EXCEPT ![h].sends = @ + 1, ![h].refunded = TRUE,
                                ![h].step = "except"]
        ELSE Done(h)
  BY DEF RefundFunds
<1>2. CASE Continues(o)
  <2>1. Becomes(h, "except", job[h].customer, job[h].row, job[h].state,
                job[h].coin, TRUE, job[h].paid, job[h].sends + 1)
    BY <1>1, <1>2 DEF JobsTyped, AnyJob, JobSteps, Becomes
  <2> QED
    BY <1>1, <2>1 DEF RefundFunds
<1>3. CASE ~Continues(o)
  BY <1>1, <1>3, DoneDoes DEF RefundFunds
<1> QED
  BY <1>2, <1>3

LEMMA SendInitialDoes ==
  ASSUME JobsTyped, NEW h \in Workers, SendInitial(h)
  PROVE  /\ At(h, "initial")
         /\ Sends(h, WAITING_FOR_PAYMENT, "save") \/ Finishes(h)
         /\ \E n \in Nat :
              /\ initial' \in {initial, [initial EXCEPT ![job[h].customer] = @ + 1 + n]}
              /\ \/ Disturbs
                 \/ /\ Sends(h, WAITING_FOR_PAYMENT, "save")
                    /\ n = 0
                    /\ initial' = [initial EXCEPT ![job[h].customer] = @ + 1 + n]
         /\ UNCHANGED <<coinVars, rowVars, prefs, open, messages, bonus, repeated, kept>>
<1>1. PICK o \in Outcomes, n \in Repeats :
        /\ Send(h, o, n, WAITING_FOR_PAYMENT, "save")
        /\ initial' = Pay(initial, h, o, n)
  BY DEF SendInitial
<1>2. /\ n \in Nat
      /\ (o = "sent" /\ n = 0) \/ Disturbs
      /\ IF Continues(o) THEN Sends(h, WAITING_FOR_PAYMENT, "save") ELSE Finishes(h)
  BY <1>1, SendDoes DEF JobSteps, SessionStates
<1>3. initial' \in {initial, [initial EXCEPT ![job[h].customer] = @ + 1 + n]}
  BY <1>1 DEF Pay
<1>4. \/ Disturbs
      \/ /\ Sends(h, WAITING_FOR_PAYMENT, "save")
         /\ n = 0
         /\ initial' = [initial EXCEPT ![job[h].customer] = @ + 1 + n]
  BY <1>1, <1>2 DEF Pay, Received, Continues
<1> QED
  BY <1>2, <1>3, <1>4 DEF SendInitial

LEMMA SendBonusDoes ==
  ASSUME JobsTyped, NEW h \in Workers, SendBonus(h)
  PROVE  /\ At(h, "bonus")
         /\ Sends(h, job[h].state, "preferences") \/ Finishes(h)
         /\ \E n \in Nat :
              /\ bonus' \in {bonus, [bonus EXCEPT ![job[h].customer] = @ + 1 + n]}
              /\ repeated' = repeated + n
              /\ \/ Disturbs
                 \/ /\ Sends(h, job[h].state, "preferences")
                    /\ n = 0
                    /\ bonus' = [bonus EXCEPT ![job[h].customer] = @ + 1 + n]
         /\ UNCHANGED <<coinVars, rowVars, prefs, open, messages, initial, kept>>
<1>1. PICK o \in Outcomes, n \in Repeats :
        /\ Send(h, o, n, job[h].state, "preferences")
        /\ bonus' = Pay(bonus, h, o, n)
        /\ repeated' = repeated + n
  BY DEF SendBonus
<1>2. job[h].state \in SessionStates /\ "preferences" \in JobSteps
  BY DEF JobSteps, JobsTyped, AnyJob
<1>3. /\ n \in Nat
      /\ (o = "sent" /\ n = 0) \/ Disturbs
      /\ IF Continues(o) THEN Sends(h, job[h].state, "preferences") ELSE Finishes(h)
  BY <1>1, <1>2, SendDoes
<1>4. bonus' \in {bonus, [bonus EXCEPT ![job[h].customer] = @ + 1 + n]}
  BY <1>1 DEF Pay
<1>5. \/ Disturbs
      \/ /\ Sends(h, job[h].state, "preferences")
         /\ n = 0
         /\ bonus' = [bonus EXCEPT ![job[h].customer] = @ + 1 + n]
  BY <1>1, <1>3 DEF Pay, Received, Continues
<1> QED
  BY <1>1, <1>3, <1>4, <1>5 DEF SendBonus

LEMMA TakeCoinDoes ==
  ASSUME JobsTyped, TypeOK, NEW h \in Workers, TakeCoin(h)
  PROVE  /\ At(h, "claim") /\ pc[h] = "claimed" /\ coin[h] \in Coins
         /\ Becomes(h, "save_coin", job[h].customer, job[h].row,
                    ALLOW_CONTACT_REQUESTED, coin[h], job[h].refunded,
                    job[h].paid, job[h].sends)
         /\ Return(h)
         /\ UNCHANGED <<rowVars, prefs, open, boundVars, history>>
<1>1. pc[h] = "claimed" /\ coin[h] \in Coins
  BY DEF TakeCoin, TypeOK
<1>2. job' = [job EXCEPT ![h].coin = coin[h], ![h].step = "save_coin",
                         ![h].state = ALLOW_CONTACT_REQUESTED]
  BY DEF TakeCoin
<1>3. Becomes(h, "save_coin", job[h].customer, job[h].row,
              ALLOW_CONTACT_REQUESTED, coin[h], job[h].refunded,
              job[h].paid, job[h].sends)
  BY <1>1, <1>2, TakeDoes DEF JobSteps, SessionStates
<1> QED
  BY <1>1, <1>3 DEF TakeCoin

LEMMA SaveClaimDoes ==
  ASSUME JobsTyped, RowsTyped, NEW h \in Workers, job[h].row \in Rows,
         NEW from, NEW to \in JobSteps, SaveClaim(h, from, to)
  PROVE  /\ At(h, from)
         /\ RowSaved(h)
         /\ Moves(h, to)
         /\ UNCHANGED <<coinVars, prefs, open, boundVars, history>>
BY SaveRowDoes, GotoDoes DEF SaveClaim

LEMMA SaveDoes ==
  ASSUME JobsTyped, RowsTyped, NEW h \in Workers, job[h].row \in Rows, Save(h)
  PROVE  /\ At(h, "save")
         /\ RowSaved(h)
         /\ Finishes(h)
         /\ (job[h].paid /\ job[h].sends = 0) \/ kept' = kept
         /\ UNCHANGED <<coinVars, prefs, open, boundVars, initial, bonus, repeated>>
BY SaveRowDoes, DoneDoes DEF Save, Finish

-----------------------------------------------------------------------------
(* Where a handler stands says what it has done. *)

ChatSteps ==
  {"route", "new", "quota", "get", "create", "active", "offer", "initial"}

(* The steps of a handler that has claimed a coin. *)
SellSteps == {"save_coin", "funds", "refund_funds", "bonus", "preferences"}

(* The steps of a handler that has a copy of a row. *)
RowSteps ==
  {"active", "offer", "initial", "save", "claim", "save_sold_out", "except"}
  \cup SellSteps

JobOK(j) ==
  /\ j.step = "idle" <=> j.customer = NoCustomer
  /\ j.step \in ChatSteps \cup {"idle", "payment"} => ~j.paid
  /\ j.step \notin {"save", "except", "preferences", "end"} => j.sends = 0
  /\ j.step = "save" => j.sends <= 1 /\ (j.paid => j.sends = 1)
  /\ j.step = "except" => j.sends = (IF j.refunded THEN 1 ELSE 0)
  /\ j.refunded => j.step \in {"except", "end"}
  /\ j.step \in {"preferences", "end"} => j.sends = 1
  /\ j.step \in {"offer", "initial"} => j.state = READY
  /\ j.step = "claim" => j.state = WAITING_FOR_PAYMENT
  /\ j.step \in SellSteps =>
       j.state = ALLOW_CONTACT_REQUESTED /\ j.coin \in Coins
  /\ j.step = "save_sold_out" => j.state = OUT_OF_STOCK

(* The handlers' locals. *)
JobInv == JobsTyped /\ \A h \in Workers : JobOK(job[h])

(* A handler with a copy of a row has it of a row of its customer, and     *)
(* only a handler that answers a payment claims a coin.                    *)
RowOK(h) ==
  /\ job[h].row \in Rows \cup {NoRow}
  /\ job[h].step \in RowSteps =>
       job[h].row \in Rows /\ session[job[h].row].customer = job[h].customer
  /\ pc[h] # "idle" <=> At(h, "claim")

RowInv == \A h \in Workers : RowOK(h)

(* Only the job of one handler changes. *)
LEMMA JobKept ==
  ASSUME JobInv, NEW h \in Workers, JobsTyped', JobOK(job'[h]),
         \A g \in Workers \ {h} : job'[g] = job[g]
  PROVE  JobInv'
BY DEF JobInv

LEMMA CustomerKnown ==
  ASSUME JobInv, NEW h \in Workers, ~At(h, "idle")
  PROVE  job[h].customer \in Customers
BY DEF JobInv, JobsTyped, AnyJob, JobOK, At

LEMMA RowKnown ==
  ASSUME RowInv, NEW h \in Workers, job[h].step \in RowSteps
  PROVE  job[h].row \in Rows /\ session[job[h].row].customer = job[h].customer
BY DEF RowInv, RowOK

LEMMA NoJobOK == NoJob \in AnyJob /\ JobOK(NoJob)
BY NoCustomerFresh
   DEF NoJob, AnyJob, JobSteps, SessionStates, NoRow, JobOK, ChatSteps, SellSteps

(* Every step leaves the handlers' locals in order. *)
LEMMA JobStep ==
  ASSUME TypeOK, RowsTyped, JobInv, RowInv, [AirNext]_airVars
  PROVE  JobInv'
<1>0. JobsTyped /\ \A h \in Workers : JobOK(job[h])
  BY DEF JobInv
<1>1. CASE UNCHANGED airVars
  BY <1>1 DEF airVars, JobInv, JobsTyped
<1>2. ASSUME NEW h \in Workers, NEW c \in Customers, ReceiveChat(h, c)
      PROVE  JobInv'
  <2>0. "route" \in JobSteps
    BY DEF JobSteps
  <2>1. /\ At(h, "idle")
        /\ Becomes(h, "route", c, NoRow, READY, NoCoin, FALSE, FALSE, 0)
    BY <1>2, <1>0, <2>0, ReceiveDoes DEF ReceiveChat
  <2>2. JobsTyped' /\ \A g \in Workers \ {h} : job'[g] = job[g]
    BY <2>1 DEF Moves, Sets, Sends, Finishes, Becomes
  <2>3. JobOK(job'[h])
    BY <2>1, <1>0, NoCustomerFresh
    DEF At, Moves, Sets, Sends, Finishes, Becomes, JobOK, ChatSteps, SellSteps
  <2> QED
    BY <2>2, <2>3, JobKept
<1>3. ASSUME NEW h \in Workers, NEW c \in Customers, ReceivePayment(h, c)
      PROVE  JobInv'
  <2>0. "payment" \in JobSteps
    BY DEF JobSteps
  <2>1. /\ At(h, "idle")
        /\ Becomes(h, "payment", c, NoRow, READY, NoCoin, FALSE, FALSE, 0)
    BY <1>3, <1>0, <2>0, ReceiveDoes DEF ReceivePayment
  <2>2. JobsTyped' /\ \A g \in Workers \ {h} : job'[g] = job[g]
    BY <2>1 DEF Moves, Sets, Sends, Finishes, Becomes
  <2>3. JobOK(job'[h])
    BY <2>1, <1>0, NoCustomerFresh
    DEF At, Moves, Sets, Sends, Finishes, Becomes, JobOK, ChatSteps, SellSteps
  <2> QED
    BY <2>2, <2>3, JobKept
<1>4. ASSUME NEW h \in Workers, Route(h)
      PROVE  JobInv'
  <2>1. /\ At(h, "route")
        /\ \/ Moves(h, "new")
           \/ \E i \in Nat, state \in SessionStates, its \in Coins \cup {NoCoin} :
                Becomes(h, "active", job[h].customer, i, state, its, job[h].refunded,
                        job[h].paid, job[h].sends)
    BY <1>4, <1>0, RowsOfMember, RouteDoes DEF ActiveRows
  <2>2. JobsTyped' /\ \A g \in Workers \ {h} : job'[g] = job[g]
    BY <2>1 DEF Moves, Sets, Sends, Finishes, Becomes
  <2>3. JobOK(job'[h])
    BY <2>1, <1>0
    DEF At, Moves, Sets, Sends, Finishes, Becomes, JobOK, ChatSteps, SellSteps
  <2> QED
    BY <2>2, <2>3, JobKept
<1>5. ASSUME NEW h \in Workers, Decline(h)
      PROVE  JobInv'
  <2>1. /\ At(h, "new")
        /\ Finishes(h)
    BY <1>5, <1>0, DeclineDoes
  <2>2. JobsTyped' /\ \A g \in Workers \ {h} : job'[g] = job[g]
    BY <2>1 DEF Moves, Sets, Sends, Finishes, Becomes
  <2>3. JobOK(job'[h])
    BY <2>1, <1>0
    DEF At, Moves, Sets, Sends, Finishes, Becomes, JobOK, ChatSteps, SellSteps
  <2> QED
    BY <2>2, <2>3, JobKept
<1>6. ASSUME NEW h \in Workers, Welcome(h)
      PROVE  JobInv'
  <2>1. /\ At(h, "new")
        /\ Moves(h, "quota")
    BY <1>6, <1>0, WelcomeDoes
  <2>2. JobsTyped' /\ \A g \in Workers \ {h} : job'[g] = job[g]
    BY <2>1 DEF Moves, Sets, Sends, Finishes, Becomes
  <2>3. JobOK(job'[h])
    BY <2>1, <1>0
    DEF At, Moves, Sets, Sends, Finishes, Becomes, JobOK, ChatSteps, SellSteps
  <2> QED
    BY <2>2, <2>3, JobKept
<1>7. ASSUME NEW h \in Workers, RejectOverQuota(h)
      PROVE  JobInv'
  <2>1. /\ At(h, "quota")
        /\ Finishes(h)
    BY <1>7, <1>0, RejectDoes
  <2>2. JobsTyped' /\ \A g \in Workers \ {h} : job'[g] = job[g]
    BY <2>1 DEF Moves, Sets, Sends, Finishes, Becomes
  <2>3. JobOK(job'[h])
    BY <2>1, <1>0
    DEF At, Moves, Sets, Sends, Finishes, Becomes, JobOK, ChatSteps, SellSteps
  <2> QED
    BY <2>2, <2>3, JobKept
<1>8. ASSUME NEW h \in Workers, CheckQuota(h)
      PROVE  JobInv'
  <2>1. /\ At(h, "quota")
        /\ Moves(h, "get") \/ Finishes(h)
    BY <1>8, <1>0, CheckQuotaDoes
  <2>2. JobsTyped' /\ \A g \in Workers \ {h} : job'[g] = job[g]
    BY <2>1 DEF Moves, Sets, Sends, Finishes, Becomes
  <2>3. JobOK(job'[h])
    BY <2>1, <1>0
    DEF At, Moves, Sets, Sends, Finishes, Becomes, JobOK, ChatSteps, SellSteps
  <2> QED
    BY <2>2, <2>3, JobKept
<1>9. ASSUME NEW h \in Workers, GetSession(h)
      PROVE  JobInv'
  <2>1. /\ At(h, "get")
        /\ Moves(h, "create") \/ Finishes(h)
    BY <1>9, <1>0, GetSessionDoes
  <2>2. JobsTyped' /\ \A g \in Workers \ {h} : job'[g] = job[g]
    BY <2>1 DEF Moves, Sets, Sends, Finishes, Becomes
  <2>3. JobOK(job'[h])
    BY <2>1, <1>0
    DEF At, Moves, Sets, Sends, Finishes, Becomes, JobOK, ChatSteps, SellSteps
  <2> QED
    BY <2>2, <2>3, JobKept
<1>10. ASSUME NEW h \in Workers, CreateSession(h)
       PROVE  JobInv'
  <2>0. job[h].customer \in Customers
    BY <1>10, CustomerKnown DEF CreateSession, At
  <2>1. /\ At(h, "create")
        /\ Finishes(h)
    BY <1>10, <1>0, <2>0, CreateSessionDoes
  <2>2. JobsTyped' /\ \A g \in Workers \ {h} : job'[g] = job[g]
    BY <2>1 DEF Moves, Sets, Sends, Finishes, Becomes
  <2>3. JobOK(job'[h])
    BY <2>1, <1>0
    DEF At, Moves, Sets, Sends, Finishes, Becomes, JobOK, ChatSteps, SellSteps
  <2> QED
    BY <2>2, <2>3, JobKept
<1>11. ASSUME NEW h \in Workers, HandleOverQuota(h)
       PROVE  JobInv'
  <2>1. /\ At(h, "active")
        /\ Sets(h, OUT_OF_STOCK, "save")
    BY <1>11, <1>0, HandleOverQuotaDoes
  <2>2. JobsTyped' /\ \A g \in Workers \ {h} : job'[g] = job[g]
    BY <2>1 DEF Moves, Sets, Sends, Finishes, Becomes
  <2>3. JobOK(job'[h])
    BY <2>1, <1>0
    DEF At, Moves, Sets, Sends, Finishes, Becomes, JobOK, ChatSteps, SellSteps
  <2> QED
    BY <2>2, <2>3, JobKept
<1>12. ASSUME NEW h \in Workers, AnswerReady(h)
       PROVE  JobInv'
  <2>1. /\ At(h, "active") /\ job[h].state = READY
        /\ \/ Sets(h, CANCELLED, "save")
           \/ Moves(h, "offer")
           \/ Moves(h, "save")
    BY <1>12, <1>0, AnswerReadyDoes
  <2>2. JobsTyped' /\ \A g \in Workers \ {h} : job'[g] = job[g]
    BY <2>1 DEF Moves, Sets, Sends, Finishes, Becomes
  <2>3. JobOK(job'[h])
    BY <2>1, <1>0
    DEF At, Moves, Sets, Sends, Finishes, Becomes, JobOK, ChatSteps, SellSteps
  <2> QED
    BY <2>2, <2>3, JobKept
<1>13. ASSUME NEW h \in Workers, Offer(h)
       PROVE  JobInv'
  <2>1. /\ At(h, "offer")
        /\ Moves(h, "initial") \/ Sets(h, CANCELLED, "save")
    BY <1>13, <1>0, OfferDoes
  <2>2. JobsTyped' /\ \A g \in Workers \ {h} : job'[g] = job[g]
    BY <2>1 DEF Moves, Sets, Sends, Finishes, Becomes
  <2>3. JobOK(job'[h])
    BY <2>1, <1>0
    DEF At, Moves, Sets, Sends, Finishes, Becomes, JobOK, ChatSteps, SellSteps
  <2> QED
    BY <2>2, <2>3, JobKept
<1>14. ASSUME NEW h \in Workers, SendInitial(h)
       PROVE  JobInv'
  <2>1. /\ At(h, "initial")
        /\ Sends(h, WAITING_FOR_PAYMENT, "save") \/ Finishes(h)
    BY <1>14, <1>0, SendInitialDoes
  <2>2. JobsTyped' /\ \A g \in Workers \ {h} : job'[g] = job[g]
    BY <2>1 DEF Moves, Sets, Sends, Finishes, Becomes
  <2>3. JobOK(job'[h])
    BY <2>1, <1>0
    DEF At, Moves, Sets, Sends, Finishes, Becomes, JobOK, ChatSteps, SellSteps
  <2> QED
    BY <2>2, <2>3, JobKept
<1>15. ASSUME NEW h \in Workers, ExplainPayment(h)
       PROVE  JobInv'
  <2>1. /\ At(h, "active")
        /\ Finishes(h)
    BY <1>15, <1>0, ExplainPaymentDoes
  <2>2. JobsTyped' /\ \A g \in Workers \ {h} : job'[g] = job[g]
    BY <2>1 DEF Moves, Sets, Sends, Finishes, Becomes
  <2>3. JobOK(job'[h])
    BY <2>1, <1>0
    DEF At, Moves, Sets, Sends, Finishes, Becomes, JobOK, ChatSteps, SellSteps
  <2> QED
    BY <2>2, <2>3, JobKept
<1>16. ASSUME NEW h \in Workers, AnswerContact(h)
       PROVE  JobInv'
  <2>1. /\ At(h, "active") /\ job[h].state = ALLOW_CONTACT_REQUESTED
        /\ Sets(h, COMPLETED, "save")
    BY <1>16, <1>0, AnswerContactDoes
  <2>2. JobsTyped' /\ \A g \in Workers \ {h} : job'[g] = job[g]
    BY <2>1 DEF Moves, Sets, Sends, Finishes, Becomes
  <2>3. JobOK(job'[h])
    BY <2>1, <1>0
    DEF At, Moves, Sets, Sends, Finishes, Becomes, JobOK, ChatSteps, SellSteps
  <2> QED
    BY <2>2, <2>3, JobKept
<1>17. ASSUME NEW h \in Workers, HelpContact(h)
       PROVE  JobInv'
  <2>1. /\ At(h, "active")
        /\ Finishes(h)
    BY <1>17, <1>0, HelpContactDoes
  <2>2. JobsTyped' /\ \A g \in Workers \ {h} : job'[g] = job[g]
    BY <2>1 DEF Moves, Sets, Sends, Finishes, Becomes
  <2>3. JobOK(job'[h])
    BY <2>1, <1>0
    DEF At, Moves, Sets, Sends, Finishes, Becomes, JobOK, ChatSteps, SellSteps
  <2> QED
    BY <2>2, <2>3, JobKept
<1>18. ASSUME NEW h \in Workers, Save(h)
       PROVE  JobInv'
  <2>0. job[h].row \in Rows
    BY <1>18, RowKnown DEF Save, At, RowSteps
  <2>1. /\ At(h, "save")
        /\ Finishes(h)
    BY <1>18, <1>0, <2>0, SaveDoes
  <2>2. JobsTyped' /\ \A g \in Workers \ {h} : job'[g] = job[g]
    BY <2>1 DEF Moves, Sets, Sends, Finishes, Becomes
  <2>3. JobOK(job'[h])
    BY <2>1, <1>0
    DEF At, Moves, Sets, Sends, Finishes, Becomes, JobOK, ChatSteps, SellSteps
  <2> QED
    BY <2>2, <2>3, JobKept
<1>19. ASSUME NEW h \in Workers, IgnoreFailed(h)
       PROVE  JobInv'
  <2>1. /\ At(h, "payment")
        /\ Finishes(h)
    BY <1>19, <1>0, IgnoreFailedDoes
  <2>2. JobsTyped' /\ \A g \in Workers \ {h} : job'[g] = job[g]
    BY <2>1 DEF Moves, Sets, Sends, Finishes, Becomes
  <2>3. JobOK(job'[h])
    BY <2>1, <1>0
    DEF At, Moves, Sets, Sends, Finishes, Becomes, JobOK, ChatSteps, SellSteps
  <2> QED
    BY <2>2, <2>3, JobKept
<1>20. ASSUME NEW h \in Workers, FindUnsolicited(h)
       PROVE  JobInv'
  <2>1. /\ At(h, "payment")
        /\ Becomes(h, "unsolicited", job[h].customer, job[h].row, job[h].state,
                   job[h].coin, job[h].refunded, TRUE, job[h].sends)
    BY <1>20, <1>0, FindUnsolicitedDoes
  <2>2. JobsTyped' /\ \A g \in Workers \ {h} : job'[g] = job[g]
    BY <2>1 DEF Moves, Sets, Sends, Finishes, Becomes
  <2>3. JobOK(job'[h])
    BY <2>1, <1>0
    DEF At, Moves, Sets, Sends, Finishes, Becomes, JobOK, ChatSteps, SellSteps
  <2> QED
    BY <2>2, <2>3, JobKept
<1>21. ASSUME NEW h \in Workers, FindWaiting(h)
       PROVE  JobInv'
  <2>1. /\ At(h, "payment")
        /\ \E i \in Nat, its \in Coins \cup {NoCoin} :
             Becomes(h, "claim", job[h].customer, i, WAITING_FOR_PAYMENT,
                     its, job[h].refunded, TRUE, job[h].sends)
    <3>1. PICK i \in WaitingRows(job[h].customer) :
            Becomes(h, "claim", job[h].customer, i, session[i].state,
                    session[i].coin, job[h].refunded, TRUE, job[h].sends)
      BY <1>21, <1>0, FindWaitingDoes
    <3>2. /\ i \in Nat /\ session[i].state = WAITING_FOR_PAYMENT
          /\ session[i].coin \in Coins \cup {NoCoin}
      BY RowsOfMember DEF WaitingRows
    <3> QED
      BY <1>21, <1>0, <3>1, <3>2, FindWaitingDoes
  <2>2. JobsTyped' /\ \A g \in Workers \ {h} : job'[g] = job[g]
    BY <2>1 DEF Moves, Sets, Sends, Finishes, Becomes
  <2>3. JobOK(job'[h])
    BY <2>1, <1>0
    DEF At, Moves, Sets, Sends, Finishes, Becomes, JobOK, ChatSteps, SellSteps
  <2> QED
    BY <2>2, <2>3, JobKept
<1>22. ASSUME NEW h \in Workers, RefundUnsolicited(h)
       PROVE  JobInv'
  <2>1. /\ At(h, "unsolicited")
        /\ Sends(h, job[h].state, "end") \/ Finishes(h)
    BY <1>22, <1>0, RefundUnsolicitedDoes
  <2>2. JobsTyped' /\ \A g \in Workers \ {h} : job'[g] = job[g]
    BY <2>1 DEF Moves, Sets, Sends, Finishes, Becomes
  <2>3. JobOK(job'[h])
    BY <2>1, <1>0
    DEF At, Moves, Sets, Sends, Finishes, Becomes, JobOK, ChatSteps, SellSteps
  <2> QED
    BY <2>2, <2>3, JobKept
<1>23. ASSUME NEW h \in Workers, KeepSmall(h)
       PROVE  JobInv'
  <2>1. /\ At(h, "unsolicited")
        /\ Finishes(h)
    BY <1>23, <1>0, KeepSmallDoes
  <2>2. JobsTyped' /\ \A g \in Workers \ {h} : job'[g] = job[g]
    BY <2>1 DEF Moves, Sets, Sends, Finishes, Becomes
  <2>3. JobOK(job'[h])
    BY <2>1, <1>0
    DEF At, Moves, Sets, Sends, Finishes, Becomes, JobOK, ChatSteps, SellSteps
  <2> QED
    BY <2>2, <2>3, JobKept
<1>24. ASSUME NEW h \in Workers, Claim(h)
       PROVE  JobInv'
  BY <1>24, <1>0 DEF Claim, JobInv, JobsTyped
<1>25. ASSUME NEW h \in Workers, TakeCoin(h)
       PROVE  JobInv'
  <2>1. /\ At(h, "claim") /\ coin[h] \in Coins
        /\ Becomes(h, "save_coin", job[h].customer, job[h].row,
                   ALLOW_CONTACT_REQUESTED, coin[h], job[h].refunded, job[h].paid, job[h].sends)
    BY <1>25, <1>0, TakeCoinDoes
  <2>2. JobsTyped' /\ \A g \in Workers \ {h} : job'[g] = job[g]
    BY <2>1 DEF Moves, Sets, Sends, Finishes, Becomes
  <2>3. JobOK(job'[h])
    BY <2>1, <1>0
    DEF At, Moves, Sets, Sends, Finishes, Becomes, JobOK, ChatSteps, SellSteps
  <2> QED
    BY <2>2, <2>3, JobKept
<1>26. ASSUME NEW h \in Workers, TakeNothing(h)
       PROVE  JobInv'
  <2>1. /\ At(h, "claim")
        /\ Sets(h, OUT_OF_STOCK, "save_sold_out")
    BY <1>26, <1>0, TakeNothingDoes
  <2>2. JobsTyped' /\ \A g \in Workers \ {h} : job'[g] = job[g]
    BY <2>1 DEF Moves, Sets, Sends, Finishes, Becomes
  <2>3. JobOK(job'[h])
    BY <2>1, <1>0
    DEF At, Moves, Sets, Sends, Finishes, Becomes, JobOK, ChatSteps, SellSteps
  <2> QED
    BY <2>2, <2>3, JobKept
<1>27. ASSUME NEW h \in Workers, SaveClaim(h, "save_coin", "funds")
       PROVE  JobInv'
  <2>0. job[h].row \in Rows /\ "funds" \in JobSteps
    BY <1>27, RowKnown DEF SaveClaim, At, RowSteps, SellSteps, JobSteps
  <2>1. /\ At(h, "save_coin")
        /\ Moves(h, "funds")
    BY <1>27, <1>0, <2>0, SaveClaimDoes
  <2>2. JobsTyped' /\ \A g \in Workers \ {h} : job'[g] = job[g]
    BY <2>1 DEF Moves, Sets, Sends, Finishes, Becomes
  <2>3. JobOK(job'[h])
    BY <2>1, <1>0
    DEF At, Moves, Sets, Sends, Finishes, Becomes, JobOK, ChatSteps, SellSteps
  <2> QED
    BY <2>2, <2>3, JobKept
<1>28. ASSUME NEW h \in Workers, SaveClaim(h, "save_sold_out", "except")
       PROVE  JobInv'
  <2>0. job[h].row \in Rows /\ "except" \in JobSteps
    BY <1>28, RowKnown DEF SaveClaim, At, RowSteps, SellSteps, JobSteps
  <2>1. /\ At(h, "save_sold_out")
        /\ Moves(h, "except")
    BY <1>28, <1>0, <2>0, SaveClaimDoes
  <2>2. JobsTyped' /\ \A g \in Workers \ {h} : job'[g] = job[g]
    BY <2>1 DEF Moves, Sets, Sends, Finishes, Becomes
  <2>3. JobOK(job'[h])
    BY <2>1, <1>0
    DEF At, Moves, Sets, Sends, Finishes, Becomes, JobOK, ChatSteps, SellSteps
  <2> QED
    BY <2>2, <2>3, JobKept
<1>29. ASSUME NEW h \in Workers, CheckFunds(h)
       PROVE  JobInv'
  <2>1. /\ At(h, "funds")
        /\ Moves(h, "bonus") \/ Moves(h, "refund_funds")
    BY <1>29, <1>0, CheckFundsDoes
  <2>2. JobsTyped' /\ \A g \in Workers \ {h} : job'[g] = job[g]
    BY <2>1 DEF Moves, Sets, Sends, Finishes, Becomes
  <2>3. JobOK(job'[h])
    BY <2>1, <1>0
    DEF At, Moves, Sets, Sends, Finishes, Becomes, JobOK, ChatSteps, SellSteps
  <2> QED
    BY <2>2, <2>3, JobKept
<1>30. ASSUME NEW h \in Workers, RefundFunds(h)
       PROVE  JobInv'
  <2>1. /\ At(h, "refund_funds")
        /\ \/ Becomes(h, "except", job[h].customer, job[h].row, job[h].state,
                      job[h].coin, TRUE, job[h].paid, job[h].sends + 1)
           \/ Finishes(h)
    BY <1>30, <1>0, RefundFundsDoes
  <2>2. JobsTyped' /\ \A g \in Workers \ {h} : job'[g] = job[g]
    BY <2>1 DEF Moves, Sets, Sends, Finishes, Becomes
  <2>3. JobOK(job'[h])
    BY <2>1, <1>0
    DEF At, Moves, Sets, Sends, Finishes, Becomes, JobOK, ChatSteps, SellSteps
  <2> QED
    BY <2>2, <2>3, JobKept
<1>31. ASSUME NEW h \in Workers, RefundSoldOut(h)
       PROVE  JobInv'
  <2>1. /\ At(h, "except") /\ ~job[h].refunded
        /\ Sends(h, job[h].state, "end") \/ Finishes(h)
    BY <1>31, <1>0, RefundSoldOutDoes
  <2>2. JobsTyped' /\ \A g \in Workers \ {h} : job'[g] = job[g]
    BY <2>1 DEF Moves, Sets, Sends, Finishes, Becomes
  <2>3. JobOK(job'[h])
    BY <2>1, <1>0
    DEF At, Moves, Sets, Sends, Finishes, Becomes, JobOK, ChatSteps, SellSteps
  <2> QED
    BY <2>2, <2>3, JobKept
<1>32. ASSUME NEW h \in Workers, LeaveExcept(h)
       PROVE  JobInv'
  <2>1. /\ At(h, "except") /\ job[h].refunded
        /\ Moves(h, "end")
    BY <1>32, <1>0, LeaveExceptDoes
  <2>2. JobsTyped' /\ \A g \in Workers \ {h} : job'[g] = job[g]
    BY <2>1 DEF Moves, Sets, Sends, Finishes, Becomes
  <2>3. JobOK(job'[h])
    BY <2>1, <1>0
    DEF At, Moves, Sets, Sends, Finishes, Becomes, JobOK, ChatSteps, SellSteps
  <2> QED
    BY <2>2, <2>3, JobKept
<1>33. ASSUME NEW h \in Workers, SendBonus(h)
       PROVE  JobInv'
  <2>1. /\ At(h, "bonus")
        /\ Sends(h, job[h].state, "preferences") \/ Finishes(h)
    BY <1>33, <1>0, SendBonusDoes
  <2>2. JobsTyped' /\ \A g \in Workers \ {h} : job'[g] = job[g]
    BY <2>1 DEF Moves, Sets, Sends, Finishes, Becomes
  <2>3. JobOK(job'[h])
    <3>1. job[h].sends = 0
      BY <2>1, <1>0 DEF At, JobOK
    <3>2. CASE Finishes(h)
      BY <3>2 DEF Finishes, Becomes, JobOK, ChatSteps, SellSteps
    <3>3. CASE ~Finishes(h)
      BY <2>1, <1>0, <3>1, <3>3
      DEF At, Sends, Becomes, JobOK, ChatSteps, SellSteps
    <3> QED
      BY <3>2, <3>3
  <2> QED
    BY <2>2, <2>3, JobKept
<1>34. ASSUME NEW h \in Workers, End(h)
       PROVE  JobInv'
  <2>1. /\ At(h, "end")
        /\ Finishes(h)
    BY <1>34, <1>0, EndDoes
  <2>2. JobsTyped' /\ \A g \in Workers \ {h} : job'[g] = job[g]
    BY <2>1 DEF Moves, Sets, Sends, Finishes, Becomes
  <2>3. JobOK(job'[h])
    BY <2>1, <1>0
    DEF At, Moves, Sets, Sends, Finishes, Becomes, JobOK, ChatSteps, SellSteps
  <2> QED
    BY <2>2, <2>3, JobKept
<1>35. ASSUME NEW h \in Workers, HandlerFails(h)
       PROVE  JobInv'
  <2>1. /\ ~At(h, "idle") /\ ~At(h, "claim")
        /\ Finishes(h)
    BY <1>35, <1>0, HandlerFailsDoes
  <2>2. JobsTyped' /\ \A g \in Workers \ {h} : job'[g] = job[g]
    BY <2>1 DEF Moves, Sets, Sends, Finishes, Becomes
  <2>3. JobOK(job'[h])
    BY <2>1, <1>0
    DEF At, Moves, Sets, Sends, Finishes, Becomes, JobOK, ChatSteps, SellSteps
  <2> QED
    BY <2>2, <2>3, JobKept
<1>36. CASE Crash
  BY <1>36, NoJobOK DEF Crash, JobInv, JobsTyped
<1>37. CASE EndDrop
  BY <1>37 DEF EndDrop, JobInv, JobsTyped
<1>38. ASSUME NEW h \in Workers, CheckPreferences(h)
       PROVE  JobInv'
  <2>1. /\ At(h, "preferences")
        /\ Sets(h, COMPLETED, "save") \/ Sets(h, ALLOW_CONTACT_REQUESTED, "save")
    BY <1>38, <1>0, CheckPreferencesDoes
  <2>2. JobsTyped' /\ \A g \in Workers \ {h} : job'[g] = job[g]
    BY <2>1 DEF Moves, Sets, Sends, Finishes, Becomes
  <2>3. JobOK(job'[h])
    BY <2>1, <1>0
    DEF At, Moves, Sets, Sends, Finishes, Becomes, JobOK, ChatSteps, SellSteps
  <2> QED
    BY <2>2, <2>3, JobKept
<1> QED
  BY <1>1, <1>2, <1>3, <1>4, <1>5, <1>6, <1>7, <1>8, <1>9, <1>10, <1>11,
     <1>12, <1>13, <1>14, <1>15, <1>16, <1>17, <1>18, <1>19, <1>20, <1>21,
     <1>22, <1>23, <1>24, <1>25, <1>26, <1>27, <1>28, <1>29, <1>30, <1>31,
     <1>32, <1>33, <1>34, <1>35, <1>36, <1>37, <1>38
  DEF AirNext, Chat, Payment

(* The coins are claimed in the steps of BonusCoins, unless all is lost.   *)
LEMMA CoinMoves ==
  ASSUME [AirNext]_airVars
  PROVE  \/ UNCHANGED vars
         \/ Crash
         \/ \E h \in Workers : Claim(h) \/ Call(h) \/ Return(h)
<1>1. ASSUME NEW h \in Workers, NEW c \in Customers,
             ReceiveChat(h, c) \/ ReceivePayment(h, c)
      PROVE  UNCHANGED vars
  BY <1>1 DEF ReceiveChat, ReceivePayment, Receive, coinVars, vars
<1>2. ASSUME NEW h \in Workers, Chat(h)
      PROVE  UNCHANGED vars
  BY <1>2
  DEF Chat, Route, Decline, Welcome, RejectOverQuota, CheckQuota, GetSession,
      CreateSession, HandleOverQuota, AnswerReady, Offer, SendInitial,
      ExplainPayment, AnswerContact, HelpContact, Save, OnlyJob, coinVars, vars
<1>3. ASSUME NEW h \in Workers, Payment(h)
      PROVE  Claim(h) \/ Call(h) \/ Return(h) \/ UNCHANGED vars
  BY <1>3
  DEF Payment, IgnoreFailed, FindUnsolicited, FindWaiting, RefundUnsolicited,
      KeepSmall, TakeCoin, TakeNothing, SaveClaim, CheckFunds,
      RefundFunds, RefundSoldOut, LeaveExcept, SendBonus, CheckPreferences,
      End, Refund, OnlyJob, coinVars, vars
<1>4. ASSUME NEW h \in Workers, HandlerFails(h)
      PROVE  UNCHANGED vars
  BY <1>4 DEF HandlerFails, coinVars, vars
<1>5. CASE EndDrop
  BY <1>5 DEF EndDrop, coinVars, vars
<1>6. CASE UNCHANGED airVars
  BY <1>6 DEF airVars, coinVars, vars
<1> QED
  BY <1>1, <1>2, <1>3, <1>4, <1>5, <1>6 DEF AirNext

LEMMA CoinSteps ==
  ASSUME [AirNext]_airVars
  PROVE  [Next]_vars \/ Crash
BY CoinMoves DEF Claim, Next

LEMMA CrashCoins ==
  ASSUME TypeOK, Crash
  PROVE  TypeOK'
BY DEF TypeOK, Crash, Steps

LEMMA CoinsTyped ==
  ASSUME TypeOK, [AirNext]_airVars
  PROVE  TypeOK'
BY CoinSteps, CrashCoins, TypeStep

(* The actions that save a row. *)
Saves(h) ==
  \/ Save(h)
  \/ SaveClaim(h, "save_coin", "funds")
  \/ SaveClaim(h, "save_sold_out", "except")

LEMMA RowsSteps ==
  ASSUME [AirNext]_airVars
  PROVE  \/ UNCHANGED rowVars
         \/ \E h \in Workers : CreateSession(h) \/ Saves(h)
<1>1. ASSUME NEW h \in Workers, NEW c \in Customers,
             ReceiveChat(h, c) \/ ReceivePayment(h, c)
      PROVE  UNCHANGED rowVars
  BY <1>1 DEF ReceiveChat, ReceivePayment, Receive, rowVars
<1>2. ASSUME NEW h \in Workers, Chat(h)
      PROVE  CreateSession(h) \/ Saves(h) \/ UNCHANGED rowVars
  BY <1>2
  DEF Chat, Route, Decline, Welcome, RejectOverQuota, CheckQuota, GetSession,
      HandleOverQuota, AnswerReady, Offer, SendInitial, ExplainPayment,
      AnswerContact, HelpContact, OnlyJob, rowVars, Saves
<1>3. ASSUME NEW h \in Workers, Payment(h)
      PROVE  Saves(h) \/ UNCHANGED rowVars
  BY <1>3
  DEF Payment, IgnoreFailed, FindUnsolicited, FindWaiting, RefundUnsolicited,
      KeepSmall, Claim, TakeCoin, TakeNothing, CheckFunds,
      RefundFunds, RefundSoldOut, LeaveExcept, SendBonus, CheckPreferences,
      End, Refund, OnlyJob, rowVars, Saves
<1>4. ASSUME NEW h \in Workers, HandlerFails(h)
      PROVE  UNCHANGED rowVars
  BY <1>4 DEF HandlerFails, rowVars
<1>5. CASE Crash \/ EndDrop
  BY <1>5 DEF Crash, EndDrop, rowVars
<1>6. CASE UNCHANGED airVars
  BY <1>6 DEF airVars, rowVars
<1> QED
  BY <1>1, <1>2, <1>3, <1>4, <1>5, <1>6 DEF AirNext

LEMMA SavesDoes ==
  ASSUME RowsTyped, JobInv, RowInv, NEW h \in Workers, Saves(h)
  PROVE  job[h].row \in Rows /\ RowSaved(h)
<1>1. job[h].step \in RowSteps
  BY DEF Saves, Save, SaveClaim, At, RowSteps, SellSteps
<1>2. job[h].row \in Rows
  BY <1>1, RowKnown
<1>3. SaveRow(h)
  BY DEF Saves, Save, SaveClaim
<1> QED
  BY <1>2, <1>3, SaveRowDoes DEF JobInv

(* A row is never deleted, nor given to another customer.                  *)
LEMMA RowsStep ==
  ASSUME RowsTyped, JobInv, RowInv, [AirNext]_airVars
  PROVE  /\ RowsTyped'
         /\ Rows \subseteq Rows'
         /\ \A i \in Rows : session'[i].customer = session[i].customer
<1>1. CASE UNCHANGED rowVars
  BY <1>1 DEF rowVars, RowsTyped, Rows
<1>2. ASSUME NEW h \in Workers, CreateSession(h)
      PROVE  /\ RowsTyped'
             /\ Rows \subseteq Rows'
             /\ \A i \in Rows : session'[i].customer = session[i].customer
  <2>1. job[h].customer \in Customers /\ JobsTyped
    BY <1>2, CustomerKnown DEF CreateSession, At, JobInv
  <2> QED
    BY <1>2, <2>1, CreateSessionDoes
<1>3. ASSUME NEW h \in Workers, Saves(h)
      PROVE  /\ RowsTyped'
             /\ Rows \subseteq Rows'
             /\ \A i \in Rows : session'[i].customer = session[i].customer
  BY <1>3, SavesDoes DEF RowSaved
<1> QED
  BY <1>1, <1>2, <1>3, RowsSteps

Counts ==
  /\ prefs \subseteq Customers
  /\ open \in BOOLEAN
  /\ messages \in 0 .. MaxMessages
  /\ disturbances \in 0 .. MaxDisturbances
  /\ initial \in [Customers -> Nat]
  /\ bonus \in [Customers -> Nat]
  /\ repeated \in Nat /\ repeated <= disturbances
  /\ kept = {}

LEMMA AttemptCounts ==
  ASSUME Counts, NEW o, NEW n \in Repeats, Attempt(o, n)
  PROVE  /\ n \in Nat
         /\ disturbances' \in 0 .. MaxDisturbances
         /\ disturbances + n <= disturbances'
<1>1. n \in Nat /\ disturbances \in Nat /\ MaxDisturbances \in Nat
  BY AirDropBounds DEF Repeats, Counts
<1> QED
  BY <1>1 DEF Attempt

LEMMA CountsStep ==
  ASSUME JobInv, RowInv, Counts, [AirNext]_airVars
  PROVE  Counts'
<1>1. ASSUME NEW h \in Workers, NEW c \in Customers,
             ReceiveChat(h, c) \/ ReceivePayment(h, c)
      PROVE  Counts'
  BY <1>1, AirDropBounds
  DEF ReceiveChat, ReceivePayment, Receive, Disturb, Counts, history
<1>2. ASSUME NEW h \in Workers, Chat(h)
      PROVE  Counts'
  <2>1. CASE SendInitial(h)
    <3>1. PICK o \in Outcomes, n \in Repeats :
            Attempt(o, n) /\ initial' = Pay(initial, h, o, n)
      BY <2>1 DEF SendInitial, Send
    <3>2. n \in Nat /\ job[h].customer \in Customers
      BY <2>1, CustomerKnown, AirDropBounds DEF SendInitial, At, Repeats
    <3>3. initial' \in [Customers -> Nat]
      BY <3>1, <3>2 DEF Pay, Counts
    <3> QED
      BY <2>1, <3>1, <3>2, <3>3, AttemptCounts DEF SendInitial, Counts
  <2>2. CASE AnswerContact(h)
    BY <2>2, CustomerKnown DEF AnswerContact, Active, At, Counts, boundVars, history
  <2>3. CASE Save(h)
    BY <2>3 DEF Save, Finish, At, Counts, JobInv, JobOK, boundVars
  <2>4. CASE CreateSession(h)
    BY <2>4 DEF CreateSession, Counts, boundVars, history
  <2> QED
    BY <1>2, <2>1, <2>2, <2>3, <2>4
    DEF Chat, Route, Decline, Welcome, RejectOverQuota, CheckQuota, GetSession,
      HandleOverQuota, AnswerReady, Offer, ExplainPayment, HelpContact,
      OnlyJob, Counts, boundVars, history
<1>3. ASSUME NEW h \in Workers, Payment(h)
      PROVE  Counts'
  <2>1. CASE SendBonus(h)
    <3>1. PICK o \in Outcomes, n \in Repeats :
            /\ Attempt(o, n)
            /\ bonus' = Pay(bonus, h, o, n)
            /\ repeated' = repeated + n
      BY <2>1 DEF SendBonus, Send
    <3>2. n \in Nat /\ job[h].customer \in Customers
      BY <2>1, CustomerKnown, AirDropBounds DEF SendBonus, At, Repeats
    <3>3. bonus' \in [Customers -> Nat]
      BY <3>1, <3>2 DEF Pay, Counts
    <3> QED
      BY <2>1, <3>1, <3>2, <3>3, AttemptCounts DEF SendBonus, Counts
  <2>2. CASE RefundUnsolicited(h) \/ RefundSoldOut(h) \/ RefundFunds(h)
    <3>1. PICK o \in Outcomes, n \in Repeats : Attempt(o, n)
      BY <2>2 DEF RefundUnsolicited, RefundSoldOut, RefundFunds, Refund, Send
    <3> QED
      BY <2>2, <3>1, AttemptCounts
      DEF RefundUnsolicited, RefundSoldOut, RefundFunds, Refund, Counts, history
  <2>3. CASE End(h)
    BY <2>3 DEF End, Finish, At, Counts, JobInv, JobOK, boundVars
  <2> QED
    BY <1>3, <2>1, <2>2, <2>3
    DEF Payment, IgnoreFailed, FindUnsolicited, FindWaiting, KeepSmall, Claim,
      TakeCoin, TakeNothing, SaveClaim, CheckFunds, LeaveExcept, CheckPreferences,
      OnlyJob, Counts, boundVars, history
<1>4. ASSUME NEW h \in Workers, HandlerFails(h)
      PROVE  Counts'
  BY <1>4, AirDropBounds DEF HandlerFails, Disturb, Counts, history
<1>5. CASE Crash
  BY <1>5, AirDropBounds DEF Crash, Disturb, Counts, history
<1>6. CASE EndDrop
  BY <1>6 DEF EndDrop, Counts, boundVars, history
<1>7. CASE UNCHANGED airVars
  BY <1>7 DEF airVars, Counts, boundVars, history
<1> QED
  BY <1>1, <1>2, <1>3, <1>4, <1>5, <1>6, <1>7 DEF AirNext

LEMMA RowKept ==
  ASSUME RowInv, NEW h \in Workers,
         Rows \subseteq Rows',
         \A i \in Rows : session'[i].customer = session[i].customer,
         \A g \in Workers \ {h} : job'[g] = job[g] /\ pc'[g] = pc[g],
         RowOK(h)'
  PROVE  RowInv'
<1>1. ASSUME NEW g \in Workers \ {h}
      PROVE  RowOK(g)'
  <2>1. RowOK(g) /\ job'[g] = job[g] /\ pc'[g] = pc[g]
    BY DEF RowInv
  <2> QED
    BY <2>1 DEF RowOK, At
<1> QED
  BY <1>1 DEF RowInv

(* Every step leaves the handlers at rows of their customers. *)
LEMMA RowStep ==
  ASSUME TypeOK, RowsTyped, JobInv, RowInv, [AirNext]_airVars
  PROVE  RowInv'
<1>0. /\ JobsTyped /\ TypeOK
      /\ \A h \in Workers : JobOK(job[h]) /\ RowOK(h)
  BY DEF JobInv, RowInv
<1>1. /\ Rows \subseteq Rows'
      /\ \A i \in Rows : session'[i].customer = session[i].customer
  BY RowsStep
<1>2. CASE UNCHANGED airVars
  BY <1>2 DEF airVars, rowVars, coinVars, RowInv, RowOK, Rows, At
<1>3. ASSUME NEW h \in Workers, NEW c \in Customers, ReceiveChat(h, c)
      PROVE  RowInv'
  <2>0. "route" \in JobSteps
    BY DEF JobSteps
  <2>1. /\ At(h, "idle")
        /\ Becomes(h, "route", c, NoRow, READY, NoCoin, FALSE, FALSE, 0)
        /\ pc' = pc
    BY <1>3, <1>0, <2>0, ReceiveDoes DEF ReceiveChat, OnlyJob, coinVars
  <2>2. RowOK(h)' /\ \A g \in Workers \ {h} : job'[g] = job[g] /\ pc'[g] = pc[g]
    BY <1>0, <1>1, <2>1
    DEF RowOK, RowSteps, SellSteps, At, Moves, Sets, Sends, Finishes, Becomes, TypeOK
  <2> QED
    BY <1>1, <2>2, RowKept
<1>4. ASSUME NEW h \in Workers, NEW c \in Customers, ReceivePayment(h, c)
      PROVE  RowInv'
  <2>0. "payment" \in JobSteps
    BY DEF JobSteps
  <2>1. /\ At(h, "idle")
        /\ Becomes(h, "payment", c, NoRow, READY, NoCoin, FALSE, FALSE, 0)
        /\ pc' = pc
    BY <1>4, <1>0, <2>0, ReceiveDoes DEF ReceivePayment, OnlyJob, coinVars
  <2>2. RowOK(h)' /\ \A g \in Workers \ {h} : job'[g] = job[g] /\ pc'[g] = pc[g]
    BY <1>0, <1>1, <2>1
    DEF RowOK, RowSteps, SellSteps, At, Moves, Sets, Sends, Finishes, Becomes, TypeOK
  <2> QED
    BY <1>1, <2>2, RowKept
<1>5. ASSUME NEW h \in Workers, Route(h)
      PROVE  RowInv'
  <2>1. At(h, "route") /\ pc' = pc
    BY <1>5, <1>0, RouteDoes DEF OnlyJob, coinVars
  <2>2. \/ Moves(h, "new")
        \/ \E i \in Rows :
             /\ session[i].customer = job[h].customer
             /\ Becomes(h, "active", job[h].customer, i, session[i].state,
                        session[i].coin, job[h].refunded, job[h].paid,
                        job[h].sends)
    BY <1>5, <1>0, RouteDoes, RowsOfMember DEF ActiveRows
  <2>3. RowOK(h)' /\ \A g \in Workers \ {h} : job'[g] = job[g] /\ pc'[g] = pc[g]
    BY <1>0, <1>1, <2>1, <2>2
    DEF RowOK, RowSteps, SellSteps, At, Moves, Sets, Sends, Finishes, Becomes, TypeOK
  <2> QED
    BY <1>1, <2>3, RowKept
<1>6. ASSUME NEW h \in Workers, Decline(h)
      PROVE  RowInv'
  <2>1. /\ At(h, "new")
        /\ Finishes(h)
        /\ pc' = pc
    BY <1>6, <1>0, DeclineDoes
    DEF OnlyJob, coinVars
  <2>2. RowOK(h)' /\ \A g \in Workers \ {h} : job'[g] = job[g] /\ pc'[g] = pc[g]
    BY <1>0, <1>1, <2>1
    DEF RowOK, RowSteps, SellSteps, At, Moves, Sets, Sends, Finishes, Becomes, TypeOK
  <2> QED
    BY <1>1, <2>2, RowKept
<1>7. ASSUME NEW h \in Workers, Welcome(h)
      PROVE  RowInv'
  <2>1. /\ At(h, "new")
        /\ Moves(h, "quota")
        /\ pc' = pc
    BY <1>7, <1>0, WelcomeDoes
    DEF OnlyJob, coinVars
  <2>2. RowOK(h)' /\ \A g \in Workers \ {h} : job'[g] = job[g] /\ pc'[g] = pc[g]
    BY <1>0, <1>1, <2>1
    DEF RowOK, RowSteps, SellSteps, At, Moves, Sets, Sends, Finishes, Becomes, TypeOK
  <2> QED
    BY <1>1, <2>2, RowKept
<1>8. ASSUME NEW h \in Workers, RejectOverQuota(h)
      PROVE  RowInv'
  <2>1. /\ At(h, "quota")
        /\ Finishes(h)
        /\ pc' = pc
    BY <1>8, <1>0, RejectDoes
    DEF OnlyJob, coinVars
  <2>2. RowOK(h)' /\ \A g \in Workers \ {h} : job'[g] = job[g] /\ pc'[g] = pc[g]
    BY <1>0, <1>1, <2>1
    DEF RowOK, RowSteps, SellSteps, At, Moves, Sets, Sends, Finishes, Becomes, TypeOK
  <2> QED
    BY <1>1, <2>2, RowKept
<1>9. ASSUME NEW h \in Workers, CheckQuota(h)
      PROVE  RowInv'
  <2>1. /\ At(h, "quota")
        /\ Moves(h, "get") \/ Finishes(h)
        /\ pc' = pc
    BY <1>9, <1>0, CheckQuotaDoes
    DEF OnlyJob, coinVars
  <2>2. RowOK(h)' /\ \A g \in Workers \ {h} : job'[g] = job[g] /\ pc'[g] = pc[g]
    BY <1>0, <1>1, <2>1
    DEF RowOK, RowSteps, SellSteps, At, Moves, Sets, Sends, Finishes, Becomes, TypeOK
  <2> QED
    BY <1>1, <2>2, RowKept
<1>10. ASSUME NEW h \in Workers, GetSession(h)
       PROVE  RowInv'
  <2>1. /\ At(h, "get")
        /\ Moves(h, "create") \/ Finishes(h)
        /\ pc' = pc
    BY <1>10, <1>0, GetSessionDoes
    DEF OnlyJob, coinVars
  <2>2. RowOK(h)' /\ \A g \in Workers \ {h} : job'[g] = job[g] /\ pc'[g] = pc[g]
    BY <1>0, <1>1, <2>1
    DEF RowOK, RowSteps, SellSteps, At, Moves, Sets, Sends, Finishes, Becomes, TypeOK
  <2> QED
    BY <1>1, <2>2, RowKept
<1>11. ASSUME NEW h \in Workers, CreateSession(h)
       PROVE  RowInv'
  <2>0. job[h].customer \in Customers
    BY <1>11, CustomerKnown DEF CreateSession, At
  <2>1. /\ At(h, "create")
        /\ Finishes(h)
        /\ pc' = pc
    BY <1>11, <1>0, <2>0, CreateSessionDoes
    DEF OnlyJob, coinVars
  <2>2. RowOK(h)' /\ \A g \in Workers \ {h} : job'[g] = job[g] /\ pc'[g] = pc[g]
    BY <1>0, <1>1, <2>1
    DEF RowOK, RowSteps, SellSteps, At, Moves, Sets, Sends, Finishes, Becomes, TypeOK
  <2> QED
    BY <1>1, <2>2, RowKept
<1>12. ASSUME NEW h \in Workers, HandleOverQuota(h)
       PROVE  RowInv'
  <2>1. /\ At(h, "active")
        /\ Sets(h, OUT_OF_STOCK, "save")
        /\ pc' = pc
    BY <1>12, <1>0, HandleOverQuotaDoes
    DEF OnlyJob, coinVars
  <2>2. RowOK(h)' /\ \A g \in Workers \ {h} : job'[g] = job[g] /\ pc'[g] = pc[g]
    BY <1>0, <1>1, <2>1
    DEF RowOK, RowSteps, SellSteps, At, Moves, Sets, Sends, Finishes, Becomes, TypeOK
  <2> QED
    BY <1>1, <2>2, RowKept
<1>13. ASSUME NEW h \in Workers, AnswerReady(h)
       PROVE  RowInv'
  <2>1. /\ At(h, "active") /\ job[h].state = READY
        /\ \/ Sets(h, CANCELLED, "save")
           \/ Moves(h, "offer")
           \/ Moves(h, "save")
        /\ pc' = pc
    BY <1>13, <1>0, AnswerReadyDoes
    DEF OnlyJob, coinVars
  <2>2. RowOK(h)' /\ \A g \in Workers \ {h} : job'[g] = job[g] /\ pc'[g] = pc[g]
    BY <1>0, <1>1, <2>1
    DEF RowOK, RowSteps, SellSteps, At, Moves, Sets, Sends, Finishes, Becomes, TypeOK
  <2> QED
    BY <1>1, <2>2, RowKept
<1>14. ASSUME NEW h \in Workers, Offer(h)
       PROVE  RowInv'
  <2>1. /\ At(h, "offer")
        /\ Moves(h, "initial") \/ Sets(h, CANCELLED, "save")
        /\ pc' = pc
    BY <1>14, <1>0, OfferDoes
    DEF OnlyJob, coinVars
  <2>2. RowOK(h)' /\ \A g \in Workers \ {h} : job'[g] = job[g] /\ pc'[g] = pc[g]
    BY <1>0, <1>1, <2>1
    DEF RowOK, RowSteps, SellSteps, At, Moves, Sets, Sends, Finishes, Becomes, TypeOK
  <2> QED
    BY <1>1, <2>2, RowKept
<1>15. ASSUME NEW h \in Workers, SendInitial(h)
       PROVE  RowInv'
  <2>1. /\ At(h, "initial")
        /\ Sends(h, WAITING_FOR_PAYMENT, "save") \/ Finishes(h)
        /\ pc' = pc
    BY <1>15, <1>0, SendInitialDoes
    DEF OnlyJob, coinVars
  <2>2. RowOK(h)' /\ \A g \in Workers \ {h} : job'[g] = job[g] /\ pc'[g] = pc[g]
    BY <1>0, <1>1, <2>1
    DEF RowOK, RowSteps, SellSteps, At, Moves, Sets, Sends, Finishes, Becomes, TypeOK
  <2> QED
    BY <1>1, <2>2, RowKept
<1>16. ASSUME NEW h \in Workers, ExplainPayment(h)
       PROVE  RowInv'
  <2>1. /\ At(h, "active")
        /\ Finishes(h)
        /\ pc' = pc
    BY <1>16, <1>0, ExplainPaymentDoes
    DEF OnlyJob, coinVars
  <2>2. RowOK(h)' /\ \A g \in Workers \ {h} : job'[g] = job[g] /\ pc'[g] = pc[g]
    BY <1>0, <1>1, <2>1
    DEF RowOK, RowSteps, SellSteps, At, Moves, Sets, Sends, Finishes, Becomes, TypeOK
  <2> QED
    BY <1>1, <2>2, RowKept
<1>17. ASSUME NEW h \in Workers, AnswerContact(h)
       PROVE  RowInv'
  <2>1. /\ At(h, "active") /\ job[h].state = ALLOW_CONTACT_REQUESTED
        /\ Sets(h, COMPLETED, "save")
        /\ pc' = pc
    BY <1>17, <1>0, AnswerContactDoes
    DEF OnlyJob, coinVars
  <2>2. RowOK(h)' /\ \A g \in Workers \ {h} : job'[g] = job[g] /\ pc'[g] = pc[g]
    BY <1>0, <1>1, <2>1
    DEF RowOK, RowSteps, SellSteps, At, Moves, Sets, Sends, Finishes, Becomes, TypeOK
  <2> QED
    BY <1>1, <2>2, RowKept
<1>18. ASSUME NEW h \in Workers, HelpContact(h)
       PROVE  RowInv'
  <2>1. /\ At(h, "active")
        /\ Finishes(h)
        /\ pc' = pc
    BY <1>18, <1>0, HelpContactDoes
    DEF OnlyJob, coinVars
  <2>2. RowOK(h)' /\ \A g \in Workers \ {h} : job'[g] = job[g] /\ pc'[g] = pc[g]
    BY <1>0, <1>1, <2>1
    DEF RowOK, RowSteps, SellSteps, At, Moves, Sets, Sends, Finishes, Becomes, TypeOK
  <2> QED
    BY <1>1, <2>2, RowKept
<1>19. ASSUME NEW h \in Workers, Save(h)
       PROVE  RowInv'
  <2>0. job[h].row \in Rows
    BY <1>19, RowKnown DEF Save, At, RowSteps
  <2>1. /\ At(h, "save")
        /\ Finishes(h)
        /\ pc' = pc
    BY <1>19, <1>0, <2>0, SaveDoes
    DEF OnlyJob, coinVars
  <2>2. RowOK(h)' /\ \A g \in Workers \ {h} : job'[g] = job[g] /\ pc'[g] = pc[g]
    BY <1>0, <1>1, <2>1
    DEF RowOK, RowSteps, SellSteps, At, Moves, Sets, Sends, Finishes, Becomes, TypeOK
  <2> QED
    BY <1>1, <2>2, RowKept
<1>20. ASSUME NEW h \in Workers, IgnoreFailed(h)
       PROVE  RowInv'
  <2>1. /\ At(h, "payment")
        /\ Finishes(h)
        /\ pc' = pc
    BY <1>20, <1>0, IgnoreFailedDoes
    DEF OnlyJob, coinVars
  <2>2. RowOK(h)' /\ \A g \in Workers \ {h} : job'[g] = job[g] /\ pc'[g] = pc[g]
    BY <1>0, <1>1, <2>1
    DEF RowOK, RowSteps, SellSteps, At, Moves, Sets, Sends, Finishes, Becomes, TypeOK
  <2> QED
    BY <1>1, <2>2, RowKept
<1>21. ASSUME NEW h \in Workers, FindUnsolicited(h)
       PROVE  RowInv'
  <2>1. /\ At(h, "payment")
        /\ Becomes(h, "unsolicited", job[h].customer, job[h].row, job[h].state,
                   job[h].coin, job[h].refunded, TRUE, job[h].sends)
        /\ pc' = pc
    BY <1>21, <1>0, FindUnsolicitedDoes
    DEF OnlyJob, coinVars
  <2>2. RowOK(h)' /\ \A g \in Workers \ {h} : job'[g] = job[g] /\ pc'[g] = pc[g]
    BY <1>0, <1>1, <2>1
    DEF RowOK, RowSteps, SellSteps, At, Moves, Sets, Sends, Finishes, Becomes, TypeOK
  <2> QED
    BY <1>1, <2>2, RowKept
<1>22. ASSUME NEW h \in Workers, FindWaiting(h)
       PROVE  RowInv'
  <2>1. PICK i \in WaitingRows(job[h].customer) :
         Becomes(h, "claim", job[h].customer, i, session[i].state,
                 session[i].coin, job[h].refunded, TRUE, job[h].sends)
    BY <1>22, <1>0, FindWaitingDoes
  <2>2. /\ At(h, "payment") /\ pc' = [pc EXCEPT ![h] = "find"]
        /\ i \in Rows /\ session[i].customer = job[h].customer
    <3>1. At(h, "payment") /\ Call(h)
      BY <1>22, <1>0, FindWaitingDoes
    <3>2. i \in Rows /\ session[i].customer = job[h].customer
      BY <2>1, RowsOfMember DEF WaitingRows
    <3> QED
      BY <3>1, <3>2 DEF Call
  <2>3. RowOK(h)' /\ \A g \in Workers \ {h} : job'[g] = job[g] /\ pc'[g] = pc[g]
    BY <1>0, <1>1, <2>1, <2>2
    DEF RowOK, RowSteps, SellSteps, At, Moves, Sets, Sends, Finishes, Becomes, TypeOK
  <2> QED
    BY <1>1, <2>3, RowKept
<1>23. ASSUME NEW h \in Workers, RefundUnsolicited(h)
       PROVE  RowInv'
  <2>1. /\ At(h, "unsolicited")
        /\ Sends(h, job[h].state, "end") \/ Finishes(h)
        /\ pc' = pc
    BY <1>23, <1>0, RefundUnsolicitedDoes
    DEF OnlyJob, coinVars
  <2>2. RowOK(h)' /\ \A g \in Workers \ {h} : job'[g] = job[g] /\ pc'[g] = pc[g]
    BY <1>0, <1>1, <2>1
    DEF RowOK, RowSteps, SellSteps, At, Moves, Sets, Sends, Finishes, Becomes, TypeOK
  <2> QED
    BY <1>1, <2>2, RowKept
<1>24. ASSUME NEW h \in Workers, KeepSmall(h)
       PROVE  RowInv'
  <2>1. /\ At(h, "unsolicited")
        /\ Finishes(h)
        /\ pc' = pc
    BY <1>24, <1>0, KeepSmallDoes
    DEF OnlyJob, coinVars
  <2>2. RowOK(h)' /\ \A g \in Workers \ {h} : job'[g] = job[g] /\ pc'[g] = pc[g]
    BY <1>0, <1>1, <2>1
    DEF RowOK, RowSteps, SellSteps, At, Moves, Sets, Sends, Finishes, Becomes, TypeOK
  <2> QED
    BY <1>1, <2>2, RowKept
<1>25. ASSUME NEW h \in Workers, Claim(h)
       PROVE  RowInv'
  <2>1. job' = job /\ ClaimStep(h) /\ At(h, "claim")
    BY <1>25 DEF Claim
  <2>2. /\ pc[h] # "idle" /\ pc'[h] # "idle"
        /\ \A g \in Workers \ {h} : pc'[g] = pc[g]
    BY <2>1
    DEF ClaimStep, Find, FindNothing, ClaimOptimistic, RetryClaim,
        RefreshFromDb, SaveCoin, TypeOK
  <2>3. RowOK(h)'
    BY <1>0, <1>1, <2>1, <2>2 DEF RowOK, At
  <2> QED
    BY <1>1, <2>1, <2>2, <2>3, RowKept
<1>26. ASSUME NEW h \in Workers, TakeCoin(h)
       PROVE  RowInv'
  <2>1. /\ At(h, "claim") /\ coin[h] \in Coins
        /\ Becomes(h, "save_coin", job[h].customer, job[h].row,
                   ALLOW_CONTACT_REQUESTED, coin[h], job[h].refunded, job[h].paid, job[h].sends)
        /\ pc' = [pc EXCEPT ![h] = "idle"]
    BY <1>26, <1>0, TakeCoinDoes
    DEF Return
  <2>2. RowOK(h)' /\ \A g \in Workers \ {h} : job'[g] = job[g] /\ pc'[g] = pc[g]
    BY <1>0, <1>1, <2>1
    DEF RowOK, RowSteps, SellSteps, At, Moves, Sets, Sends, Finishes, Becomes, TypeOK
  <2> QED
    BY <1>1, <2>2, RowKept
<1>27. ASSUME NEW h \in Workers, TakeNothing(h)
       PROVE  RowInv'
  <2>1. /\ At(h, "claim")
        /\ Sets(h, OUT_OF_STOCK, "save_sold_out")
        /\ pc' = [pc EXCEPT ![h] = "idle"]
    BY <1>27, <1>0, TakeNothingDoes
    DEF Return
  <2>2. RowOK(h)' /\ \A g \in Workers \ {h} : job'[g] = job[g] /\ pc'[g] = pc[g]
    BY <1>0, <1>1, <2>1
    DEF RowOK, RowSteps, SellSteps, At, Moves, Sets, Sends, Finishes, Becomes, TypeOK
  <2> QED
    BY <1>1, <2>2, RowKept
<1>28. ASSUME NEW h \in Workers, SaveClaim(h, "save_coin", "funds")
       PROVE  RowInv'
  <2>0. job[h].row \in Rows /\ "funds" \in JobSteps
    BY <1>28, RowKnown DEF SaveClaim, At, RowSteps, SellSteps, JobSteps
  <2>1. /\ At(h, "save_coin")
        /\ Moves(h, "funds")
        /\ pc' = pc
    BY <1>28, <1>0, <2>0, SaveClaimDoes
    DEF OnlyJob, coinVars
  <2>2. RowOK(h)' /\ \A g \in Workers \ {h} : job'[g] = job[g] /\ pc'[g] = pc[g]
    BY <1>0, <1>1, <2>1
    DEF RowOK, RowSteps, SellSteps, At, Moves, Sets, Sends, Finishes, Becomes, TypeOK
  <2> QED
    BY <1>1, <2>2, RowKept
<1>29. ASSUME NEW h \in Workers, SaveClaim(h, "save_sold_out", "except")
       PROVE  RowInv'
  <2>0. job[h].row \in Rows /\ "except" \in JobSteps
    BY <1>29, RowKnown DEF SaveClaim, At, RowSteps, SellSteps, JobSteps
  <2>1. /\ At(h, "save_sold_out")
        /\ Moves(h, "except")
        /\ pc' = pc
    BY <1>29, <1>0, <2>0, SaveClaimDoes
    DEF OnlyJob, coinVars
  <2>2. RowOK(h)' /\ \A g \in Workers \ {h} : job'[g] = job[g] /\ pc'[g] = pc[g]
    BY <1>0, <1>1, <2>1
    DEF RowOK, RowSteps, SellSteps, At, Moves, Sets, Sends, Finishes, Becomes, TypeOK
  <2> QED
    BY <1>1, <2>2, RowKept
<1>30. ASSUME NEW h \in Workers, CheckFunds(h)
       PROVE  RowInv'
  <2>1. /\ At(h, "funds")
        /\ Moves(h, "bonus") \/ Moves(h, "refund_funds")
        /\ pc' = pc
    BY <1>30, <1>0, CheckFundsDoes
    DEF OnlyJob, coinVars
  <2>2. RowOK(h)' /\ \A g \in Workers \ {h} : job'[g] = job[g] /\ pc'[g] = pc[g]
    BY <1>0, <1>1, <2>1
    DEF RowOK, RowSteps, SellSteps, At, Moves, Sets, Sends, Finishes, Becomes, TypeOK
  <2> QED
    BY <1>1, <2>2, RowKept
<1>31. ASSUME NEW h \in Workers, RefundFunds(h)
       PROVE  RowInv'
  <2>1. /\ At(h, "refund_funds")
        /\ \/ Becomes(h, "except", job[h].customer, job[h].row, job[h].state,
                      job[h].coin, TRUE, job[h].paid, job[h].sends + 1)
           \/ Finishes(h)
        /\ pc' = pc
    BY <1>31, <1>0, RefundFundsDoes
    DEF OnlyJob, coinVars
  <2>2. RowOK(h)' /\ \A g \in Workers \ {h} : job'[g] = job[g] /\ pc'[g] = pc[g]
    BY <1>0, <1>1, <2>1
    DEF RowOK, RowSteps, SellSteps, At, Moves, Sets, Sends, Finishes, Becomes, TypeOK
  <2> QED
    BY <1>1, <2>2, RowKept
<1>32. ASSUME NEW h \in Workers, RefundSoldOut(h)
       PROVE  RowInv'
  <2>1. /\ At(h, "except") /\ ~job[h].refunded
        /\ Sends(h, job[h].state, "end") \/ Finishes(h)
        /\ pc' = pc
    BY <1>32, <1>0, RefundSoldOutDoes
    DEF OnlyJob, coinVars
  <2>2. RowOK(h)' /\ \A g \in Workers \ {h} : job'[g] = job[g] /\ pc'[g] = pc[g]
    BY <1>0, <1>1, <2>1
    DEF RowOK, RowSteps, SellSteps, At, Moves, Sets, Sends, Finishes, Becomes, TypeOK
  <2> QED
    BY <1>1, <2>2, RowKept
<1>33. ASSUME NEW h \in Workers, LeaveExcept(h)
       PROVE  RowInv'
  <2>1. /\ At(h, "except") /\ job[h].refunded
        /\ Moves(h, "end")
        /\ pc' = pc
    BY <1>33, <1>0, LeaveExceptDoes
    DEF OnlyJob, coinVars
  <2>2. RowOK(h)' /\ \A g \in Workers \ {h} : job'[g] = job[g] /\ pc'[g] = pc[g]
    BY <1>0, <1>1, <2>1
    DEF RowOK, RowSteps, SellSteps, At, Moves, Sets, Sends, Finishes, Becomes, TypeOK
  <2> QED
    BY <1>1, <2>2, RowKept
<1>34. ASSUME NEW h \in Workers, SendBonus(h)
       PROVE  RowInv'
  <2>1. /\ At(h, "bonus")
        /\ Sends(h, job[h].state, "preferences") \/ Finishes(h)
        /\ pc' = pc
    BY <1>34, <1>0, SendBonusDoes
    DEF OnlyJob, coinVars
  <2>2. RowOK(h)' /\ \A g \in Workers \ {h} : job'[g] = job[g] /\ pc'[g] = pc[g]
    BY <1>0, <1>1, <2>1
    DEF RowOK, RowSteps, SellSteps, At, Moves, Sets, Sends, Finishes, Becomes, TypeOK
  <2> QED
    BY <1>1, <2>2, RowKept
<1>35. ASSUME NEW h \in Workers, End(h)
       PROVE  RowInv'
  <2>1. /\ At(h, "end")
        /\ Finishes(h)
        /\ pc' = pc
    BY <1>35, <1>0, EndDoes
    DEF OnlyJob, coinVars
  <2>2. RowOK(h)' /\ \A g \in Workers \ {h} : job'[g] = job[g] /\ pc'[g] = pc[g]
    BY <1>0, <1>1, <2>1
    DEF RowOK, RowSteps, SellSteps, At, Moves, Sets, Sends, Finishes, Becomes, TypeOK
  <2> QED
    BY <1>1, <2>2, RowKept
<1>36. ASSUME NEW h \in Workers, HandlerFails(h)
       PROVE  RowInv'
  <2>1. /\ ~At(h, "idle") /\ ~At(h, "claim")
        /\ Finishes(h)
        /\ pc' = pc
    BY <1>36, <1>0, HandlerFailsDoes
    DEF OnlyJob, coinVars
  <2>2. RowOK(h)' /\ \A g \in Workers \ {h} : job'[g] = job[g] /\ pc'[g] = pc[g]
    BY <1>0, <1>1, <2>1
    DEF RowOK, RowSteps, SellSteps, At, Moves, Sets, Sends, Finishes, Becomes, TypeOK
  <2> QED
    BY <1>1, <2>2, RowKept
<1>37. CASE Crash
  BY <1>37, <1>1 DEF Crash, RowInv, RowOK, NoJob, NoRow, RowSteps, SellSteps, At
<1>38. CASE EndDrop
  BY <1>38, <1>1 DEF EndDrop, RowInv, RowOK, coinVars, rowVars, At
<1>39. ASSUME NEW h \in Workers, CheckPreferences(h)
       PROVE  RowInv'
  <2>1. /\ At(h, "preferences")
        /\ Sets(h, COMPLETED, "save") \/ Sets(h, ALLOW_CONTACT_REQUESTED, "save")
        /\ pc' = pc
    BY <1>39, <1>0, CheckPreferencesDoes
    DEF OnlyJob, coinVars
  <2>2. RowOK(h)' /\ \A g \in Workers \ {h} : job'[g] = job[g] /\ pc'[g] = pc[g]
    BY <1>0, <1>1, <2>1
    DEF RowOK, RowSteps, SellSteps, At, Moves, Sets, Sends, Finishes, Becomes, TypeOK
  <2> QED
    BY <1>1, <2>2, RowKept
<1> QED
  BY <1>2, <1>3, <1>4, <1>5, <1>6, <1>7, <1>8, <1>9, <1>10, <1>11, <1>12,
     <1>13, <1>14, <1>15, <1>16, <1>17, <1>18, <1>19, <1>20, <1>21, <1>22,
     <1>23, <1>24, <1>25, <1>26, <1>27, <1>28, <1>29, <1>30, <1>31, <1>32,
     <1>33, <1>34, <1>35, <1>36, <1>37, <1>38, <1>39
  DEF AirNext, Chat, Payment

-----------------------------------------------------------------------------
(* Where the handlers' copies of rows come from.                           *)

PendingSteps == {"save_coin", "funds", "bonus"}

(* A handler's copy is its copy before, or has just been read; a coin is   *)
(* put on it by TakeCoin only, and it is completed only for a customer     *)
(* with preferences.                                                       *)
CopyFrom(h) ==
  /\ \/ job'[h].step \notin RowSteps
     \/ /\ job[h].step \in RowSteps
        /\ job'[h].row = job[h].row
        /\ job'[h].customer = job[h].customer
        /\ job'[h].coin = job[h].coin \/ TakeCoin(h)
        /\ job'[h].state = COMPLETED =>
             job[h].state = COMPLETED \/ job[h].customer \in prefs'
     \/ /\ job'[h].row \in Rows
        /\ job'[h].customer = session[job'[h].row].customer
        /\ job'[h].state = session[job'[h].row].state
        /\ job'[h].coin = session[job'[h].row].coin
  /\ job'[h].step \in PendingSteps => job[h].step \in PendingSteps \/ TakeCoin(h)

LEMMA CopyKept ==
  ASSUME NEW h \in Workers, CopyFrom(h),
         \A g \in Workers \ {h} : job'[g] = job[g]
  PROVE  \A g \in Workers : CopyFrom(g)
BY DEF CopyFrom

(* No step makes a copy otherwise. *)
LEMMA CopyStep ==
  ASSUME TypeOK, RowsTyped, JobInv, RowInv, [AirNext]_airVars
  PROVE  \A h \in Workers : CopyFrom(h)
<1>0. /\ JobsTyped /\ TypeOK
      /\ \A h \in Workers : JobOK(job[h]) /\ RowOK(h)
  BY DEF JobInv, RowInv
<1>1. CASE UNCHANGED airVars
  BY <1>1 DEF airVars, CopyFrom
<1>2. ASSUME NEW h \in Workers, NEW c \in Customers, ReceiveChat(h, c)
      PROVE  \A g \in Workers : CopyFrom(g)
  <2>0. "route" \in JobSteps
    BY DEF JobSteps
  <2>1. /\ At(h, "idle")
        /\ Becomes(h, "route", c, NoRow, READY, NoCoin, FALSE, FALSE, 0)
    BY <1>2, <1>0, <2>0, ReceiveDoes DEF ReceiveChat
  <2>2. CopyFrom(h) /\ \A g \in Workers \ {h} : job'[g] = job[g]
    BY <1>0, <2>1
    DEF CopyFrom, PendingSteps, RowSteps, SellSteps, At, Moves, Sets, Sends,
        Finishes, Becomes, READY, CANCELLED, WAITING_FOR_PAYMENT,
        ALLOW_CONTACT_REQUESTED, COMPLETED, OUT_OF_STOCK
  <2> QED
    BY <2>2, CopyKept
<1>3. ASSUME NEW h \in Workers, NEW c \in Customers, ReceivePayment(h, c)
      PROVE  \A g \in Workers : CopyFrom(g)
  <2>0. "payment" \in JobSteps
    BY DEF JobSteps
  <2>1. /\ At(h, "idle")
        /\ Becomes(h, "payment", c, NoRow, READY, NoCoin, FALSE, FALSE, 0)
    BY <1>3, <1>0, <2>0, ReceiveDoes DEF ReceivePayment
  <2>2. CopyFrom(h) /\ \A g \in Workers \ {h} : job'[g] = job[g]
    BY <1>0, <2>1
    DEF CopyFrom, PendingSteps, RowSteps, SellSteps, At, Moves, Sets, Sends,
        Finishes, Becomes, READY, CANCELLED, WAITING_FOR_PAYMENT,
        ALLOW_CONTACT_REQUESTED, COMPLETED, OUT_OF_STOCK
  <2> QED
    BY <2>2, CopyKept
<1>4. ASSUME NEW h \in Workers, Route(h)
      PROVE  \A g \in Workers : CopyFrom(g)
  <2>1. \/ Moves(h, "new")
        \/ \E i \in Rows :
             /\ session[i].customer = job[h].customer
             /\ Becomes(h, "active", job[h].customer, i, session[i].state,
                        session[i].coin, job[h].refunded, job[h].paid,
                        job[h].sends)
    BY <1>4, <1>0, RouteDoes, RowsOfMember DEF ActiveRows
  <2>2. CopyFrom(h) /\ \A g \in Workers \ {h} : job'[g] = job[g]
    BY <1>0, <2>1
    DEF CopyFrom, PendingSteps, RowSteps, SellSteps, At, Moves, Sets, Sends,
        Finishes, Becomes, READY, CANCELLED, WAITING_FOR_PAYMENT,
        ALLOW_CONTACT_REQUESTED, COMPLETED, OUT_OF_STOCK
  <2> QED
    BY <2>2, CopyKept
<1>5. ASSUME NEW h \in Workers, Decline(h)
      PROVE  \A g \in Workers : CopyFrom(g)
  <2>1. /\ At(h, "new")
        /\ Finishes(h)
    BY <1>5, <1>0, DeclineDoes
  <2>2. CopyFrom(h) /\ \A g \in Workers \ {h} : job'[g] = job[g]
    BY <1>0, <2>1
    DEF CopyFrom, PendingSteps, RowSteps, SellSteps, At, Moves, Sets, Sends,
        Finishes, Becomes, READY, CANCELLED, WAITING_FOR_PAYMENT,
        ALLOW_CONTACT_REQUESTED, COMPLETED, OUT_OF_STOCK
  <2> QED
    BY <2>2, CopyKept
<1>6. ASSUME NEW h \in Workers, Welcome(h)
      PROVE  \A g \in Workers : CopyFrom(g)
  <2>1. /\ At(h, "new")
        /\ Moves(h, "quota")
    BY <1>6, <1>0, WelcomeDoes
  <2>2. CopyFrom(h) /\ \A g \in Workers \ {h} : job'[g] = job[g]
    BY <1>0, <2>1
    DEF CopyFrom, PendingSteps, RowSteps, SellSteps, At, Moves, Sets, Sends,
        Finishes, Becomes, READY, CANCELLED, WAITING_FOR_PAYMENT,
        ALLOW_CONTACT_REQUESTED, COMPLETED, OUT_OF_STOCK
  <2> QED
    BY <2>2, CopyKept
<1>7. ASSUME NEW h \in Workers, RejectOverQuota(h)
      PROVE  \A g \in Workers : CopyFrom(g)
  <2>1. /\ At(h, "quota")
        /\ Finishes(h)
    BY <1>7, <1>0, RejectDoes
  <2>2. CopyFrom(h) /\ \A g \in Workers \ {h} : job'[g] = job[g]
    BY <1>0, <2>1
    DEF CopyFrom, PendingSteps, RowSteps, SellSteps, At, Moves, Sets, Sends,
        Finishes, Becomes, READY, CANCELLED, WAITING_FOR_PAYMENT,
        ALLOW_CONTACT_REQUESTED, COMPLETED, OUT_OF_STOCK
  <2> QED
    BY <2>2, CopyKept
<1>8. ASSUME NEW h \in Workers, CheckQuota(h)
      PROVE  \A g \in Workers : CopyFrom(g)
  <2>1. /\ At(h, "quota")
        /\ Moves(h, "get") \/ Finishes(h)
    BY <1>8, <1>0, CheckQuotaDoes
  <2>2. CopyFrom(h) /\ \A g \in Workers \ {h} : job'[g] = job[g]
    BY <1>0, <2>1
    DEF CopyFrom, PendingSteps, RowSteps, SellSteps, At, Moves, Sets, Sends,
        Finishes, Becomes, READY, CANCELLED, WAITING_FOR_PAYMENT,
        ALLOW_CONTACT_REQUESTED, COMPLETED, OUT_OF_STOCK
  <2> QED
    BY <2>2, CopyKept
<1>9. ASSUME NEW h \in Workers, GetSession(h)
      PROVE  \A g \in Workers : CopyFrom(g)
  <2>1. /\ At(h, "get")
        /\ Moves(h, "create") \/ Finishes(h)
    BY <1>9, <1>0, GetSessionDoes
  <2>2. CopyFrom(h) /\ \A g \in Workers \ {h} : job'[g] = job[g]
    BY <1>0, <2>1
    DEF CopyFrom, PendingSteps, RowSteps, SellSteps, At, Moves, Sets, Sends,
        Finishes, Becomes, READY, CANCELLED, WAITING_FOR_PAYMENT,
        ALLOW_CONTACT_REQUESTED, COMPLETED, OUT_OF_STOCK
  <2> QED
    BY <2>2, CopyKept
<1>10. ASSUME NEW h \in Workers, CreateSession(h)
       PROVE  \A g \in Workers : CopyFrom(g)
  <2>0. job[h].customer \in Customers
    BY <1>10, CustomerKnown DEF CreateSession, At
  <2>1. /\ At(h, "create")
        /\ Finishes(h)
    BY <1>10, <1>0, <2>0, CreateSessionDoes
  <2>2. CopyFrom(h) /\ \A g \in Workers \ {h} : job'[g] = job[g]
    BY <1>0, <2>1
    DEF CopyFrom, PendingSteps, RowSteps, SellSteps, At, Moves, Sets, Sends,
        Finishes, Becomes, READY, CANCELLED, WAITING_FOR_PAYMENT,
        ALLOW_CONTACT_REQUESTED, COMPLETED, OUT_OF_STOCK
  <2> QED
    BY <2>2, CopyKept
<1>11. ASSUME NEW h \in Workers, HandleOverQuota(h)
       PROVE  \A g \in Workers : CopyFrom(g)
  <2>1. /\ At(h, "active")
        /\ Sets(h, OUT_OF_STOCK, "save")
    BY <1>11, <1>0, HandleOverQuotaDoes
  <2>2. CopyFrom(h) /\ \A g \in Workers \ {h} : job'[g] = job[g]
    BY <1>0, <2>1
    DEF CopyFrom, PendingSteps, RowSteps, SellSteps, At, Moves, Sets, Sends,
        Finishes, Becomes, READY, CANCELLED, WAITING_FOR_PAYMENT,
        ALLOW_CONTACT_REQUESTED, COMPLETED, OUT_OF_STOCK
  <2> QED
    BY <2>2, CopyKept
<1>12. ASSUME NEW h \in Workers, AnswerReady(h)
       PROVE  \A g \in Workers : CopyFrom(g)
  <2>1. /\ At(h, "active") /\ job[h].state = READY
        /\ \/ Sets(h, CANCELLED, "save")
           \/ Moves(h, "offer")
           \/ Moves(h, "save")
    BY <1>12, <1>0, AnswerReadyDoes
  <2>2. CopyFrom(h) /\ \A g \in Workers \ {h} : job'[g] = job[g]
    BY <1>0, <2>1
    DEF CopyFrom, PendingSteps, RowSteps, SellSteps, At, Moves, Sets, Sends,
        Finishes, Becomes, READY, CANCELLED, WAITING_FOR_PAYMENT,
        ALLOW_CONTACT_REQUESTED, COMPLETED, OUT_OF_STOCK
  <2> QED
    BY <2>2, CopyKept
<1>13. ASSUME NEW h \in Workers, Offer(h)
       PROVE  \A g \in Workers : CopyFrom(g)
  <2>1. /\ At(h, "offer")
        /\ Moves(h, "initial") \/ Sets(h, CANCELLED, "save")
    BY <1>13, <1>0, OfferDoes
  <2>2. CopyFrom(h) /\ \A g \in Workers \ {h} : job'[g] = job[g]
    BY <1>0, <2>1
    DEF CopyFrom, PendingSteps, RowSteps, SellSteps, At, Moves, Sets, Sends,
        Finishes, Becomes, READY, CANCELLED, WAITING_FOR_PAYMENT,
        ALLOW_CONTACT_REQUESTED, COMPLETED, OUT_OF_STOCK
  <2> QED
    BY <2>2, CopyKept
<1>14. ASSUME NEW h \in Workers, SendInitial(h)
       PROVE  \A g \in Workers : CopyFrom(g)
  <2>1. /\ At(h, "initial")
        /\ Sends(h, WAITING_FOR_PAYMENT, "save") \/ Finishes(h)
    BY <1>14, <1>0, SendInitialDoes
  <2>2. CopyFrom(h) /\ \A g \in Workers \ {h} : job'[g] = job[g]
    BY <1>0, <2>1
    DEF CopyFrom, PendingSteps, RowSteps, SellSteps, At, Moves, Sets, Sends,
        Finishes, Becomes, READY, CANCELLED, WAITING_FOR_PAYMENT,
        ALLOW_CONTACT_REQUESTED, COMPLETED, OUT_OF_STOCK
  <2> QED
    BY <2>2, CopyKept
<1>15. ASSUME NEW h \in Workers, ExplainPayment(h)
       PROVE  \A g \in Workers : CopyFrom(g)
  <2>1. /\ At(h, "active")
        /\ Finishes(h)
    BY <1>15, <1>0, ExplainPaymentDoes
  <2>2. CopyFrom(h) /\ \A g \in Workers \ {h} : job'[g] = job[g]
    BY <1>0, <2>1
    DEF CopyFrom, PendingSteps, RowSteps, SellSteps, At, Moves, Sets, Sends,
        Finishes, Becomes, READY, CANCELLED, WAITING_FOR_PAYMENT,
        ALLOW_CONTACT_REQUESTED, COMPLETED, OUT_OF_STOCK
  <2> QED
    BY <2>2, CopyKept
<1>16. ASSUME NEW h \in Workers, AnswerContact(h)
       PROVE  \A g \in Workers : CopyFrom(g)
  <2>1. /\ At(h, "active") /\ job[h].state = ALLOW_CONTACT_REQUESTED
        /\ Sets(h, COMPLETED, "save")
        /\ job[h].customer \in prefs'
    BY <1>16, <1>0, AnswerContactDoes
  <2>2. CopyFrom(h) /\ \A g \in Workers \ {h} : job'[g] = job[g]
    BY <1>0, <2>1
    DEF CopyFrom, PendingSteps, RowSteps, SellSteps, At, Moves, Sets, Sends,
        Finishes, Becomes, READY, CANCELLED, WAITING_FOR_PAYMENT,
        ALLOW_CONTACT_REQUESTED, COMPLETED, OUT_OF_STOCK
  <2> QED
    BY <2>2, CopyKept
<1>17. ASSUME NEW h \in Workers, HelpContact(h)
       PROVE  \A g \in Workers : CopyFrom(g)
  <2>1. /\ At(h, "active")
        /\ Finishes(h)
    BY <1>17, <1>0, HelpContactDoes
  <2>2. CopyFrom(h) /\ \A g \in Workers \ {h} : job'[g] = job[g]
    BY <1>0, <2>1
    DEF CopyFrom, PendingSteps, RowSteps, SellSteps, At, Moves, Sets, Sends,
        Finishes, Becomes, READY, CANCELLED, WAITING_FOR_PAYMENT,
        ALLOW_CONTACT_REQUESTED, COMPLETED, OUT_OF_STOCK
  <2> QED
    BY <2>2, CopyKept
<1>18. ASSUME NEW h \in Workers, Save(h)
       PROVE  \A g \in Workers : CopyFrom(g)
  <2>0. job[h].row \in Rows
    BY <1>18, RowKnown DEF Save, At, RowSteps
  <2>1. /\ At(h, "save")
        /\ Finishes(h)
    BY <1>18, <1>0, <2>0, SaveDoes
  <2>2. CopyFrom(h) /\ \A g \in Workers \ {h} : job'[g] = job[g]
    BY <1>0, <2>1
    DEF CopyFrom, PendingSteps, RowSteps, SellSteps, At, Moves, Sets, Sends,
        Finishes, Becomes, READY, CANCELLED, WAITING_FOR_PAYMENT,
        ALLOW_CONTACT_REQUESTED, COMPLETED, OUT_OF_STOCK
  <2> QED
    BY <2>2, CopyKept
<1>19. ASSUME NEW h \in Workers, IgnoreFailed(h)
       PROVE  \A g \in Workers : CopyFrom(g)
  <2>1. /\ At(h, "payment")
        /\ Finishes(h)
    BY <1>19, <1>0, IgnoreFailedDoes
  <2>2. CopyFrom(h) /\ \A g \in Workers \ {h} : job'[g] = job[g]
    BY <1>0, <2>1
    DEF CopyFrom, PendingSteps, RowSteps, SellSteps, At, Moves, Sets, Sends,
        Finishes, Becomes, READY, CANCELLED, WAITING_FOR_PAYMENT,
        ALLOW_CONTACT_REQUESTED, COMPLETED, OUT_OF_STOCK
  <2> QED
    BY <2>2, CopyKept
<1>20. ASSUME NEW h \in Workers, FindUnsolicited(h)
       PROVE  \A g \in Workers : CopyFrom(g)
  <2>1. /\ At(h, "payment")
        /\ Becomes(h, "unsolicited", job[h].customer, job[h].row, job[h].state,
                   job[h].coin, job[h].refunded, TRUE, job[h].sends)
    BY <1>20, <1>0, FindUnsolicitedDoes
  <2>2. CopyFrom(h) /\ \A g \in Workers \ {h} : job'[g] = job[g]
    BY <1>0, <2>1
    DEF CopyFrom, PendingSteps, RowSteps, SellSteps, At, Moves, Sets, Sends,
        Finishes, Becomes, READY, CANCELLED, WAITING_FOR_PAYMENT,
        ALLOW_CONTACT_REQUESTED, COMPLETED, OUT_OF_STOCK
  <2> QED
    BY <2>2, CopyKept
<1>21. ASSUME NEW h \in Workers, FindWaiting(h)
       PROVE  \A g \in Workers : CopyFrom(g)
  <2>1. PICK i \in WaitingRows(job[h].customer) :
         Becomes(h, "claim", job[h].customer, i, session[i].state,
                 session[i].coin, job[h].refunded, TRUE, job[h].sends)
    BY <1>21, <1>0, FindWaitingDoes
  <2>2. i \in Rows /\ session[i].customer = job[h].customer
    BY <2>1, RowsOfMember DEF WaitingRows
  <2>3. CopyFrom(h) /\ \A g \in Workers \ {h} : job'[g] = job[g]
    BY <1>0, <2>1, <2>2
    DEF CopyFrom, PendingSteps, RowSteps, SellSteps, At, Moves, Sets, Sends,
        Finishes, Becomes, READY, CANCELLED, WAITING_FOR_PAYMENT,
        ALLOW_CONTACT_REQUESTED, COMPLETED, OUT_OF_STOCK
  <2> QED
    BY <2>3, CopyKept
<1>22. ASSUME NEW h \in Workers, RefundUnsolicited(h)
       PROVE  \A g \in Workers : CopyFrom(g)
  <2>1. /\ At(h, "unsolicited")
        /\ Sends(h, job[h].state, "end") \/ Finishes(h)
    BY <1>22, <1>0, RefundUnsolicitedDoes
  <2>2. CopyFrom(h) /\ \A g \in Workers \ {h} : job'[g] = job[g]
    BY <1>0, <2>1
    DEF CopyFrom, PendingSteps, RowSteps, SellSteps, At, Moves, Sets, Sends,
        Finishes, Becomes, READY, CANCELLED, WAITING_FOR_PAYMENT,
        ALLOW_CONTACT_REQUESTED, COMPLETED, OUT_OF_STOCK
  <2> QED
    BY <2>2, CopyKept
<1>23. ASSUME NEW h \in Workers, KeepSmall(h)
       PROVE  \A g \in Workers : CopyFrom(g)
  <2>1. /\ At(h, "unsolicited")
        /\ Finishes(h)
    BY <1>23, <1>0, KeepSmallDoes
  <2>2. CopyFrom(h) /\ \A g \in Workers \ {h} : job'[g] = job[g]
    BY <1>0, <2>1
    DEF CopyFrom, PendingSteps, RowSteps, SellSteps, At, Moves, Sets, Sends,
        Finishes, Becomes, READY, CANCELLED, WAITING_FOR_PAYMENT,
        ALLOW_CONTACT_REQUESTED, COMPLETED, OUT_OF_STOCK
  <2> QED
    BY <2>2, CopyKept
<1>24. ASSUME NEW h \in Workers, Claim(h)
       PROVE  \A g \in Workers : CopyFrom(g)
  <2>1. job' = job
    BY <1>24 DEF Claim
  <2> QED
    BY <2>1 DEF CopyFrom
<1>25. ASSUME NEW h \in Workers, TakeCoin(h)
       PROVE  \A g \in Workers : CopyFrom(g)
  <2>1. /\ At(h, "claim") /\ coin[h] \in Coins
        /\ Becomes(h, "save_coin", job[h].customer, job[h].row,
                   ALLOW_CONTACT_REQUESTED, coin[h], job[h].refunded, job[h].paid, job[h].sends)
    BY <1>25, <1>0, TakeCoinDoes
  <2>2. CopyFrom(h) /\ \A g \in Workers \ {h} : job'[g] = job[g]
    BY <1>0, <2>1, <1>25
    DEF CopyFrom, PendingSteps, RowSteps, SellSteps, At, Moves, Sets, Sends,
        Finishes, Becomes, READY, CANCELLED, WAITING_FOR_PAYMENT,
        ALLOW_CONTACT_REQUESTED, COMPLETED, OUT_OF_STOCK
  <2> QED
    BY <2>2, CopyKept
<1>26. ASSUME NEW h \in Workers, TakeNothing(h)
       PROVE  \A g \in Workers : CopyFrom(g)
  <2>1. /\ At(h, "claim")
        /\ Sets(h, OUT_OF_STOCK, "save_sold_out")
    BY <1>26, <1>0, TakeNothingDoes
  <2>2. CopyFrom(h) /\ \A g \in Workers \ {h} : job'[g] = job[g]
    BY <1>0, <2>1
    DEF CopyFrom, PendingSteps, RowSteps, SellSteps, At, Moves, Sets, Sends,
        Finishes, Becomes, READY, CANCELLED, WAITING_FOR_PAYMENT,
        ALLOW_CONTACT_REQUESTED, COMPLETED, OUT_OF_STOCK
  <2> QED
    BY <2>2, CopyKept
<1>27. ASSUME NEW h \in Workers, SaveClaim(h, "save_coin", "funds")
       PROVE  \A g \in Workers : CopyFrom(g)
  <2>0. job[h].row \in Rows /\ "funds" \in JobSteps
    BY <1>27, RowKnown DEF SaveClaim, At, RowSteps, SellSteps, JobSteps
  <2>1. /\ At(h, "save_coin")
        /\ Moves(h, "funds")
    BY <1>27, <1>0, <2>0, SaveClaimDoes
  <2>2. CopyFrom(h) /\ \A g \in Workers \ {h} : job'[g] = job[g]
    BY <1>0, <2>1
    DEF CopyFrom, PendingSteps, RowSteps, SellSteps, At, Moves, Sets, Sends,
        Finishes, Becomes, READY, CANCELLED, WAITING_FOR_PAYMENT,
        ALLOW_CONTACT_REQUESTED, COMPLETED, OUT_OF_STOCK
  <2> QED
    BY <2>2, CopyKept
<1>28. ASSUME NEW h \in Workers, SaveClaim(h, "save_sold_out", "except")
       PROVE  \A g \in Workers : CopyFrom(g)
  <2>0. job[h].row \in Rows /\ "except" \in JobSteps
    BY <1>28, RowKnown DEF SaveClaim, At, RowSteps, SellSteps, JobSteps
  <2>1. /\ At(h, "save_sold_out")
        /\ Moves(h, "except")
    BY <1>28, <1>0, <2>0, SaveClaimDoes
  <2>2. CopyFrom(h) /\ \A g \in Workers \ {h} : job'[g] = job[g]
    BY <1>0, <2>1
    DEF CopyFrom, PendingSteps, RowSteps, SellSteps, At, Moves, Sets, Sends,
        Finishes, Becomes, READY, CANCELLED, WAITING_FOR_PAYMENT,
        ALLOW_CONTACT_REQUESTED, COMPLETED, OUT_OF_STOCK
  <2> QED
    BY <2>2, CopyKept
<1>29. ASSUME NEW h \in Workers, CheckFunds(h)
       PROVE  \A g \in Workers : CopyFrom(g)
  <2>1. /\ At(h, "funds")
        /\ Moves(h, "bonus") \/ Moves(h, "refund_funds")
    BY <1>29, <1>0, CheckFundsDoes
  <2>2. CopyFrom(h) /\ \A g \in Workers \ {h} : job'[g] = job[g]
    BY <1>0, <2>1
    DEF CopyFrom, PendingSteps, RowSteps, SellSteps, At, Moves, Sets, Sends,
        Finishes, Becomes, READY, CANCELLED, WAITING_FOR_PAYMENT,
        ALLOW_CONTACT_REQUESTED, COMPLETED, OUT_OF_STOCK
  <2> QED
    BY <2>2, CopyKept
<1>30. ASSUME NEW h \in Workers, RefundFunds(h)
       PROVE  \A g \in Workers : CopyFrom(g)
  <2>1. /\ At(h, "refund_funds")
        /\ \/ Becomes(h, "except", job[h].customer, job[h].row, job[h].state,
                      job[h].coin, TRUE, job[h].paid, job[h].sends + 1)
           \/ Finishes(h)
    BY <1>30, <1>0, RefundFundsDoes
  <2>2. CopyFrom(h) /\ \A g \in Workers \ {h} : job'[g] = job[g]
    BY <1>0, <2>1
    DEF CopyFrom, PendingSteps, RowSteps, SellSteps, At, Moves, Sets, Sends,
        Finishes, Becomes, READY, CANCELLED, WAITING_FOR_PAYMENT,
        ALLOW_CONTACT_REQUESTED, COMPLETED, OUT_OF_STOCK
  <2> QED
    BY <2>2, CopyKept
<1>31. ASSUME NEW h \in Workers, RefundSoldOut(h)
       PROVE  \A g \in Workers : CopyFrom(g)
  <2>1. /\ At(h, "except") /\ ~job[h].refunded
        /\ Sends(h, job[h].state, "end") \/ Finishes(h)
    BY <1>31, <1>0, RefundSoldOutDoes
  <2>2. CopyFrom(h) /\ \A g \in Workers \ {h} : job'[g] = job[g]
    BY <1>0, <2>1
    DEF CopyFrom, PendingSteps, RowSteps, SellSteps, At, Moves, Sets, Sends,
        Finishes, Becomes, READY, CANCELLED, WAITING_FOR_PAYMENT,
        ALLOW_CONTACT_REQUESTED, COMPLETED, OUT_OF_STOCK
  <2> QED
    BY <2>2, CopyKept
<1>32. ASSUME NEW h \in Workers, LeaveExcept(h)
       PROVE  \A g \in Workers : CopyFrom(g)
  <2>1. /\ At(h, "except") /\ job[h].refunded
        /\ Moves(h, "end")
    BY <1>32, <1>0, LeaveExceptDoes
  <2>2. CopyFrom(h) /\ \A g \in Workers \ {h} : job'[g] = job[g]
    BY <1>0, <2>1
    DEF CopyFrom, PendingSteps, RowSteps, SellSteps, At, Moves, Sets, Sends,
        Finishes, Becomes, READY, CANCELLED, WAITING_FOR_PAYMENT,
        ALLOW_CONTACT_REQUESTED, COMPLETED, OUT_OF_STOCK
  <2> QED
    BY <2>2, CopyKept
<1>33. ASSUME NEW h \in Workers, SendBonus(h)
       PROVE  \A g \in Workers : CopyFrom(g)
  <2>1. /\ At(h, "bonus") /\ prefs' = prefs
        /\ Sends(h, job[h].state, "preferences") \/ Finishes(h)
    BY <1>33, <1>0, SendBonusDoes
  <2>2. CopyFrom(h) /\ \A g \in Workers \ {h} : job'[g] = job[g]
    BY <1>0, <2>1
    DEF CopyFrom, PendingSteps, RowSteps, SellSteps, At, Moves, Sets, Sends,
        Finishes, Becomes, READY, CANCELLED, WAITING_FOR_PAYMENT,
        ALLOW_CONTACT_REQUESTED, COMPLETED, OUT_OF_STOCK
  <2> QED
    BY <2>2, CopyKept
<1>34. ASSUME NEW h \in Workers, End(h)
       PROVE  \A g \in Workers : CopyFrom(g)
  <2>1. /\ At(h, "end")
        /\ Finishes(h)
    BY <1>34, <1>0, EndDoes
  <2>2. CopyFrom(h) /\ \A g \in Workers \ {h} : job'[g] = job[g]
    BY <1>0, <2>1
    DEF CopyFrom, PendingSteps, RowSteps, SellSteps, At, Moves, Sets, Sends,
        Finishes, Becomes, READY, CANCELLED, WAITING_FOR_PAYMENT,
        ALLOW_CONTACT_REQUESTED, COMPLETED, OUT_OF_STOCK
  <2> QED
    BY <2>2, CopyKept
<1>35. ASSUME NEW h \in Workers, HandlerFails(h)
       PROVE  \A g \in Workers : CopyFrom(g)
  <2>1. /\ ~At(h, "idle") /\ ~At(h, "claim")
        /\ Finishes(h)
    BY <1>35, <1>0, HandlerFailsDoes
  <2>2. CopyFrom(h) /\ \A g \in Workers \ {h} : job'[g] = job[g]
    BY <1>0, <2>1
    DEF CopyFrom, PendingSteps, RowSteps, SellSteps, At, Moves, Sets, Sends,
        Finishes, Becomes, READY, CANCELLED, WAITING_FOR_PAYMENT,
        ALLOW_CONTACT_REQUESTED, COMPLETED, OUT_OF_STOCK
  <2> QED
    BY <2>2, CopyKept
<1>36. CASE Crash
  BY <1>36 DEF Crash, CopyFrom, NoJob, RowSteps, SellSteps, PendingSteps
<1>37. CASE EndDrop
  BY <1>37 DEF EndDrop, CopyFrom
<1>38. ASSUME NEW h \in Workers, CheckPreferences(h)
       PROVE  \A g \in Workers : CopyFrom(g)
  <2>1. /\ At(h, "preferences") /\ prefs' = prefs
        /\ \/ Sets(h, COMPLETED, "save") /\ job[h].customer \in prefs
           \/ Sets(h, ALLOW_CONTACT_REQUESTED, "save")
    BY <1>38, <1>0, CheckPreferencesDoes DEF OnlyJob
  <2>2. CopyFrom(h) /\ \A g \in Workers \ {h} : job'[g] = job[g]
    BY <1>0, <2>1
    DEF CopyFrom, PendingSteps, RowSteps, SellSteps, At, Moves, Sets, Sends,
        Finishes, Becomes, READY, CANCELLED, WAITING_FOR_PAYMENT,
        ALLOW_CONTACT_REQUESTED, COMPLETED, OUT_OF_STOCK
  <2> QED
    BY <2>2, CopyKept
<1> QED
  BY <1>1, <1>2, <1>3, <1>4, <1>5, <1>6, <1>7, <1>8, <1>9, <1>10, <1>11,
     <1>12, <1>13, <1>14, <1>15, <1>16, <1>17, <1>18, <1>19, <1>20, <1>21,
     <1>22, <1>23, <1>24, <1>25, <1>26, <1>27, <1>28, <1>29, <1>30, <1>31,
     <1>32, <1>33, <1>34, <1>35, <1>36, <1>37, <1>38
  DEF AirNext, Chat, Payment

-----------------------------------------------------------------------------
(* The types of the rest, and no payment kept. *)
BaseInv ==
  /\ TypeOK
  /\ RowsTyped
  /\ JobInv
  /\ RowInv
  /\ Counts

LEMMA BaseInit == AirInit => BaseInv
<1> SUFFICES ASSUME AirInit
             PROVE  BaseInv
  OBVIOUS
<1>1. TypeOK
  BY MaxCallsType DEF AirInit, Init, TypeOK, Steps
<1>2. RowsTyped
  BY DEF AirInit, RowsTyped, Rows
<1>3. JobInv
  BY NoJobOK DEF AirInit, JobInv, JobsTyped
<1>4. RowInv
  BY DEF AirInit, Init, RowInv, RowOK, NoJob, NoRow, RowSteps, SellSteps, At
<1>5. Counts
  BY AirDropBounds DEF AirInit, Counts
<1> QED
  BY <1>1, <1>2, <1>3, <1>4, <1>5 DEF BaseInv

LEMMA BaseStep == BaseInv /\ [AirNext]_airVars => BaseInv'
<1> SUFFICES ASSUME BaseInv, [AirNext]_airVars
             PROVE  BaseInv'
  OBVIOUS
<1> USE DEF BaseInv
<1>1. TypeOK'
  BY CoinsTyped
<1>2. RowsTyped'
  BY RowsStep
<1>3. JobInv'
  BY JobStep
<1>4. RowInv'
  BY RowStep
<1>5. Counts'
  BY CountsStep
<1> QED
  BY <1>1, <1>2, <1>3, <1>4, <1>5

(* The handlers' locals, the rows and the counts are in order in every     *)
(* state: what each of the theorems below follows from.                    *)
THEOREM BaseInvariant == AirSpec => []BaseInv
BY BaseInit, BaseStep, PTL DEF AirSpec

LEMMA BaseTyped == BaseInv => AirTypeOK
<1> SUFFICES ASSUME BaseInv
             PROVE  AirTypeOK
  OBVIOUS
<1>1. job \in [Workers -> JobType]
  <2>1. job \in [Workers -> AnyJob] /\ \A h \in Workers : job[h].row \in Rows \cup {NoRow}
    BY DEF BaseInv, JobInv, JobsTyped, RowInv, RowOK
  <2>2. ASSUME NEW h \in Workers
        PROVE  job[h] \in JobType
    BY <2>1 DEF AnyJob, JobType
  <2> QED
    BY <2>1, <2>2
<1>2. /\ session \in Seq([customer : Customers, state : SessionStates,
                          coin : Coins \cup {NoCoin}])
      /\ recent \in Seq(Rows)
      /\ Len(recent) = Len(session) /\ \A i \in Rows : \E k \in Rows : recent[k] = i
  BY DEF BaseInv, RowsTyped, RowType
<1>3. kept \subseteq Customers
  BY DEF BaseInv, Counts
<1> QED
  BY <1>1, <1>2, <1>3 DEF BaseInv, Counts, AirTypeOK

(* The rows and the order in which they were saved stay in step, a handler *)
(* is at a step it can be at, with the key of a row that exists, and every *)
(* count is a number.                                                      *)
THEOREM AirTypeCorrect == AirSpec => []AirTypeOK
BY BaseInvariant, BaseTyped, PTL

(* No handler answers a payment twice: each step of its way says how often *)
(* it has sent, and the two steps that send once more have sent nothing.   *)
THEOREM AnsweredOnceHolds == AirSpec => []AnsweredOnce
<1>1. BaseInv => AnsweredOnce
  BY DEF BaseInv, JobInv, JobsTyped, AnyJob, JobOK, AnsweredOnce
<1> QED
  BY <1>1, BaseInvariant, PTL

(* A handler that comes to its end has answered the payment it was given.  *)
THEOREM NothingKeptHolds == AirSpec => []NothingKept
<1>1. BaseInv => NothingKept
  BY DEF BaseInv, Counts, NothingKept
<1> QED
  BY <1>1, BaseInvariant, PTL
=============================================================================
