------------------------- MODULE MessageQueueProofs -------------------------
(***************************************************************************)
(* Proofs about module MessageQueue, for any messages, customers and       *)
(* subscribers, any size of the pools and any number of crashes and        *)
(* failures.                                                               *)
(***************************************************************************)
EXTENDS MessageQueue, TLAPS

(* The polling loop, the FIFO and the threads keep their shapes; a loop    *)
(* has a message in hand exactly from its SELECT to pool.submit.           *)
THEOREM TypeCorrect == Spec => []TypeOK
<1>1. Init => TypeOK
  BY BoundsType DEF Init, TypeOK, Statuses, LoopSteps, WorkSteps, Idle
<1>2. TypeOK /\ [Next]_vars => TypeOK'
  <2> SUFFICES ASSUME TypeOK, [Next]_vars
               PROVE  TypeOK'
    OBVIOUS
  <2> USE BoundsType, NoMessageFresh
      DEF TypeOK, Statuses, LoopSteps, WorkSteps, Work
  <2>1. CASE UNCHANGED vars
    BY <2>1 DEF vars
  <2>2. ASSUME NEW m \in Messages, Store(m)
        PROVE  TypeOK'
    BY <2>2 DEF Store
  <2>3. ASSUME NEW s \in Subscribers, Select(s)
        PROVE  TypeOK'
    BY <2>3 DEF Select, Candidates, Waiting
  <2>4. ASSUME NEW s \in Subscribers, Claim(s)
        PROVE  TypeOK'
    BY <2>4 DEF Claim
  <2>5. ASSUME NEW s \in Subscribers, Submit(s)
        PROVE  TypeOK'
    <3>1. Append(submitted[s], message[s]) \in Seq(Messages)
      BY <2>5 DEF Submit
    <3> QED
      BY <2>5, <3>1 DEF Submit
  <2>6. ASSUME NEW s \in Subscribers, PollFails(s)
        PROVE  TypeOK'
    BY <2>6 DEF PollFails
  <2>7. ASSUME NEW s \in Subscribers, StartWork(s)
        PROVE  TypeOK'
    <3>1. Tail(submitted[s]) \in Seq(Messages) /\ Head(submitted[s]) \in Messages
      BY <2>7 DEF StartWork
    <3> QED
      BY <2>7, <3>1 DEF StartWork
  <2>8. ASSUME NEW s \in Subscribers, NEW m \in Messages, AcknowledgeFails(s, m)
        PROVE  TypeOK'
    BY <2>8 DEF AcknowledgeFails
  <2>9. ASSUME NEW s \in Subscribers, NEW m \in Messages, Handle(s, m)
        PROVE  TypeOK'
    BY <2>9 DEF Handle
  <2>10. ASSUME NEW s \in Subscribers, NEW m \in Messages, Leave(s, m)
         PROVE  TypeOK'
    BY <2>10 DEF Leave, FinalStatus
  <2>11. ASSUME NEW s \in Subscribers, NEW m \in Messages, WorkerFails(s, m)
         PROVE  TypeOK'
    BY <2>11 DEF WorkerFails
  <2>12. ASSUME NEW s \in Subscribers, Crash(s)
         PROVE  TypeOK'
    BY <2>12 DEF Crash, Idle
  <2>13. ASSUME NEW s \in Subscribers, Restart(s)
         PROVE  TypeOK'
    BY <2>13 DEF Restart
  <2>14. ASSUME NEW s \in Subscribers, NEW m \in Messages, LogFails(s, m)
         PROVE  TypeOK'
    BY <2>14 DEF LogFails
  <2> QED
    BY <2>1, <2>2, <2>3, <2>4, <2>5, <2>6, <2>7, <2>8, <2>9, <2>10, <2>11,
       <2>12, <2>13, <2>14
    DEF Next, Poll, Worker, Fault
<1> QED
  BY <1>1, <1>2, PTL DEF Spec

-----------------------------------------------------------------------------
(* What a FIFO holds after a task was appended to it.                      *)
LEMMA AppendHolds ==
  ASSUME NEW q \in Seq(Messages), NEW m \in Messages, NEW n
  PROVE  LET r == Append(q, m) IN
         (\E i \in DOMAIN r : r[i] = n) <=> (n = m \/ \E i \in DOMAIN q : q[i] = n)
<1> DEFINE r == Append(q, m)
<1>1. DOMAIN q = 1 .. Len(q) /\ DOMAIN r = 1 .. (Len(q) + 1) /\ Len(q) \in Nat
  OBVIOUS
<1>2. r[Len(q) + 1] = m /\ \A i \in 1 .. Len(q) : r[i] = q[i]
  OBVIOUS
<1>3. \A i \in DOMAIN r : i \in DOMAIN q \/ i = Len(q) + 1
  BY <1>1
<1>4. DOMAIN q \subseteq DOMAIN r /\ Len(q) + 1 \in DOMAIN r
  BY <1>1
<1> HIDE DEF r
<1> QED
  BY <1>1, <1>2, <1>3, <1>4 DEF r

(* Appending a task that is not there keeps the tasks distinct.            *)
LEMMA AppendDistinct ==
  ASSUME NEW q \in Seq(Messages), NEW m \in Messages,
         \A i \in DOMAIN q : q[i] # m,
         \A i, j \in DOMAIN q : q[i] = q[j] => i = j
  PROVE  LET r == Append(q, m) IN
         \A i, j \in DOMAIN r : r[i] = r[j] => i = j
<1> DEFINE r == Append(q, m)
<1>1. DOMAIN q = 1 .. Len(q) /\ DOMAIN r = 1 .. (Len(q) + 1) /\ Len(q) \in Nat
  OBVIOUS
<1>2. r[Len(q) + 1] = m /\ \A i \in 1 .. Len(q) : r[i] = q[i]
  OBVIOUS
<1>3. \A i \in DOMAIN r : i \in DOMAIN q \/ i = Len(q) + 1
  BY <1>1
<1> HIDE DEF r
<1> QED
  BY <1>1, <1>2, <1>3 DEF r

(* The tail of a FIFO without repetitions holds all but the head.          *)
LEMMA TailHolds ==
  ASSUME NEW q \in Seq(Messages), q # <<>>,
         \A i, j \in DOMAIN q : q[i] = q[j] => i = j,
         NEW n
  PROVE  LET r == Tail(q) IN
         /\ (\E i \in DOMAIN r : r[i] = n) <=>
              (n # Head(q) /\ \E i \in DOMAIN q : q[i] = n)
         /\ \A i, j \in DOMAIN r : r[i] = r[j] => i = j
<1> DEFINE r == Tail(q)
<1>1. /\ Len(q) \in Nat \ {0}
      /\ DOMAIN q = 1 .. Len(q)
      /\ DOMAIN r = 1 .. (Len(q) - 1)
  OBVIOUS
<1>2. Head(q) = q[1] /\ \A i \in 1 .. (Len(q) - 1) : r[i] = q[i + 1]
  OBVIOUS
<1> HIDE DEF r
<1>3. \A i, j \in DOMAIN r : r[i] = r[j] => i = j
  <2> SUFFICES ASSUME NEW i \in DOMAIN r, NEW j \in DOMAIN r, r[i] = r[j]
               PROVE  i = j
    OBVIOUS
  <2>1. i + 1 \in DOMAIN q /\ j + 1 \in DOMAIN q /\ q[i + 1] = q[j + 1]
    BY <1>1, <1>2
  <2> QED
    BY <2>1, <1>1
<1>4. ASSUME NEW i \in DOMAIN r, r[i] = n
      PROVE  n # Head(q) /\ \E k \in DOMAIN q : q[k] = n
  <2>1. i + 1 \in DOMAIN q /\ 1 \in DOMAIN q /\ q[i + 1] = n /\ i + 1 # 1
    BY <1>1, <1>2, <1>4
  <2> QED
    BY <2>1, <1>2
<1>5. ASSUME NEW k \in DOMAIN q, q[k] = n, n # Head(q)
      PROVE  \E i \in DOMAIN r : r[i] = n
  <2>1. k - 1 \in DOMAIN r /\ r[k - 1] = n
    BY <1>1, <1>2, <1>5
  <2> QED
    BY <2>1
<1> QED
  BY <1>3, <1>4, <1>5 DEF r

-----------------------------------------------------------------------------
(* The tasks of a FIFO are distinct: the last conjunct of OneOwner.        *)
Distinct(s) ==
  \A i, j \in DOMAIN submitted[s] : submitted[s][i] = submitted[s][j] => i = j

(* pool.submit moves a message from the hand of the loop to the FIFO.      *)
LEMMA SubmitMoves ==
  ASSUME TypeOK, OneOwner, NEW s \in Subscribers, Submit(s)
  PROVE  \E m \in Messages :
           /\ InHand(s, m)
           /\ \A t \in Subscribers, n \in Messages :
                /\ InHand(t, n)' <=> (InHand(t, n) /\ ~(t = s /\ n = m))
                /\ InPool(t, n)' <=> (InPool(t, n) \/ (t = s /\ n = m))
           /\ \A t \in Subscribers : Distinct(t)'
<1> DEFINE m == message[s]
           q == submitted[s]
<1>1. m \in Messages /\ InHand(s, m)
  BY NoMessageFresh DEF Submit, TypeOK, InHand
<1>2. \A t \in Subscribers, n \in Messages :
        InHand(t, n)' <=> (InHand(t, n) /\ ~(t = s /\ n = m))
  BY NoMessageFresh DEF Submit, InHand, TypeOK
<1>3. /\ submitted'[s] = Append(q, m)
      /\ \A t \in Subscribers \ {s} : submitted'[t] = submitted[t]
  BY DEF Submit, TypeOK
<1>4. /\ q \in Seq(Messages)
      /\ \A i \in DOMAIN q : q[i] # m
      /\ \A i, j \in DOMAIN q : q[i] = q[j] => i = j
  BY <1>1 DEF OneOwner, InPool, TypeOK
<1>5. /\ \A n \in Messages :
           (\E i \in DOMAIN submitted'[s] : submitted'[s][i] = n) <=>
             (n = m \/ \E i \in DOMAIN q : q[i] = n)
      /\ \A i, j \in DOMAIN submitted'[s] :
           submitted'[s][i] = submitted'[s][j] => i = j
  <2> HIDE DEF q, m
  <2> QED
    BY <1>1, <1>3, <1>4, AppendHolds, AppendDistinct
<1>6. \A t \in Subscribers, n \in Messages :
        InPool(t, n)' <=> (InPool(t, n) \/ (t = s /\ n = m))
  BY <1>3, <1>5 DEF InPool
<1>7. \A t \in Subscribers : Distinct(t)'
  BY <1>3, <1>5 DEF OneOwner, Distinct
<1> HIDE DEF m
<1> QED
  BY <1>1, <1>2, <1>6, <1>7

(* A free thread takes a message out of the FIFO.                          *)
LEMMA StartWorkMoves ==
  ASSUME TypeOK, OneOwner, NEW s \in Subscribers, StartWork(s)
  PROVE  \E m \in Messages :
           /\ InPool(s, m)
           /\ work[s][m] = "none"
           /\ work' = [work EXCEPT ![s][m] = "context"]
           /\ \A t \in Subscribers, n \in Messages :
                /\ InPool(t, n)' <=> (InPool(t, n) /\ ~(t = s /\ n = m))
                /\ AtWork(t, n)' <=> (AtWork(t, n) \/ (t = s /\ n = m))
           /\ \A t \in Subscribers : Distinct(t)'
<1> DEFINE q == submitted[s]
           m == Head(q)
<1>1. m \in Messages /\ InPool(s, m)
  BY DEF StartWork, TypeOK, InPool
<1>2. work[s][m] = "none" /\ work' = [work EXCEPT ![s][m] = "context"]
  BY DEF StartWork, Work
<1>3. \A t \in Subscribers, n \in Messages :
        AtWork(t, n)' <=> (AtWork(t, n) \/ (t = s /\ n = m))
  <2> HIDE DEF m
  <2>1. "context" # "none"
    OBVIOUS
  <2> QED
    BY <1>1, <1>2, <2>1 DEF AtWork, TypeOK
<1>4. /\ submitted'[s] = Tail(q)
      /\ \A t \in Subscribers \ {s} : submitted'[t] = submitted[t]
  BY DEF StartWork, TypeOK
<1>5. /\ q \in Seq(Messages) /\ q # <<>>
      /\ \A i, j \in DOMAIN q : q[i] = q[j] => i = j
  BY DEF OneOwner, TypeOK, StartWork
<1>6. \A n : /\ (\E i \in DOMAIN Tail(q) : Tail(q)[i] = n) <=>
                  (n # m /\ \E i \in DOMAIN q : q[i] = n)
             /\ \A i, j \in DOMAIN Tail(q) : Tail(q)[i] = Tail(q)[j] => i = j
  <2> HIDE DEF q
  <2> QED
    BY <1>5, TailHolds
<1>7. \A t \in Subscribers, n \in Messages :
        InPool(t, n)' <=> (InPool(t, n) /\ ~(t = s /\ n = m))
  <2> HIDE DEF m
  <2> QED
    BY <1>4, <1>6 DEF InPool
<1>8. \A t \in Subscribers : Distinct(t)'
  BY <1>4, <1>6 DEF OneOwner, Distinct
<1> HIDE DEF m
<1> USE <1>1
<1> WITNESS m \in Messages
<1> QED
  BY <1>2, <1>3, <1>7, <1>8

(* Every step leaves a claimed message with one owner, in one place.       *)
LEMMA OneOwnerStep ==
  ASSUME TypeOK, OneOwner, [Next]_vars
  PROVE  OneOwner'
<1> USE DEF Distinct
<1>1. CASE UNCHANGED vars
  BY <1>1 DEF vars, OneOwner, Owns, InHand, InPool, AtWork
<1>2. ASSUME NEW m \in Messages, Store(m)
      PROVE  OneOwner'
  <2>1. \A n \in Messages : status[n] = "PROCESSING" => status'[n] = "PROCESSING"
    BY <1>2 DEF Store, TypeOK
  <2>2. UNCHANGED <<pc, message, submitted, work>>
    BY <1>2 DEF Store
  <2> QED
    BY <2>1, <2>2 DEF OneOwner, Owns, InHand, InPool, AtWork
<1>3. ASSUME NEW s \in Subscribers, Select(s)
      PROVE  OneOwner'
  <2>1. UNCHANGED <<status, submitted, work>>
    BY <1>3 DEF Select
  <2>2. \A t \in Subscribers, n \in Messages : InHand(t, n)' <=> InHand(t, n)
    BY <1>3 DEF Select, InHand, TypeOK
  <2> QED
    BY <2>1, <2>2 DEF OneOwner, Owns, InPool, AtWork
<1>4. ASSUME NEW s \in Subscribers, Claim(s)
      PROVE  OneOwner'
  <2> DEFINE m == message[s]
  <2>1. m \in Messages /\ status[m] = "NOT_PROCESSED"
    BY <1>4, NoMessageFresh DEF Claim, Unclaimed, TypeOK
  <2>2. \A t \in Subscribers : ~Owns(t, m)
    BY <2>1 DEF OneOwner
  <2>3. UNCHANGED <<submitted, work, message>>
    BY <1>4 DEF Claim
  <2>4. status' = [status EXCEPT ![m] = "PROCESSING"]
    BY <1>4 DEF Claim
  <2>5. \A t \in Subscribers, n \in Messages :
          InHand(t, n)' <=> (InHand(t, n) \/ (t = s /\ n = m))
    BY <1>4 DEF Claim, InHand, TypeOK
  <2> QED
    BY <2>1, <2>2, <2>3, <2>4, <2>5 DEF OneOwner, Owns, InPool, AtWork, TypeOK
<1>5. ASSUME NEW s \in Subscribers, Submit(s)
      PROVE  OneOwner'
  <2>1. UNCHANGED <<status, work>>
    BY <1>5 DEF Submit
  <2> QED
    BY <1>5, <2>1, SubmitMoves DEF OneOwner, Owns, AtWork
<1>6. ASSUME NEW s \in Subscribers, PollFails(s)
      PROVE  OneOwner'
  <2>1. UNCHANGED <<status, submitted, work>>
    BY <1>6 DEF PollFails
  <2>2. \A t \in Subscribers, n \in Messages : InHand(t, n)' => InHand(t, n)
    BY <1>6 DEF PollFails, InHand, TypeOK
  <2> QED
    BY <2>1, <2>2 DEF OneOwner, Owns, InPool, AtWork
<1>7. ASSUME NEW s \in Subscribers, StartWork(s)
      PROVE  OneOwner'
  <2>1. UNCHANGED <<status, pc, message>>
    BY <1>7 DEF StartWork
  <2> QED
    BY <1>7, <2>1, StartWorkMoves DEF OneOwner, Owns, InHand
<1>8. ASSUME NEW s \in Subscribers, NEW m \in Messages,
             AcknowledgeFails(s, m) \/ Handle(s, m) \/ LogFails(s, m)
      PROVE  OneOwner'
  <2>1. UNCHANGED <<status, pc, message, submitted>>
    BY <1>8 DEF AcknowledgeFails, Handle, LogFails
  <2>2. \A t \in Subscribers, n \in Messages : AtWork(t, n)' <=> AtWork(t, n)
    <3>1. PICK to \in {"raised", "handled"} :
            work[s][m] # "none" /\ work' = [work EXCEPT ![s][m] = to]
      BY <1>8 DEF AcknowledgeFails, Handle, LogFails, Work
    <3>2. to # "none"
      BY <3>1
    <3> QED
      BY <3>1, <3>2 DEF AtWork, TypeOK
  <2> QED
    BY <2>1, <2>2 DEF OneOwner, Owns, InHand, InPool
<1>9. ASSUME NEW s \in Subscribers, NEW m \in Messages,
             Leave(s, m) \/ WorkerFails(s, m)
      PROVE  OneOwner'
  <2>1. UNCHANGED <<pc, message, submitted>>
    BY <1>9 DEF Leave, WorkerFails
  <2>2. AtWork(s, m)
    BY <1>9 DEF Leave, WorkerFails, Work, AtWork, WorkSteps
  <2>3. \A t \in Subscribers, n \in Messages :
          AtWork(t, n)' <=> (AtWork(t, n) /\ ~(t = s /\ n = m))
    BY <1>9 DEF Leave, WorkerFails, Work, AtWork, TypeOK
  <2>4. \A n \in Messages \ {m} : status'[n] = status[n]
    BY <1>9 DEF Leave, WorkerFails, TypeOK
  <2> QED
    BY <2>1, <2>2, <2>3, <2>4 DEF OneOwner, Owns, InHand, InPool
<1>10. ASSUME NEW s \in Subscribers, Crash(s)
       PROVE  OneOwner'
  <2>1. UNCHANGED status
    BY <1>10 DEF Crash
  <2>2. \A n \in Messages : ~Owns(s, n)'
    BY <1>10 DEF Crash, Owns, InHand, InPool, AtWork, Idle, TypeOK
  <2>3. \A t \in Subscribers \ {s}, n \in Messages :
          /\ InHand(t, n)' <=> InHand(t, n)
          /\ InPool(t, n)' <=> InPool(t, n)
          /\ AtWork(t, n)' <=> AtWork(t, n)
    BY <1>10 DEF Crash, InHand, InPool, AtWork, TypeOK
  <2>4. \A t \in Subscribers : Distinct(t)'
    BY <1>10 DEF Crash, OneOwner, TypeOK
  <2> QED
    BY <2>1, <2>2, <2>3, <2>4 DEF OneOwner, Owns
<1>11. ASSUME NEW s \in Subscribers, Restart(s)
       PROVE  OneOwner'
  <2>1. UNCHANGED <<status, message, submitted, work>>
    BY <1>11 DEF Restart
  <2>2. \A t \in Subscribers, n \in Messages : InHand(t, n)' => InHand(t, n)
    BY <1>11 DEF Restart, InHand, TypeOK
  <2> QED
    BY <2>1, <2>2 DEF OneOwner, Owns, InPool, AtWork
<1> QED
  BY <1>1, <1>2, <1>3, <1>4, <1>5, <1>6, <1>7, <1>8, <1>9, <1>10, <1>11
  DEF Next, Poll, Worker, Fault

(* A claimed message has one owner, in one place, and is PROCESSING while  *)
(* it has one: whatever subscribers race, fail, crash and restart.         *)
THEOREM OneOwnerHolds == Spec => []OneOwner
<1>1. Init => OneOwner
  BY DEF Init, OneOwner, Owns, InHand, InPool, AtWork, Idle
<1>2. TypeOK /\ OneOwner /\ [Next]_vars => OneOwner'
  BY OneOwnerStep
<1> QED
  BY <1>1, <1>2, TypeCorrect, PTL DEF Spec

-----------------------------------------------------------------------------
(* HandledAtMostOnce is not inductive: it says nothing of a message that   *)
(* may still reach a handler.  HandledInv does: until a thread has been    *)
(* through the handler with a message, no handler was invoked with it.     *)
HandledInv ==
  \A m \in Messages :
    /\ handled[m] \in {0, 1}
    /\ status[m] \in {"absent", "NOT_PROCESSED"} => handled[m] = 0
    /\ \A s \in Subscribers :
         /\ InHand(s, m) \/ InPool(s, m) => handled[m] = 0
         /\ work[s][m] = "context" => handled[m] = 0
         /\ work[s][m] = "handled" => handled[m] = 1

(* Every step keeps handled in line with the places of the messages.       *)
LEMMA HandledStep ==
  ASSUME TypeOK, OneOwner, HandledInv, [Next]_vars
  PROVE  HandledInv'
<1>1. CASE UNCHANGED vars
  BY <1>1 DEF vars, HandledInv, InHand, InPool
<1>2. ASSUME NEW m \in Messages, Store(m)
      PROVE  HandledInv'
  BY <1>2 DEF Store, TypeOK, HandledInv, InHand, InPool
<1>3. ASSUME NEW s \in Subscribers, Select(s)
      PROVE  HandledInv'
  <2>1. UNCHANGED <<status, submitted, work, handled>>
    BY <1>3 DEF Select
  <2>2. \A t \in Subscribers, n \in Messages : InHand(t, n)' <=> InHand(t, n)
    BY <1>3 DEF Select, InHand, TypeOK
  <2> QED
    BY <2>1, <2>2 DEF HandledInv, InPool
<1>4. ASSUME NEW s \in Subscribers, Claim(s)
      PROVE  HandledInv'
  <2> DEFINE m == message[s]
  <2>1. m \in Messages /\ status[m] = "NOT_PROCESSED"
    BY <1>4, NoMessageFresh DEF Claim, Unclaimed, TypeOK
  <2>2. UNCHANGED <<submitted, work, handled>>
    BY <1>4 DEF Claim
  <2>3. status' = [status EXCEPT ![m] = "PROCESSING"]
    BY <1>4 DEF Claim
  <2>4. \A t \in Subscribers, n \in Messages :
          InHand(t, n)' <=> (InHand(t, n) \/ (t = s /\ n = m))
    BY <1>4 DEF Claim, InHand, TypeOK
  <2> QED
    BY <2>1, <2>2, <2>3, <2>4 DEF HandledInv, InPool, TypeOK
<1>5. ASSUME NEW s \in Subscribers, Submit(s)
      PROVE  HandledInv'
  <2>1. UNCHANGED <<status, work, handled>>
    BY <1>5 DEF Submit
  <2> QED
    BY <1>5, <2>1, SubmitMoves DEF HandledInv
<1>6. ASSUME NEW s \in Subscribers, PollFails(s)
      PROVE  HandledInv'
  <2>1. UNCHANGED <<status, submitted, work, handled>>
    BY <1>6 DEF PollFails
  <2>2. \A t \in Subscribers, n \in Messages : InHand(t, n)' => InHand(t, n)
    BY <1>6 DEF PollFails, InHand, TypeOK
  <2> QED
    BY <2>1, <2>2 DEF HandledInv, InPool
<1>7. ASSUME NEW s \in Subscribers, StartWork(s)
      PROVE  HandledInv'
  <2>1. UNCHANGED <<status, pc, message, handled>>
    BY <1>7 DEF StartWork
  <2>2. PICK m \in Messages :
          /\ InPool(s, m)
          /\ work' = [work EXCEPT ![s][m] = "context"]
          /\ \A t \in Subscribers, n \in Messages : InPool(t, n)' => InPool(t, n)
    BY <1>7, StartWorkMoves
  <2>3. \A t \in Subscribers, n \in Messages : InHand(t, n)' <=> InHand(t, n)
    BY <2>1 DEF InHand
  <2>4. \A t \in Subscribers, n \in Messages :
          work'[t][n] = IF t = s /\ n = m THEN "context" ELSE work[t][n]
    BY <2>2 DEF TypeOK
  <2> QED
    BY <2>1, <2>2, <2>3, <2>4 DEF HandledInv
<1>8. ASSUME NEW s \in Subscribers, NEW m \in Messages,
             AcknowledgeFails(s, m) \/ LogFails(s, m)
      PROVE  HandledInv'
  <2>1. UNCHANGED <<status, pc, message, submitted, handled>>
    BY <1>8 DEF AcknowledgeFails, LogFails
  <2>2. /\ work[s][m] \in {"context", "handled"}
        /\ \A t \in Subscribers, n \in Messages :
             work'[t][n] = IF t = s /\ n = m THEN "raised" ELSE work[t][n]
    BY <1>8 DEF AcknowledgeFails, LogFails, Work, TypeOK
  <2> QED
    BY <2>1, <2>2 DEF HandledInv, InHand, InPool
<1>9. ASSUME NEW s \in Subscribers, NEW m \in Messages, Handle(s, m)
      PROVE  HandledInv'
  <2>1. UNCHANGED <<status, pc, message, submitted>>
    BY <1>9 DEF Handle
  <2>2. /\ work[s][m] = "context"
        /\ \A t \in Subscribers, n \in Messages :
             work'[t][n] = IF t = s /\ n = m THEN "handled" ELSE work[t][n]
    BY <1>9 DEF Handle, Work, TypeOK
  <2>3. handled[m] = 0 /\ handled' = [handled EXCEPT ![m] = 1]
    <3>1. handled[m] = 0
      BY <2>2 DEF HandledInv
    <3> QED
      BY <1>9, <3>1 DEF Handle
  <2>4. /\ status[m] = "PROCESSING"
        /\ ~InHand(s, m) /\ ~InPool(s, m)
        /\ \A t \in Subscribers \ {s} :
             ~InHand(t, m) /\ ~InPool(t, m) /\ work[t][m] = "none"
    BY <2>2 DEF OneOwner, Owns, AtWork
  <2> QED
    BY <2>1, <2>2, <2>3, <2>4 DEF HandledInv, InHand, InPool, TypeOK
<1>10. ASSUME NEW s \in Subscribers, NEW m \in Messages,
              Leave(s, m) \/ WorkerFails(s, m)
       PROVE  HandledInv'
  <2>1. UNCHANGED <<pc, message, submitted, handled>>
    BY <1>10 DEF Leave, WorkerFails
  <2>2. \A t \in Subscribers, n \in Messages :
          work'[t][n] = IF t = s /\ n = m THEN "none" ELSE work[t][n]
    BY <1>10 DEF Leave, WorkerFails, Work, TypeOK
  <2>3. \A n \in Messages :
          status'[n] \in {"absent", "NOT_PROCESSED"} => status'[n] = status[n]
    <3>1. FinalStatus(s, m) \notin {"absent", "NOT_PROCESSED"}
      BY DEF FinalStatus
    <3> QED
      BY <1>10, <3>1 DEF Leave, WorkerFails, TypeOK
  <2> QED
    BY <2>1, <2>2, <2>3 DEF HandledInv, InHand, InPool
<1>11. ASSUME NEW s \in Subscribers, Crash(s)
       PROVE  HandledInv'
  <2>1. UNCHANGED <<status, handled>>
    BY <1>11 DEF Crash
  <2>2. \A n \in Messages :
          /\ ~InHand(s, n)' /\ ~InPool(s, n)'
          /\ work'[s][n] = "none"
    BY <1>11 DEF Crash, InHand, InPool, Idle, TypeOK
  <2>3. \A t \in Subscribers \ {s}, n \in Messages :
          /\ InHand(t, n)' <=> InHand(t, n)
          /\ InPool(t, n)' <=> InPool(t, n)
          /\ work'[t][n] = work[t][n]
    BY <1>11 DEF Crash, InHand, InPool, TypeOK
  <2> QED
    BY <2>1, <2>2, <2>3 DEF HandledInv
<1>12. ASSUME NEW s \in Subscribers, Restart(s)
       PROVE  HandledInv'
  <2>1. UNCHANGED <<status, message, submitted, work, handled>>
    BY <1>12 DEF Restart
  <2>2. \A t \in Subscribers, n \in Messages : InHand(t, n)' => InHand(t, n)
    BY <1>12 DEF Restart, InHand, TypeOK
  <2> QED
    BY <2>1, <2>2 DEF HandledInv, InPool
<1> QED
  BY <1>1, <1>2, <1>3, <1>4, <1>5, <1>6, <1>7, <1>8, <1>9, <1>10, <1>11, <1>12
  DEF Next, Poll, Worker, Fault

(* HandledInv is an invariant.                                             *)
LEMMA HandledInvHolds == Spec => []HandledInv
<1>1. Init => HandledInv
  BY DEF Init, HandledInv, InHand, InPool, Idle
<1>2. TypeOK /\ OneOwner /\ HandledInv /\ [Next]_vars => HandledInv'
  BY HandledStep
<1> QED
  BY <1>1, <1>2, TypeCorrect, OneOwnerHolds, PTL DEF Spec

(* No message reaches a handler twice, whatever crashes, restarts and      *)
(* competing subscribers do.                                               *)
THEOREM HandledAtMostOnceHolds == Spec => []HandledAtMostOnce
<1>1. HandledInv => HandledAtMostOnce
  BY DEF HandledInv, HandledAtMostOnce
<1> QED
  BY <1>1, HandledInvHolds, PTL

-----------------------------------------------------------------------------
(* What a step does to the abstract state, from what it does to the rows   *)
(* and to the owners.                                                      *)
LEMMA SameState ==
  ASSUME UNCHANGED <<status, handled>>,
         \A s \in Subscribers, m \in Messages : Owns(s, m)' <=> Owns(s, m)
  PROVE  UNCHANGED AtMostOnce!vars
<1>1. \A m \in Messages : StateOf(m)' = StateOf(m)
  BY DEF StateOf
<1> QED
  BY <1>1 DEF AtMostOnce!vars

(* A step that moves one message is that Move of AtMostOnceQueue.          *)
LEMMA StateMoves ==
  ASSUME NEW m \in Messages, NEW from, NEW to,
         StateOf(m) = from, StateOf(m)' = to,
         \A n \in Messages \ {m} : StateOf(n)' = StateOf(n),
         UNCHANGED handled
  PROVE  AtMostOnce!Move(m, from, to)
BY DEF AtMostOnce!Move

(* Every step is a step of AtMostOnceQueue, or changes nothing in it.      *)
LEMMA PromiseStep ==
  ASSUME TypeOK, OneOwner, OneOwner', HandledInv, [Next]_vars
  PROVE  [AtMostOnce!Next]_(AtMostOnce!vars)
<1>1. CASE UNCHANGED vars
  BY <1>1, SameState DEF vars, Owns, InHand, InPool, AtWork
<1>2. ASSUME NEW m \in Messages, Store(m)
      PROVE  AtMostOnce!Next
  <2>1. /\ status[m] = "absent" /\ status'[m] = "NOT_PROCESSED"
        /\ \A n \in Messages \ {m} : status'[n] = status[n]
        /\ UNCHANGED handled
    BY <1>2 DEF Store, TypeOK
  <2>2. \A s \in Subscribers, n \in Messages : Owns(s, n)' <=> Owns(s, n)
    BY <1>2 DEF Store, Owns, InHand, InPool, AtWork
  <2>3. AtMostOnce!Arrive(m)
    BY <2>1, <2>2, StateMoves DEF StateOf, AtMostOnce!Arrive
  <2> QED
    BY <2>3 DEF AtMostOnce!Next
<1>3. ASSUME NEW s \in Subscribers, Select(s)
      PROVE  UNCHANGED AtMostOnce!vars
  <2>1. UNCHANGED <<status, submitted, work, handled>>
    BY <1>3 DEF Select
  <2>2. \A t \in Subscribers, n \in Messages : InHand(t, n)' <=> InHand(t, n)
    BY <1>3 DEF Select, InHand, TypeOK
  <2> QED
    BY <2>1, <2>2, SameState DEF Owns, InPool, AtWork
<1>4. ASSUME NEW s \in Subscribers, Claim(s)
      PROVE  AtMostOnce!Next
  <2>1. PICK m \in Messages : m = message[s] /\ status[m] = "NOT_PROCESSED"
    BY <1>4, NoMessageFresh DEF Claim, Unclaimed, TypeOK
  <2>2. /\ status'[m] = "PROCESSING"
        /\ \A n \in Messages \ {m} : status'[n] = status[n]
        /\ UNCHANGED handled
    BY <1>4, <2>1 DEF Claim, TypeOK
  <2>3. \A t \in Subscribers, n \in Messages \ {m} : Owns(t, n)' <=> Owns(t, n)
    BY <1>4, <2>1 DEF Claim, Owns, InHand, InPool, AtWork, TypeOK
  <2>4. Owns(s, m)'
    BY <1>4, <2>1 DEF Claim, Owns, InHand, TypeOK
  <2>5. StateOf(m) = "waiting" /\ StateOf(m)' = "taken"
    BY <2>1, <2>2, <2>4 DEF StateOf
  <2>6. \A n \in Messages \ {m} : StateOf(n)' = StateOf(n)
    BY <2>2, <2>3 DEF StateOf
  <2>7. AtMostOnce!Take(m)
    BY <2>2, <2>5, <2>6, StateMoves DEF AtMostOnce!Take
  <2> QED
    BY <2>7 DEF AtMostOnce!Next
<1>5. ASSUME NEW s \in Subscribers, Submit(s)
      PROVE  UNCHANGED AtMostOnce!vars
  <2>1. UNCHANGED <<status, work, handled>>
    BY <1>5 DEF Submit
  <2>2. \A t \in Subscribers, n \in Messages : Owns(t, n)' <=> Owns(t, n)
    BY <1>5, <2>1, SubmitMoves DEF Owns, AtWork
  <2> QED
    BY <2>1, <2>2, SameState
<1>6. ASSUME NEW s \in Subscribers, PollFails(s)
      PROVE  UNCHANGED AtMostOnce!vars
  <2>1. UNCHANGED <<status, submitted, work, handled>>
    BY <1>6 DEF PollFails
  <2>2. \A t \in Subscribers, n \in Messages : InHand(t, n)' <=> InHand(t, n)
    BY <1>6 DEF PollFails, InHand, TypeOK
  <2> QED
    BY <2>1, <2>2, SameState DEF Owns, InPool, AtWork
<1>7. ASSUME NEW s \in Subscribers, StartWork(s)
      PROVE  UNCHANGED AtMostOnce!vars
  <2>1. UNCHANGED <<status, pc, message, handled>>
    BY <1>7 DEF StartWork
  <2>2. \A t \in Subscribers, n \in Messages : Owns(t, n)' <=> Owns(t, n)
    BY <1>7, <2>1, StartWorkMoves DEF Owns, InHand
  <2> QED
    BY <2>1, <2>2, SameState
<1>8. ASSUME NEW s \in Subscribers, NEW m \in Messages,
             AcknowledgeFails(s, m) \/ LogFails(s, m)
      PROVE  UNCHANGED AtMostOnce!vars
  <2>1. UNCHANGED <<status, pc, message, submitted, handled>>
    BY <1>8 DEF AcknowledgeFails, LogFails
  <2>2. \A t \in Subscribers, n \in Messages : AtWork(t, n)' <=> AtWork(t, n)
    <3>1. work[s][m] # "none" /\ work' = [work EXCEPT ![s][m] = "raised"]
      BY <1>8 DEF AcknowledgeFails, LogFails, Work
    <3>2. "raised" # "none"
      OBVIOUS
    <3> QED
      BY <3>1, <3>2 DEF AtWork, TypeOK
  <2> QED
    BY <2>1, <2>2, SameState DEF Owns, InHand, InPool
<1>9. ASSUME NEW s \in Subscribers, NEW m \in Messages, Handle(s, m)
      PROVE  AtMostOnce!Next
  <2>1. UNCHANGED <<status, pc, message, submitted>>
    BY <1>9 DEF Handle
  <2>2. work[s][m] = "context" /\ work' = [work EXCEPT ![s][m] = "handled"]
    BY <1>9 DEF Handle, Work
  <2>3. \A t \in Subscribers, n \in Messages : Owns(t, n)' <=> Owns(t, n)
    BY <2>1, <2>2 DEF Owns, InHand, InPool, AtWork, TypeOK
  <2>4. handled[m] = 0 /\ handled' = [handled EXCEPT ![m] = 1]
    <3>1. handled[m] = 0
      BY <2>2 DEF HandledInv
    <3> QED
      BY <1>9, <3>1 DEF Handle
  <2>5. StateOf(m) = "taken"
    <3>1. Owns(s, m)
      BY <2>2 DEF Owns, AtWork
    <3>2. status[m] = "PROCESSING"
      BY <3>1 DEF OneOwner
    <3> QED
      BY <3>1, <3>2 DEF StateOf
  <2>6. \A n \in Messages : StateOf(n)' = StateOf(n)
    BY <2>1, <2>3 DEF StateOf
  <2>7. AtMostOnce!Handle(m)
    BY <2>4, <2>5, <2>6 DEF AtMostOnce!Handle
  <2> QED
    BY <2>7 DEF AtMostOnce!Next
<1>10. ASSUME NEW s \in Subscribers, NEW m \in Messages,
              Leave(s, m) \/ WorkerFails(s, m)
       PROVE  AtMostOnce!Next
  <2>1. UNCHANGED <<pc, message, submitted, handled>>
    BY <1>10 DEF Leave, WorkerFails
  <2>2. /\ work[s][m] # "none" /\ work' = [work EXCEPT ![s][m] = "none"]
        /\ \A n \in Messages \ {m} : status'[n] = status[n]
    BY <1>10 DEF Leave, WorkerFails, Work, TypeOK, WorkSteps
  <2>3. \A t \in Subscribers, n \in Messages \ {m} : Owns(t, n)' <=> Owns(t, n)
    BY <2>1, <2>2 DEF Owns, InHand, InPool, AtWork, TypeOK
  <2>4. Owns(s, m) /\ status[m] = "PROCESSING" /\ StateOf(m) = "taken"
    <3>1. Owns(s, m)
      BY <2>2 DEF Owns, AtWork
    <3>2. status[m] = "PROCESSING"
      BY <3>1 DEF OneOwner
    <3> QED
      BY <3>1, <3>2 DEF StateOf
  <2>5. \A t \in Subscribers : ~Owns(t, m)'
    <3>1. \A t \in Subscribers \ {s} : ~Owns(t, m)
      BY <2>4 DEF OneOwner
    <3>2. \A t \in Subscribers \ {s} : ~Owns(t, m)'
      <4>1. \A t \in Subscribers \ {s} : work'[t][m] = work[t][m]
        BY <2>2 DEF TypeOK
      <4> QED
        BY <2>1, <3>1, <4>1 DEF Owns, InHand, InPool, AtWork
    <3>3. ~InHand(s, m) /\ ~InPool(s, m)
      BY <2>2 DEF OneOwner, AtWork
    <3>4. ~Owns(s, m)'
      <4>1. work'[s][m] = "none"
        BY <2>2 DEF TypeOK
      <4> QED
        BY <2>1, <3>3, <4>1 DEF Owns, InHand, InPool, AtWork
    <3> QED
      BY <3>2, <3>4
  <2>6. \A n \in Messages \ {m} : StateOf(n)' = StateOf(n)
    BY <2>2, <2>3 DEF StateOf
  <2>7. CASE Leave(s, m) /\ work[s][m] = "handled"
    <3>1. status'[m] = "PROCESSED"
      BY <2>7 DEF Leave, FinalStatus, TypeOK
    <3>2. StateOf(m)' = "done"
      BY <3>1 DEF StateOf
    <3>3. handled[m] = 1
      BY <2>7 DEF HandledInv
    <3>4. AtMostOnce!Finish(m)
      BY <2>1, <2>4, <2>6, <3>2, <3>3, StateMoves DEF AtMostOnce!Finish
    <3> QED
      BY <3>4 DEF AtMostOnce!Next
  <2>8. CASE Leave(s, m) /\ work[s][m] = "raised"
    <3>1. status'[m] = "ERROR"
      BY <2>8 DEF Leave, FinalStatus, TypeOK
    <3>2. StateOf(m)' = "failed"
      BY <3>1 DEF StateOf
    <3>3. AtMostOnce!Fail(m)
      BY <2>1, <2>4, <2>6, <3>2, StateMoves DEF AtMostOnce!Fail
    <3> QED
      BY <3>3 DEF AtMostOnce!Next
  <2>9. CASE WorkerFails(s, m)
    <3>1. status'[m] = "PROCESSING"
      BY <2>4, <2>9 DEF WorkerFails
    <3>2. StateOf(m)' = "lost"
      BY <2>5, <3>1 DEF StateOf
    <3>3. AtMostOnce!Lose({m})
      BY <2>1, <2>4, <2>6, <3>2 DEF AtMostOnce!Lose
    <3> QED
      BY <3>3 DEF AtMostOnce!Next
  <2> QED
    BY <1>10, <2>7, <2>8, <2>9 DEF Leave, Work
<1>11. ASSUME NEW s \in Subscribers, Crash(s)
       PROVE  AtMostOnce!Next
  <2> DEFINE S == {m \in Messages : Owns(s, m)}
  <2>1. UNCHANGED <<status, handled>>
    BY <1>11 DEF Crash
  <2>2. \A n \in Messages : ~Owns(s, n)'
    BY <1>11 DEF Crash, Owns, InHand, InPool, AtWork, Idle, TypeOK
  <2>3. \A t \in Subscribers \ {s}, n \in Messages : Owns(t, n)' <=> Owns(t, n)
    BY <1>11 DEF Crash, Owns, InHand, InPool, AtWork, TypeOK
  <2>4. \A m \in S : /\ StateOf(m) = "taken"
                     /\ StateOf(m)' = "lost"
    <3> SUFFICES ASSUME NEW m \in S
                 PROVE  StateOf(m) = "taken" /\ StateOf(m)' = "lost"
      OBVIOUS
    <3>1. status[m] = "PROCESSING" /\ \A t \in Subscribers \ {s} : ~Owns(t, m)
      BY DEF OneOwner
    <3>2. \A t \in Subscribers : ~Owns(t, m)'
      BY <2>2, <2>3, <3>1
    <3> QED
      BY <2>1, <3>1, <3>2 DEF StateOf
  <2>5. \A m \in Messages \ S : StateOf(m)' = StateOf(m)
    BY <2>1, <2>2, <2>3 DEF StateOf
  <2>6. AtMostOnce!Lose(S)
    BY <2>1, <2>4, <2>5 DEF AtMostOnce!Lose
  <2> QED
    BY <2>6 DEF AtMostOnce!Next
<1>12. ASSUME NEW s \in Subscribers, Restart(s)
       PROVE  UNCHANGED AtMostOnce!vars
  <2>1. UNCHANGED <<status, message, submitted, work, handled>>
    BY <1>12 DEF Restart
  <2>2. \A t \in Subscribers, n \in Messages : InHand(t, n)' <=> InHand(t, n)
    BY <1>12 DEF Restart, InHand, TypeOK
  <2> QED
    BY <2>1, <2>2, SameState DEF Owns, InPool, AtWork
<1> QED
  BY <1>1, <1>2, <1>3, <1>4, <1>5, <1>6, <1>7, <1>8, <1>9, <1>10, <1>11, <1>12
  DEF Next, Poll, Worker, Fault

(* The table keeps its promise: a message is taken once, handled at most   *)
(* once and settled at most once, and one that a failure loses stays lost. *)
THEOREM PromiseHolds == Spec => Promise
<1>1. Init => AtMostOnce!Init
  BY DEF Init, AtMostOnce!Init, StateOf
<1>2. TypeOK /\ OneOwner /\ OneOwner' /\ HandledInv /\ [Next]_vars
        => [AtMostOnce!Next]_(AtMostOnce!vars)
  BY PromiseStep
<1> QED
  BY <1>1, <1>2, TypeCorrect, OneOwnerHolds, HandledInvHolds, PTL
  DEF Spec, Promise, AtMostOnce!Spec

=============================================================================
