------------------------- MODULE SignalLoggerProofs -------------------------
(***************************************************************************)
(* Proofs about module SignalLogger, for any messages, any size of the     *)
(* pool and any number of failures and crashes.                            *)
(***************************************************************************)
EXTENDS SignalLogger, FiniteSetTheorems, TLAPS

(* Every variable keeps its type: no status of a payment is written that   *)
(* PaymentStatus does not have.                                            *)
THEOREM TypeCorrect == Spec => []TypeOK
<1>1. Init => TypeOK
  BY ListenerBounds DEF Init, TypeOK, Stages, Working, Ended, Settled
<1>2. TypeOK /\ [Next]_vars => TypeOK'
  <2> SUFFICES ASSUME TypeOK, [Next]_vars
               PROVE  TypeOK'
    OBVIOUS
  <2> USE ListenerBounds DEF TypeOK, Stages, Working, Ended
  <2>1. CASE UNCHANGED vars
    BY <2>1 DEF vars
  <2>2. ASSUME NEW m \in Messages, Receive(m)
        PROVE  TypeOK'
    BY <2>2 DEF Receive
  <2>3. ASSUME NEW m \in Messages, Begin(m)
        PROVE  TypeOK'
    BY <2>3 DEF Begin, Go
  <2>4. ASSUME NEW m \in Messages, Refuse(m)
        PROVE  TypeOK'
    BY <2>4 DEF Refuse, Go
  <2>5. ASSUME NEW m \in Messages, CreateFromSignal(m)
        PROVE  TypeOK'
    BY <2>5 DEF CreateFromSignal, Go
  <2>6. ASSUME NEW m \in Messages, CreatePayment(m)
        PROVE  TypeOK'
    BY <2>6 DEF CreatePayment, Go
  <2>7. ASSUME NEW m \in Messages, Settle(m)
        PROVE  TypeOK'
    BY <2>7 DEF Settle, Go, Settled
  <2>8. ASSUME NEW m \in Messages, Save(m)
        PROVE  TypeOK'
    BY <2>8 DEF Save, Go
  <2>9. ASSUME NEW m \in Messages, Acknowledge(m)
        PROVE  TypeOK'
    BY <2>9 DEF Acknowledge, Go
  <2>10. ASSUME NEW m \in Messages, Drop(m)
        PROVE  TypeOK'
    BY <2>10 DEF Drop, Go, Fail
  <2>11. ASSUME NEW m \in Messages, RetryCall(m)
        PROVE  TypeOK'
    BY <2>11 DEF RetryCall, Go, Fail, Settled
  <2>12. CASE StreamEnds
    BY <2>12 DEF StreamEnds
  <2>13. CASE Drained
    BY <2>13 DEF Drained
  <2>14. CASE Crash
    BY <2>14 DEF Crash
  <2>15. CASE Restart
    BY <2>15 DEF Restart
  <2> QED
    BY <2>1, <2>2, <2>3, <2>4, <2>5, <2>6, <2>7, <2>8, <2>9, <2>10, <2>11,
    <2>12, <2>13, <2>14, <2>15
    DEF Next, Step, Own
<1> QED
  BY <1>1, <1>2, PTL DEF Spec

-----------------------------------------------------------------------------
(* What makes the safety properties inductive: a payment's message leaves  *)
(* the wait only with its row settled, and a listener that has ended has   *)
(* no thread at work.                                                      *)
StageInv ==
  /\ \A m \in stored : stage[m] \in {"saved", "read", "stored"}
  /\ \A m \in Messages : stage[m] \in {"saved", "read"} => m \in stored
  /\ \A m \in Paying : stage[m] \in {"save", "saved", "read", "stored"}
                         => payment[m] \in Settled

LEMMA StageInvariant == Spec => []StageInv
<1>1. Init => StageInv
  BY ListenerBounds DEF Init, StageInv
<1>2. TypeOK /\ StageInv /\ [Next]_vars => StageInv'
  <2> SUFFICES ASSUME TypeOK, StageInv, [Next]_vars
               PROVE  StageInv'
    OBVIOUS
  <2> USE ListenerBounds DEF TypeOK, StageInv
  <2>1. CASE UNCHANGED vars
    BY <2>1 DEF vars
  <2>2. ASSUME NEW m \in Messages, Receive(m)
        PROVE  StageInv'
    BY <2>2 DEF Receive
  <2>3. ASSUME NEW m \in Messages, Begin(m)
        PROVE  StageInv'
    BY <2>3 DEF Begin, Go
  <2>4. ASSUME NEW m \in Messages, Refuse(m)
        PROVE  StageInv'
    BY <2>4 DEF Refuse, Go
  <2>5. ASSUME NEW m \in Messages, CreateFromSignal(m)
        PROVE  StageInv'
    BY <2>5 DEF CreateFromSignal, Go
  <2>6. ASSUME NEW m \in Messages, CreatePayment(m)
        PROVE  StageInv'
    BY <2>6 DEF CreatePayment, Go
  <2>7. ASSUME NEW m \in Messages, Settle(m)
        PROVE  StageInv'
    BY <2>7 DEF Settle, Go, Settled
  <2>8. ASSUME NEW m \in Messages, Save(m)
        PROVE  StageInv'
    BY <2>8 DEF Save, Go
  <2>9. ASSUME NEW m \in Messages, Acknowledge(m)
        PROVE  StageInv'
    BY <2>9 DEF Acknowledge, Go
  <2>10. ASSUME NEW m \in Messages, Drop(m)
        PROVE  StageInv'
    BY <2>10 DEF Drop, Go, Fail
  <2>11. ASSUME NEW m \in Messages, RetryCall(m)
        PROVE  StageInv'
    BY <2>11 DEF RetryCall, Go, Fail, Settled
  <2>12. CASE StreamEnds
    BY <2>12 DEF StreamEnds
  <2>13. CASE Drained
    BY <2>13 DEF Drained
  <2>14. CASE Crash
    BY <2>14 DEF Crash, Working
  <2>15. CASE Restart
    BY <2>15 DEF Restart
  <2> QED
    BY <2>1, <2>2, <2>3, <2>4, <2>5, <2>6, <2>7, <2>8, <2>9, <2>10, <2>11,
    <2>12, <2>13, <2>14, <2>15
    DEF Next, Step, Own
<1> QED
  BY <1>1, <1>2, TypeCorrect, PTL DEF Spec

(* The subscriber finds a stored payment settled, whatever is retried or   *)
(* crashes before _parse_message saves it.                                 *)
THEOREM SettledWhenStoredHolds == Spec => []SettledWhenStored
<1>1. TypeOK /\ StageInv => SettledWhenStored
  BY ListenerBounds DEF TypeOK, StageInv, SettledWhenStored
<1> QED
  BY <1>1, TypeCorrect, StageInvariant, PTL

(* A message the customer sees as read is in the database: the read        *)
(* receipt of _parse_message follows the save.                             *)
THEOREM ReadIsKeptHolds == Spec => []ReadIsKept
<1>1. StageInv => ReadIsKept
  BY DEF StageInv, ReadIsKept
<1> QED
  BY <1>1, StageInvariant, PTL

-----------------------------------------------------------------------------
(* The listener ends by itself only when its pool is drained (listen).     *)
THEOREM GracefulStopHolds == Spec => []GracefulStop
<1>1. Init => GracefulStop
  BY DEF Init, GracefulStop
<1>2. TypeOK /\ GracefulStop /\ [Next]_vars => GracefulStop'
  <2> SUFFICES ASSUME TypeOK, GracefulStop, [Next]_vars
               PROVE  GracefulStop'
    OBVIOUS
  <2> USE DEF TypeOK, GracefulStop, Ended
  <2>1. CASE UNCHANGED vars
    BY <2>1 DEF vars
  <2>2. ASSUME NEW m \in Messages, Receive(m)
        PROVE  GracefulStop'
    BY <2>2 DEF Receive
  <2>3. ASSUME NEW m \in Messages, Begin(m)
        PROVE  GracefulStop'
    BY <2>3 DEF Begin, Go
  <2>4. ASSUME NEW m \in Messages, Refuse(m)
        PROVE  GracefulStop'
    BY <2>4 DEF Refuse, Go
  <2>5. ASSUME NEW m \in Messages, CreateFromSignal(m)
        PROVE  GracefulStop'
    BY <2>5 DEF CreateFromSignal, Go
  <2>6. ASSUME NEW m \in Messages, CreatePayment(m)
        PROVE  GracefulStop'
    BY <2>6 DEF CreatePayment, Go
  <2>7. ASSUME NEW m \in Messages, Settle(m)
        PROVE  GracefulStop'
    BY <2>7 DEF Settle, Go, Settled
  <2>8. ASSUME NEW m \in Messages, Save(m)
        PROVE  GracefulStop'
    BY <2>8 DEF Save, Go
  <2>9. ASSUME NEW m \in Messages, Acknowledge(m)
        PROVE  GracefulStop'
    BY <2>9 DEF Acknowledge, Go
  <2>10. ASSUME NEW m \in Messages, Drop(m)
        PROVE  GracefulStop'
    BY <2>10 DEF Drop, Go, Fail
  <2>11. ASSUME NEW m \in Messages, RetryCall(m)
        PROVE  GracefulStop'
    BY <2>11 DEF RetryCall, Go, Fail, Settled
  <2>12. CASE StreamEnds
    BY <2>12 DEF StreamEnds
  <2>13. CASE Drained
    BY <2>13 DEF Drained, Stages, Working
  <2>14. CASE Crash
    BY <2>14 DEF Crash
  <2>15. CASE Restart
    BY <2>15 DEF Restart
  <2> QED
    BY <2>1, <2>2, <2>3, <2>4, <2>5, <2>6, <2>7, <2>8, <2>9, <2>10, <2>11,
    <2>12, <2>13, <2>14, <2>15
    DEF Next, Step, Own
<1> QED
  BY <1>1, <1>2, TypeCorrect, PTL DEF Spec

-----------------------------------------------------------------------------
(* The pool: never more threads at work than it has, and none of them on a *)
(* message that is later in the stream than one still queued.              *)
PoolInv ==
  /\ Cardinality(Busy) <= PoolSize
  /\ \A m \in Messages : arrival[m] <= received
  /\ \A k, m \in Messages : stage[k] = "queued" /\ stage[m] \in Working
                              => arrival[m] <= arrival[k]

(* A step that sets no thread to work keeps the bound on the busy ones.    *)
LEMMA FewerBusy ==
  ASSUME TypeOK, Cardinality(Busy) <= PoolSize, Busy' \subseteq Busy
  PROVE  Cardinality(Busy') <= PoolSize
<1>1. IsFiniteSet(Busy)
  BY ListenerBounds, FS_Subset DEF Busy
<1>2. Cardinality(Busy') <= Cardinality(Busy)
  BY <1>1, FS_Subset
<1>3. Cardinality(Busy) \in Nat /\ Cardinality(Busy') \in Nat
  BY <1>1, FS_Subset, FS_CardinalityType
<1> QED
  BY <1>2, <1>3, ListenerBounds

LEMMA PoolInvariant == Spec => []PoolInv
<1>1. Init => PoolInv
  <2> SUFFICES ASSUME Init
               PROVE  PoolInv
    OBVIOUS
  <2>1. Busy = {}
    BY DEF Init, Busy, Working
  <2>2. Cardinality(Busy) = 0
    BY <2>1, FS_EmptySet
  <2> QED
    BY <2>2, ListenerBounds DEF Init, PoolInv
<1>2. TypeOK /\ PoolInv /\ [Next]_vars => PoolInv'
  <2> SUFFICES ASSUME TypeOK, PoolInv, [Next]_vars
               PROVE  PoolInv'
    OBVIOUS
  <2> USE ListenerBounds DEF TypeOK
  <2>1. CASE UNCHANGED vars
    BY <2>1 DEF vars, PoolInv, Busy
  <2>2. ASSUME NEW m \in Messages, Receive(m)
        PROVE  PoolInv'
    <3>1. Busy' \subseteq Busy
      BY <2>2 DEF Receive, Busy, Working
    <3>2. Cardinality(Busy') <= PoolSize
      BY <3>1, FewerBusy DEF PoolInv
    <3>3. \A k \in Messages : arrival'[k] <= received'
      BY <2>2 DEF Receive, PoolInv
    <3>4. \A k, n \in Messages : stage'[k] = "queued" /\ stage'[n] \in Working
                                   => arrival'[n] <= arrival'[k]
      <4> SUFFICES ASSUME NEW k \in Messages, NEW n \in Messages,
                          stage'[k] = "queued", stage'[n] \in Working
                   PROVE  arrival'[n] <= arrival'[k]
        OBVIOUS
      <4>1. n # m /\ stage[n] \in Working /\ arrival'[n] = arrival[n]
        BY <2>2 DEF Receive, Working
      <4>2. CASE k = m
        BY <2>2, <4>1, <4>2 DEF Receive, PoolInv
      <4>3. CASE k # m
        BY <2>2, <4>1, <4>3 DEF Receive, PoolInv
      <4> QED
        BY <4>2, <4>3
    <3> QED
      BY <3>2, <3>3, <3>4 DEF PoolInv
  <2>3. ASSUME NEW m \in Messages, Begin(m)
        PROVE  PoolInv'
    <3>1. Busy' = Busy \cup {m} /\ m \notin Busy
      BY <2>3 DEF Begin, Go, Busy, Working
    <3>2. IsFiniteSet(Busy)
      BY FS_Subset DEF Busy
    <3>3. Cardinality(Busy') = Cardinality(Busy) + 1
      BY <3>1, <3>2, FS_AddElement
    <3>4. Cardinality(Busy) \in Nat /\ Cardinality(Busy) < PoolSize
      BY <2>3, <3>2, FS_CardinalityType DEF Begin
    <3>5. Cardinality(Busy') <= PoolSize
      BY <3>3, <3>4
    <3>6. \A k, n \in Messages : stage'[k] = "queued" /\ stage'[n] \in Working
                                   => arrival'[n] <= arrival'[k]
      BY <2>3 DEF Begin, Go, PoolInv, Working
    <3> QED
      BY <2>3, <3>5, <3>6 DEF Begin, Go, PoolInv
  <2>4. ASSUME NEW m \in Messages, Refuse(m)
        PROVE  PoolInv'
    <3>1. Busy' \subseteq Busy
      BY <2>4 DEF Refuse, Go, Busy, Working
    <3>2. Cardinality(Busy') <= PoolSize
      BY <3>1, FewerBusy DEF PoolInv
    <3> QED
      BY <2>4, <3>2 DEF Refuse, Go, PoolInv, Working
  <2>5. ASSUME NEW m \in Messages, CreateFromSignal(m)
        PROVE  PoolInv'
    <3>1. Busy' \subseteq Busy
      BY <2>5 DEF CreateFromSignal, Go, Busy, Working
    <3>2. Cardinality(Busy') <= PoolSize
      BY <3>1, FewerBusy DEF PoolInv
    <3> QED
      BY <2>5, <3>2 DEF CreateFromSignal, Go, PoolInv, Working
  <2>6. ASSUME NEW m \in Messages, CreatePayment(m)
        PROVE  PoolInv'
    <3>1. Busy' \subseteq Busy
      BY <2>6 DEF CreatePayment, Go, Busy, Working
    <3>2. Cardinality(Busy') <= PoolSize
      BY <3>1, FewerBusy DEF PoolInv
    <3> QED
      BY <2>6, <3>2 DEF CreatePayment, Go, PoolInv, Working
  <2>7. ASSUME NEW m \in Messages, Settle(m)
        PROVE  PoolInv'
    <3>1. Busy' \subseteq Busy
      BY <2>7 DEF Settle, Go, Settled, Busy, Working
    <3>2. Cardinality(Busy') <= PoolSize
      BY <3>1, FewerBusy DEF PoolInv
    <3> QED
      BY <2>7, <3>2 DEF Settle, Go, Settled, PoolInv, Working
  <2>8. ASSUME NEW m \in Messages, Save(m)
        PROVE  PoolInv'
    <3>1. Busy' \subseteq Busy
      BY <2>8 DEF Save, Go, Busy, Working
    <3>2. Cardinality(Busy') <= PoolSize
      BY <3>1, FewerBusy DEF PoolInv
    <3> QED
      BY <2>8, <3>2 DEF Save, Go, PoolInv, Working
  <2>9. ASSUME NEW m \in Messages, Acknowledge(m)
        PROVE  PoolInv'
    <3>1. Busy' \subseteq Busy
      BY <2>9 DEF Acknowledge, Go, Busy, Working
    <3>2. Cardinality(Busy') <= PoolSize
      BY <3>1, FewerBusy DEF PoolInv
    <3> QED
      BY <2>9, <3>2 DEF Acknowledge, Go, PoolInv, Working
  <2>10. ASSUME NEW m \in Messages, Drop(m)
        PROVE  PoolInv'
    <3>1. Busy' \subseteq Busy
      BY <2>10 DEF Drop, Go, Fail, Busy, Working
    <3>2. Cardinality(Busy') <= PoolSize
      BY <3>1, FewerBusy DEF PoolInv
    <3> QED
      BY <2>10, <3>2 DEF Drop, Go, Fail, PoolInv, Working
  <2>11. ASSUME NEW m \in Messages, RetryCall(m)
        PROVE  PoolInv'
    <3>1. Busy' \subseteq Busy
      BY <2>11 DEF RetryCall, Go, Fail, Settled, Busy, Working
    <3>2. Cardinality(Busy') <= PoolSize
      BY <3>1, FewerBusy DEF PoolInv
    <3> QED
      BY <2>11, <3>2 DEF RetryCall, Go, Fail, Settled, PoolInv, Working
  <2>12. CASE StreamEnds
    BY <2>12 DEF StreamEnds, PoolInv, Busy
  <2>13. CASE Drained
    BY <2>13 DEF Drained, PoolInv, Busy
  <2>14. CASE Crash
    <3>1. Busy' \subseteq Busy
      BY <2>14 DEF Crash, Busy, Working
    <3>2. Cardinality(Busy') <= PoolSize
      BY <3>1, FewerBusy DEF PoolInv
    <3> QED
      BY <2>14, <3>2 DEF Crash, PoolInv, Working
  <2>15. CASE Restart
    BY <2>15 DEF Restart, PoolInv, Busy
  <2> QED
    BY <2>1, <2>2, <2>3, <2>4, <2>5, <2>6, <2>7, <2>8, <2>9, <2>10, <2>11,
    <2>12, <2>13, <2>14, <2>15
    DEF Next, Step, Own
<1> QED
  BY <1>1, <1>2, TypeCorrect, PTL DEF Spec

(* A message is stored past at most PoolSize - 1 earlier ones: they are in *)
(* threads of the pool, which takes messages in order.                     *)
THEOREM BoundedOvertakingHolds == Spec => BoundedOvertaking
<1>1. TypeOK /\ PoolInv /\ [Next]_vars =>
        [\A m \in stored' \ stored : Cardinality(Overtaken(m)) < PoolSize]_vars
  <2> SUFFICES ASSUME TypeOK, PoolInv, [Next]_vars,
                      NEW m \in stored' \ stored
               PROVE  Cardinality(Overtaken(m)) < PoolSize
    OBVIOUS
  <2>1. m \in Messages /\ stage[m] = "save"
    BY DEF Next, Step, Own, vars, Receive, Begin, Refuse, CreateFromSignal,
       CreatePayment, Settle, Save, Acknowledge, Drop, RetryCall, StreamEnds,
       Drained, Crash, Restart, Go
  <2>2. m \in Busy
    BY <2>1 DEF Busy, Working
  <2>3. Overtaken(m) \subseteq Busy \ {m}
    BY <2>1 DEF Overtaken, Busy, PoolInv, TypeOK, Working
  <2>4. IsFiniteSet(Busy)
    BY ListenerBounds, FS_Subset DEF Busy
  <2>5. IsFiniteSet(Busy \ {m}) /\ Cardinality(Busy \ {m}) = Cardinality(Busy) - 1
    BY <2>2, <2>4, FS_RemoveElement
  <2>6. /\ IsFiniteSet(Overtaken(m))
        /\ Cardinality(Overtaken(m)) <= Cardinality(Busy \ {m})
    BY <2>3, <2>5, FS_Subset
  <2>7. Cardinality(Busy) \in Nat /\ Cardinality(Overtaken(m)) \in Nat
    BY <2>4, <2>6, FS_CardinalityType
  <2> QED
    BY <2>5, <2>6, <2>7, ListenerBounds DEF PoolInv
<1> QED
  BY <1>1, TypeCorrect, PoolInvariant, PTL DEF Spec, BoundedOvertaking
=============================================================================
