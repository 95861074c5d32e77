---------------------------- MODULE SignalLogger ----------------------------
(***************************************************************************)
(* The listener (signal_logger.main.SignalLogger): it reads the stream of  *)
(* messages of signald and hands each to a pool of threads, which write it *)
(* to the database.  A message that carries a payment is stored only when  *)
(* the receipt of the payment is settled (MCClient.process_signal_payment, *)
(* retried without limit by Payments.process_signal_payment).              *)
(*                                                                         *)
(* The wallet may hold a thread for ever.  It may refuse a receipt, or     *)
(* answer without its txo, as often as it is asked; it may call a          *)
(* transaction pending that never lands; and a retry after the row of the  *)
(* payment is created never ends, as the row of a receipt is unique and    *)
(* the retry begins with a second one.                                     *)
(***************************************************************************)
EXTENDS Naturals, FiniteSets

CONSTANTS
  Messages,      \* what the stream of signald may deliver
  Texts,         \* the messages with a text and no payment
  Paying,        \* the messages with a payment; the others have neither
  PoolSize,      \* threads of the pool (max_workers=4)
  MaxFailures,   \* failing database and wallet calls
  MaxCrashes     \* ends of the process at an arbitrary point

ASSUME ListenerBounds ==
  /\ IsFiniteSet(Messages)
  /\ Texts \subseteq Messages /\ Paying \subseteq Messages
  /\ Texts \cap Paying = {}
  /\ PoolSize \in Nat \ {0} /\ MaxFailures \in Nat /\ MaxCrashes \in Nat

VARIABLES
  listener,      \* the process: it reads, drains its pool, ended, is gone
  received,      \* messages read so far
  arrival,       \* per message, its number in the stream, 0 before it is read
  stage,         \* per message, how far _parse_message came
  payment,       \* per message, the status of the row of its payment
  stored,        \* the messages with a row of class Message
  failures, crashes

vars ==
  <<listener, received, arrival, stage, payment, stored, failures, crashes>>

Working == {"begun", "check", "wait", "save", "saved"}
Ended   == {"read", "stored", "dropped", "lost"}
Stages  == {"unread", "queued"} \cup Working \cup Ended
Settled == {"TransactionSuccess", "Failure"}

TypeOK ==
  /\ listener \in {"up", "draining", "ended", "down"}
  /\ received \in Nat
  /\ arrival \in [Messages -> Nat]
  /\ stage \in [Messages -> Stages]
  /\ payment \in [Messages -> Settled \cup {"none", "TransactionPending"}]
  /\ stored \subseteq Messages
  /\ failures \in 0 .. MaxFailures
  /\ crashes \in 0 .. MaxCrashes

Init ==
  /\ listener = "up"
  /\ received = 0
  /\ arrival = [m \in Messages |-> 0]
  /\ stage = [m \in Messages |-> "unread"]
  /\ payment = [m \in Messages |-> "none"]
  /\ stored = {}
  /\ failures = 0 /\ crashes = 0

Busy  == {m \in Messages : stage[m] \in Working}
Held  == {m \in Messages : stage[m] \in {"check", "wait"}}

-----------------------------------------------------------------------------
(* SignalLogger.listen: the main thread of the listener.                   *)

Receive(m) ==
  /\ listener = "up" /\ stage[m] = "unread"
  /\ received' = received + 1
  /\ arrival' = [arrival EXCEPT ![m] = received + 1]
  /\ stage' = [stage EXCEPT ![m] = "queued"]
  /\ UNCHANGED <<listener, payment, stored, failures, crashes>>

(* StopIteration with stop_when_done, or an interrupt: the pool is left.   *)
StreamEnds ==
  /\ listener = "up"
  /\ listener' = "draining"
  /\ UNCHANGED <<received, arrival, stage, payment, stored, failures, crashes>>

(* As it would be if the executor's shutdown did not wait for its threads. *)
DrainedQueue ==
  /\ listener = "draining"
  /\ \A m \in Messages : stage[m] # "queued"
  /\ listener' = "ended"
  /\ UNCHANGED <<received, arrival, stage, payment, stored, failures, crashes>>

(* The executor's shutdown waits for every future it still holds.          *)
Drained ==
  /\ listener = "draining"
  /\ \A m \in Messages : stage[m] \notin Working \cup {"queued"}
  /\ listener' = "ended"
  /\ UNCHANGED <<received, arrival, stage, payment, stored, failures, crashes>>

-----------------------------------------------------------------------------
(* SignalLogger._parse_message, in a thread of the pool.                   *)

Go(m, from, to) ==
  /\ stage[m] = from
  /\ stage' = [stage EXCEPT ![m] = to]
  /\ UNCHANGED <<listener, received, arrival, crashes>>

Fail ==
  /\ failures < MaxFailures
  /\ failures' = failures + 1

(* As it would be if the work queue were not in order. *)
BeginAny(m) ==
  /\ Go(m, "queued", "begun")
  /\ Cardinality(Busy) < PoolSize
  /\ UNCHANGED <<payment, stored, failures>>

(* As it would be if the last thread were kept free. *)
BeginWithReserve(m) ==
  /\ Go(m, "queued", "begun")
  /\ Cardinality(Busy) + 1 < PoolSize
  /\ \A k \in Messages : stage[k] = "queued" => arrival[m] <= arrival[k]
  /\ UNCHANGED <<payment, stored, failures>>

(* The work queue of the executor is first in, first out.                  *)
Begin(m) ==
  /\ Go(m, "queued", "begun")
  /\ Cardinality(Busy) < PoolSize
  /\ \A k \in Messages : stage[k] = "queued" => arrival[m] <= arrival[k]
  /\ UNCHANGED <<payment, stored, failures>>

Refuse(m) ==
  /\ m \notin Texts \cup Paying
  /\ Go(m, "begun", "dropped")
  /\ UNCHANGED <<payment, stored, failures>>

(* create_from_signal writes the raw message, but not yet the Message.     *)
CreateFromSignal(m) ==
  /\ m \in Texts \cup Paying
  /\ Go(m, "begun", IF m \in Paying THEN "check" ELSE "save")
  /\ UNCHANGED <<payment, stored, failures>>

(* The receipt is checked until the wallet answers with its txo, if it     *)
(* does; then its row is made, unless it has one: IntegrityError, and the  *)
(* retry for ever.                                                         *)
CreatePayment(m) ==
  /\ payment[m] = "none"
  /\ Go(m, "check", "wait")
  /\ payment' = [payment EXCEPT ![m] = "TransactionPending"]
  /\ UNCHANGED <<stored, failures>>

(* As it would be if the first answer of the wallet were taken for final. *)
SettleAtOnce(m) ==
  /\ Go(m, "wait", "save")
  /\ UNCHANGED <<payment, stored, failures>>

(* As it would be if the wallet's status were kept as it came. *)
SettleVerbatim(m) ==
  /\ Go(m, "wait", "save")
  /\ \E s \in Settled \cup {"TransactionFailed"} :
       payment' = [payment EXCEPT ![m] = s]
  /\ UNCHANGED <<stored, failures>>

(* _wait_for_transaction polls every two seconds until the answer is not   *)
(* TransactionPending, which may be never.                                 *)
Settle(m) ==
  /\ Go(m, "wait", "save")
  /\ \E s \in Settled : payment' = [payment EXCEPT ![m] = s]
  /\ UNCHANGED <<stored, failures>>

Save(m) ==
  /\ Go(m, "save", "saved")
  /\ stored' = stored \cup {m}
  /\ UNCHANGED <<payment, failures>>

(* The read receipt; none for a group, and none when its sending raises.   *)
Acknowledge(m) ==
  /\ \E to \in {"read", "stored"} : Go(m, "saved", to)
  /\ UNCHANGED <<payment, stored, failures>>

(* As it would be if the except clause went on to the read receipt. *)
DropAndAcknowledge(m) ==
  /\ \E from \in {"begun", "save"} : Go(m, from, "saved")
  /\ m \in Texts \cup Paying
  /\ Fail
  /\ UNCHANGED <<payment, stored>>

(* A call of the database raises before the Message is saved: logged and   *)
(* dropped.                                                                *)
Drop(m) ==
  /\ \E from \in {"begun", "save"} : Go(m, from, "dropped")
  /\ m \in Texts \cup Paying
  /\ Fail
  /\ UNCHANGED <<payment, stored>>

(* While the receipt is awaited a check raises, answers with a status that *)
(* PaymentStatus does not have, or a save raises.  The status of failure   *)
(* may have been saved; the ProcessingError never is, its message has no   *)
(* row.  The whole call is retried.                                        *)
RetryCall(m) ==
  /\ Go(m, "wait", "check")
  /\ Fail
  /\ payment' \in {payment, [payment EXCEPT ![m] = "Failure"]}
  /\ UNCHANGED stored

-----------------------------------------------------------------------------
(* The process ends anywhere: what it read and did not store is lost, as   *)
(* signald delivers a message once.  Its container restarts it.            *)

Crash ==
  /\ listener # "down" /\ crashes < MaxCrashes
  /\ crashes' = crashes + 1
  /\ listener' = "down"
  /\ stage' = [m \in Messages |->
                 IF stage[m] = "saved" THEN "stored"
                 ELSE IF stage[m] \in Working \cup {"queued"} THEN "lost"
                 ELSE stage[m]]
  /\ UNCHANGED <<received, arrival, payment, stored, failures>>

Restart ==
  /\ listener = "down"
  /\ listener' = "up"
  /\ UNCHANGED <<received, arrival, stage, payment, stored, failures, crashes>>

-----------------------------------------------------------------------------
Own(m) ==
  Begin(m) \/ Refuse(m) \/ CreateFromSignal(m) \/ Save(m) \/ Acknowledge(m)

Step(m) == Own(m) \/ CreatePayment(m) \/ Settle(m)

Next ==
  \/ \E m \in Messages : Receive(m) \/ Step(m) \/ Drop(m) \/ RetryCall(m)
  \/ StreamEnds \/ Drained \/ Crash \/ Restart

Spec == Init /\ [][Next]_vars

(* A thread takes the steps that are its own; nothing is assumed of the    *)
(* wallet, which need not answer for a receipt nor settle a transaction.   *)
FairSpec == Spec /\ \A m \in Messages : WF_vars(Own(m))

-----------------------------------------------------------------------------
(* The subscriber never sees a payment whose outcome is open: a payment's  *)
(* message is stored with the row settled, whatever fails, is retried or   *)
(* crashes on the way (_parse_message saves after process_signal_payment). *)
SettledWhenStored ==
  \A m \in stored \cap Paying : payment[m] \in Settled

(* The customer's tick: a message marked as read was stored, and what the  *)
(* except clause of _parse_message dropped is never marked.                *)
ReadIsKept == \A m \in Messages : stage[m] = "read" => m \in stored

(* "shut down gracefully" (listen): when the listener has ended by itself  *)
(* no message it read is still queued or in a thread.                      *)
GracefulStop ==
  listener = "ended" => \A m \in Messages : stage[m] \in Ended \cup {"unread"}

(* The earlier messages that are not yet dealt with.                       *)
Overtaken(m) == {k \in Messages : /\ stage[k] \in Working \cup {"queued"}
                                  /\ arrival[k] < arrival[m]}

(* The order of the stream is not kept: the threads store in any order,    *)
(* and the date of a message is replaced by that of its save.  But a       *)
(* message passes fewer earlier ones than the pool has threads, slow and   *)
(* stuck payments included (listen, max_workers).                          *)
BoundedOvertaking ==
  [][\A m \in stored' \ stored : Cardinality(Overtaken(m)) < PoolSize]_vars

(* A message that was read is in the end stored or dropped, or lost in a   *)
(* crash, unless the wallet holds its own thread for ever, or holds all of *)
(* the pool for ever: a payment that never settles costs no other message  *)
(* its handling as long as a thread is free now and then (listen,          *)
(* client.py:59, payments.py:281).                                         *)
EveryMessageEnds ==
  \A m \in Messages : stage[m] = "queued" ~>
    \/ stage[m] \in Ended
    \/ [](m \in Held)
    \/ [](Cardinality(Held) = PoolSize)

=============================================================================
