---------------------------- MODULE MessageQueue ----------------------------
(***************************************************************************)
(* The Messages table as a work queue: subscribers poll it, claim a        *)
(* message with a conditional UPDATE, hand it to a thread pool and write   *)
(* its final status when the handler has run.                              *)
(*                                                                         *)
(* Each access to the database is a step.  A subscriber is a process       *)
(* running Subscriber.run_chat: one polling loop and a pool of PoolSize    *)
(* threads behind an unbounded FIFO.  The process may crash and be         *)
(* restarted, and a database access may fail.                              *)
(***************************************************************************)
EXTENDS Naturals, Sequences, FiniteSets

CONSTANTS
  Messages,      \* incoming messages of the store
  CustomerOf,    \* Messages -> Nat, customer_id
  Subscribers,   \* processes running run_chat
  PoolSize,      \* threads of a subscriber's pool (8 in the code)
  MaxCrashes,    \* bound: crashes of subscriber processes
  MaxFailures,   \* bound: database accesses (or sends) that raise
  NoMessage      \* the polling loop has no message in hand

ASSUME CustomerOfType == CustomerOf \in [Messages -> Nat]
ASSUME PoolSizeType == PoolSize \in Nat \ {0}
ASSUME BoundsType == MaxCrashes \in Nat /\ MaxFailures \in Nat
ASSUME NoMessageFresh == NoMessage \notin Messages

VARIABLES
  status,      \* the column; "absent" while there is no row
  pc,          \* where each subscriber's polling loop stands
  message,     \* the loop's local message
  submitted,   \* tasks waiting in the pool's FIFO
  work,        \* work[s][m]: how far a thread of s is with m
  crashes,     \* crashes so far
  failures,    \* failures so far
  handled      \* history: invocations of a handler, per message

vars == <<status, pc, message, submitted, work, crashes, failures, handled>>

Statuses == {"absent", "NOT_PROCESSED", "PROCESSING", "PROCESSED", "ERROR"}
LoopSteps == {"poll", "claim", "submit", "stopped", "down"}
WorkSteps == {"none", "context", "handled", "raised"}

Idle == [m \in Messages |-> "none"]

Init ==
  /\ status = [m \in Messages |-> "absent"]
  /\ pc = [s \in Subscribers |-> "poll"]
  /\ message = [s \in Subscribers |-> NoMessage]
  /\ submitted = [s \in Subscribers |-> <<>>]
  /\ work = [s \in Subscribers |-> Idle]
  /\ crashes = 0
  /\ failures = 0
  /\ handled = [m \in Messages |-> 0]

-----------------------------------------------------------------------------
(* The listener has saved a message.  Its threads finish in any order, so  *)
(* messages appear in any order.                                           *)
Store(m) ==
  /\ status[m] = "absent"
  /\ status' = [status EXCEPT ![m] = "NOT_PROCESSED"]
  /\ UNCHANGED <<pc, message, submitted, work, crashes, failures, handled>>

(* not_processing().first(): SELECT DISTINCT ON (customer_id), ordered by  *)
(* customer_id alone, so an arbitrary waiting message of the first         *)
(* customer that has one.                                                  *)
Waiting == {m \in Messages : status[m] = "NOT_PROCESSED"}

(* As it would be if a customer had to be the first of all customers. *)
CandidatesFirstCustomer ==
  {m \in Waiting : \A n \in Messages : CustomerOf[m] <= CustomerOf[n]}

Candidates ==
  {m \in Waiting : \A n \in Waiting : CustomerOf[m] <= CustomerOf[n]}

Select(s) ==
  /\ pc[s] = "poll"
  /\ \E m \in Candidates : message' = [message EXCEPT ![s] = m]
  /\ pc' = [pc EXCEPT ![s] = "claim"]
  /\ UNCHANGED <<status, submitted, work, crashes, failures, handled>>

(* As it would be without the status in the WHERE clause. *)
UnclaimedOrNot(m) == status[m] # "absent"

Unclaimed(m) == status[m] = "NOT_PROCESSED"

(* claim_message's UPDATE, conditional on the status.  When another        *)
(* subscriber was faster it matches no row, and the retry decorator, which *)
(* has no stop condition, tries the same message again: a loop that can    *)
(* only go on once the message is NOT_PROCESSED again.                     *)
Claim(s) ==
  /\ pc[s] = "claim"
  /\ Unclaimed(message[s])
  /\ status' = [status EXCEPT ![message[s]] = "PROCESSING"]
  /\ pc' = [pc EXCEPT ![s] = "submit"]
  /\ UNCHANGED <<message, submitted, work, crashes, failures, handled>>

(* As it would be if the loop kept its message. *)
SubmitAndKeep(s) ==
  /\ pc[s] = "submit"
  /\ submitted' = [submitted EXCEPT ![s] = Append(@, message[s])]
  /\ pc' = [pc EXCEPT ![s] = "poll"]
  /\ UNCHANGED <<status, message, work, crashes, failures, handled>>

(* As it would be if the pool refused a task while another waits. *)
SubmitIfNoneWaits(s) ==
  /\ pc[s] = "submit"
  /\ submitted' = [submitted EXCEPT ![s] =
                    IF @ = <<>> THEN <<message[s]>> ELSE @]
  /\ message' = [message EXCEPT ![s] = NoMessage]
  /\ pc' = [pc EXCEPT ![s] = "poll"]
  /\ UNCHANGED <<status, work, crashes, failures, handled>>

Submit(s) ==
  /\ pc[s] = "submit"
  /\ submitted' = [submitted EXCEPT ![s] = Append(@, message[s])]
  /\ message' = [message EXCEPT ![s] = NoMessage]
  /\ pc' = [pc EXCEPT ![s] = "poll"]
  /\ UNCHANGED <<status, work, crashes, failures, handled>>

(* get_message raises and its transaction is rolled back.  The exception   *)
(* is swallowed by _get_and_process, whose None then ends run_chat; the    *)
(* pool still drains, and nothing restarts the loop.                       *)
PollFails(s) ==
  /\ pc[s] \in {"poll", "claim"}
  /\ failures < MaxFailures
  /\ failures' = failures + 1
  /\ pc' = [pc EXCEPT ![s] = "stopped"]
  /\ message' = [message EXCEPT ![s] = NoMessage]
  /\ UNCHANGED <<status, submitted, work, crashes, handled>>

-----------------------------------------------------------------------------
Busy(s) == {m \in Messages : work[s][m] # "none"}

Work(s, m, from, to) ==
  /\ work[s][m] = from
  /\ work' = [work EXCEPT ![s][m] = to]

FreeThread(s) == Cardinality(Busy(s)) < PoolSize

(* A free thread takes the oldest task and enters its ChatContext. *)
StartWork(s) ==
  /\ submitted[s] # <<>>
  /\ FreeThread(s)
  /\ Work(s, Head(submitted[s]), "none", "context")
  /\ submitted' = [submitted EXCEPT ![s] = Tail(@)]
  /\ UNCHANGED <<status, pc, message, crashes, failures, handled>>

(* Acknowledging a payment or the load raises before a handler is chosen. *)
AcknowledgeFails(s, m) ==
  /\ Work(s, m, "context", "raised")
  /\ failures < MaxFailures
  /\ failures' = failures + 1
  /\ UNCHANGED <<status, pc, message, submitted, crashes, handled>>

(* The handler runs.  _isolated_handler swallows what it raises, so the    *)
(* worker goes on in the same way whether it did its work or not.          *)
Handle(s, m) ==
  /\ Work(s, m, "context", "handled")
  /\ handled' = [handled EXCEPT ![m] = @ + 1]
  /\ UNCHANGED <<status, pc, message, submitted, crashes, failures>>

(* Logging that the message was handled reads its payment once more, and   *)
(* that may raise: a message whose handler ran then ends as an error.      *)
LogFails(s, m) ==
  /\ Work(s, m, "handled", "raised")
  /\ failures < MaxFailures
  /\ failures' = failures + 1
  /\ UNCHANGED <<status, pc, message, submitted, crashes, handled>>

(* As it would be if the error were swallowed before __exit__. *)
FinalStatusSwallowed(s, m) == "PROCESSED"

(* ChatContext.__exit__ saves the final status of the message. *)
FinalStatus(s, m) == IF work[s][m] = "raised" THEN "ERROR" ELSE "PROCESSED"

Leave(s, m) ==
  /\ \E from \in {"handled", "raised"} : Work(s, m, from, "none")
  /\ status' = [status EXCEPT ![m] = FinalStatus(s, m)]
  /\ UNCHANGED <<pc, message, submitted, crashes, failures, handled>>

(* The database fails the worker, when the constructor of its ChatContext  *)
(* reads the customer or when __exit__ saves: the status is not written.   *)
WorkerFails(s, m) ==
  /\ \E from \in WorkSteps \ {"none"} : Work(s, m, from, "none")
  /\ failures < MaxFailures
  /\ failures' = failures + 1
  /\ UNCHANGED <<status, pc, message, submitted, crashes, handled>>

-----------------------------------------------------------------------------
(* The process dies with everything it has in memory; the rows stay. *)
Crash(s) ==
  /\ pc[s] # "down"
  /\ crashes < MaxCrashes
  /\ crashes' = crashes + 1
  /\ pc' = [pc EXCEPT ![s] = "down"]
  /\ message' = [message EXCEPT ![s] = NoMessage]
  /\ submitted' = [submitted EXCEPT ![s] = <<>>]
  /\ work' = [work EXCEPT ![s] = Idle]
  /\ UNCHANGED <<status, failures, handled>>

(* Its container is restarted and polls again; nothing looks for messages  *)
(* left PROCESSING.                                                        *)
Restart(s) ==
  /\ pc[s] = "down"
  /\ pc' = [pc EXCEPT ![s] = "poll"]
  /\ UNCHANGED <<status, message, submitted, work, crashes, failures, handled>>

Poll(s) == Select(s) \/ Claim(s) \/ Submit(s)

Worker(s) == StartWork(s) \/ \E m \in Messages : Handle(s, m) \/ Leave(s, m)

Fault(s) ==
  \/ PollFails(s)
  \/ \E m \in Messages :
       AcknowledgeFails(s, m) \/ LogFails(s, m) \/ WorkerFails(s, m)
  \/ Crash(s)

Next ==
  \/ \E m \in Messages : Store(m)
  \/ \E s \in Subscribers : Poll(s) \/ Worker(s) \/ Fault(s) \/ Restart(s)

Spec == Init /\ [][Next]_vars

(* The loop and every thread of a pool run whenever they can (threads of   *)
(* the operating system), and a dead container is restarted.  Customers    *)
(* need not write, and nothing has to fail.                                *)
FairSpec ==
  /\ Spec
  /\ \A s \in Subscribers :
       /\ WF_vars(Poll(s))
       /\ WF_vars(StartWork(s))
       /\ \A m \in Messages : WF_vars(Handle(s, m) \/ Leave(s, m))
       /\ WF_vars(Restart(s))

-----------------------------------------------------------------------------
(* The loop has a message in hand exactly between SELECT and pool.submit.  *)
TypeOK ==
  /\ status \in [Messages -> Statuses]
  /\ pc \in [Subscribers -> LoopSteps]
  /\ message \in [Subscribers -> Messages \cup {NoMessage}]
  /\ \A s \in Subscribers :
       pc[s] \in {"claim", "submit"} <=> message[s] # NoMessage
  /\ submitted \in [Subscribers -> Seq(Messages)]
  /\ work \in [Subscribers -> [Messages -> WorkSteps]]
  /\ crashes \in 0 .. MaxCrashes
  /\ failures \in 0 .. MaxFailures
  /\ handled \in [Messages -> Nat]

(* Where a claimed message is: in the hand of a loop, in a pool's FIFO or  *)
(* with one of its threads.                                                *)
InHand(s, m) == pc[s] = "submit" /\ message[s] = m
InPool(s, m) == \E i \in DOMAIN submitted[s] : submitted[s][i] = m
AtWork(s, m) == work[s][m] # "none"
Owns(s, m) == InHand(s, m) \/ InPool(s, m) \/ AtWork(s, m)

(* The conditional UPDATE makes a claimed message the property of one      *)
(* subscriber, in one place, and whoever owns a message finds it           *)
(* PROCESSING (messages.py:119, the only lock of the system).              *)
OneOwner ==
  /\ \A s \in Subscribers, m \in Messages :
       Owns(s, m) =>
         /\ status[m] = "PROCESSING"
         /\ \A t \in Subscribers \ {s} : ~Owns(t, m)
  /\ \A s \in Subscribers, m \in Messages :
       /\ ~(InHand(s, m) /\ InPool(s, m))
       /\ ~(InHand(s, m) /\ AtWork(s, m))
       /\ ~(InPool(s, m) /\ AtWork(s, m))
  /\ \A s \in Subscribers : \A i, j \in DOMAIN submitted[s] :
       submitted[s][i] = submitted[s][j] => i = j

(* A message never reaches a handler twice, whatever crashes, restarts and *)
(* competing subscribers do: a payment is not answered twice.              *)
HandledAtMostOnce == \A m \in Messages : handled[m] <= 1

(* The queue as AtMostOnceQueue sees it: a PROCESSING message that nobody  *)
(* owns any more is lost.                                                  *)
StateOf(m) ==
  CASE status[m] = "absent"        -> "absent"
    [] status[m] = "NOT_PROCESSED" -> "waiting"
    [] status[m] = "PROCESSED"     -> "done"
    [] status[m] = "ERROR"         -> "failed"
    [] OTHER -> IF \E s \in Subscribers : Owns(s, m) THEN "taken" ELSE "lost"

AtMostOnce == INSTANCE AtMostOnceQueue
                WITH state <- [m \in Messages |-> StateOf(m)]

(* The queue keeps its promise: every step of every subscriber, failure or *)
(* crash is a step of AtMostOnceQueue.                                     *)
Promise == AtMostOnce!Spec

(* A loop that lost the race for a message asks for it again, for ever.    *)
Beaten(s) == pc[s] = "claim" /\ ~Unclaimed(message[s])

(* No loop takes another message: each was ended by a failed poll, or lost *)
(* a race and claims in vain (messages.py:112, subscriber.py:165).         *)
NobodyPolls == \A s \in Subscribers : pc[s] = "stopped" \/ Beaten(s)

(* Each conflict has a winner, which goes on: a stored message is claimed, *)
(* however many other loops were beaten, stopped or restarted, unless from *)
(* some moment on there is no loop left that is neither.                   *)
EveryMessageClaimed ==
  \A m \in Messages :
    status[m] = "NOT_PROCESSED" ~>
      status[m] # "NOT_PROCESSED" \/ []NobodyPolls

(* Without crashes and failures every stored message is answered.          *)
EveryMessageAnswered ==
  \A m \in Messages :
    status[m] = "NOT_PROCESSED" ~>
      \/ status[m] = "PROCESSED"
      \/ crashes + failures > 0

-----------------------------------------------------------------------------
(* messages.py:108, "to ensure we only work one message per customer". *)
OneMessagePerCustomer ==
  \A s, t \in Subscribers : \A m, n \in Messages :
    /\ AtWork(s, m)
    /\ AtWork(t, n)
    /\ CustomerOf[m] = CustomerOf[n]
    => m = n
=============================================================================
