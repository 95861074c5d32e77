---------------------------- MODULE ReplyPayment ----------------------------
(***************************************************************************)
(* What a handler may expect of send_reply_payment, and what AirDrop and   *)
(* ItemDrop take it for.  A call that is due to pay makes a transfer, is   *)
(* due again when a request fails in the wrong place, and ends in one of   *)
(* four outcomes: two let the handler go on and two stop it.  The outcome  *)
(* tells whether there was a transfer, and not how many.                   *)
(***************************************************************************)
EXTENDS Naturals

CONSTANT Calls   \* calls of send_reply_payment

VARIABLES
  money,     \* transfers made by each call
  due,       \* calls that, as far as they know, have a transfer to make
  outcome,   \* how each call ended, "none" before
  faults     \* requests that failed

vars == <<money, due, outcome, faults>>

Outcomes == {"sent", "failed", "deactivated", "unstored"}
Received(o) == o \in {"sent", "unstored"}

Init ==
  /\ money = [c \in Calls |-> 0]
  /\ due = Calls
  /\ outcome = [c \in Calls |-> "none"]
  /\ faults = 0

Transfer(c) ==
  /\ outcome[c] = "none"
  /\ c \in due
  /\ money' = [money EXCEPT ![c] = @ + 1]
  /\ UNCHANGED outcome

Pay(c) ==
  /\ Transfer(c)
  /\ due' = due \ {c}
  /\ UNCHANGED faults

(* The call does not hear of its own transfer, and will make another.      *)
PayUnheard(c) ==
  /\ Transfer(c)
  /\ faults' = faults + 1
  /\ UNCHANGED due

(* A request after the transfer fails, and the call starts over.           *)
Retry(c) ==
  /\ outcome[c] = "none"
  /\ due' = due \cup {c}
  /\ faults' = faults + 1
  /\ UNCHANGED <<money, outcome>>

(* A call that is still due ends only if it made no transfer at all.       *)
End(c) ==
  /\ outcome[c] = "none"
  /\ c \in due => money[c] = 0
  /\ \E o \in Outcomes :
       /\ Received(o) <=> c \notin due
       /\ outcome' = [outcome EXCEPT ![c] = o]
  /\ faults' \in {faults, faults + 1}
  /\ UNCHANGED <<money, due>>

(* A request fails, and nothing comes of it. *)
Fault ==
  /\ faults' = faults + 1
  /\ UNCHANGED <<money, due, outcome>>

Next ==
  \/ \E c \in Calls : Pay(c) \/ PayUnheard(c) \/ Retry(c) \/ End(c)
  \/ Fault

Spec == Init /\ [][Next]_vars
=============================================================================
