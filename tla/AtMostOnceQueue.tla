-------------------------- MODULE AtMostOnceQueue --------------------------
(***************************************************************************)
(* What the Messages table promises the subscribers: a stored message is   *)
(* taken by one of them at most once, handled at most once, and settled    *)
(* at most once; a failure may lose messages that were taken, and a lost   *)
(* message never comes back.                                               *)
(***************************************************************************)
EXTENDS Naturals

CONSTANT Messages

VARIABLES
  state,     \* how far each message has come
  handled    \* how often a handler was invoked with it

vars == <<state, handled>>

States == {"absent", "waiting", "taken", "done", "failed", "lost"}

Init ==
  /\ state = [m \in Messages |-> "absent"]
  /\ handled = [m \in Messages |-> 0]

Move(m, from, to) ==
  /\ state[m] = from
  /\ state' = [state EXCEPT ![m] = to]
  /\ UNCHANGED handled

Arrive(m) == Move(m, "absent", "waiting")

Take(m) == Move(m, "waiting", "taken")

Handle(m) ==
  /\ state[m] = "taken"
  /\ handled[m] = 0
  /\ handled' = [handled EXCEPT ![m] = 1]
  /\ UNCHANGED state

(* Only what was handled is done; what failed may have been handled or not.*)
Finish(m) == handled[m] = 1 /\ Move(m, "taken", "done")

Fail(m) == Move(m, "taken", "failed")

(* A failure takes any set of unfinished messages with it. *)
Lose(S) ==
  /\ \A m \in S : state[m] = "taken"
  /\ state' = [m \in Messages |-> IF m \in S THEN "lost" ELSE state[m]]
  /\ UNCHANGED handled

Next ==
  \/ \E m \in Messages :
       Arrive(m) \/ Take(m) \/ Handle(m) \/ Finish(m) \/ Fail(m)
  \/ \E S \in SUBSET Messages : Lose(S)

Spec == Init /\ [][Next]_vars
=============================================================================
