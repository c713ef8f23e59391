----------------------------- MODULE RetryPromise -----------------------------
(***************************************************************************)
(* What a retry queue promises about each message, and nothing about how:  *)
(* no queue, no threads, no order.  A message is handled by at most one    *)
(* handler at a time, never more often than its budget of attempts, and    *)
(* reaches at most one outcome, which is final:                            *)
(*                                                                         *)
(*   succeeded  a handler call returned;                                   *)
(*   exhausted  every attempt was spent, the message is dead-lettered;     *)
(*   lost       an exception took the message out of the queue's hands.    *)
(*                                                                         *)
(* RetryQueue, PriorityRetryQueue and most of RetryRunners are shown to    *)
(* implement this module.                                                  *)
(***************************************************************************)
EXTENDS Integers

CONSTANTS
  Msgs,         \* the messages
  MaxAttempts   \* MaxAttempts[m]: the attempts message m has

VARIABLES
  made,         \* the messages handed to the queue so far
  running,      \* the messages some handler is working on
  tries,        \* tries[m]: the failed attempts of m
  fate          \* fate[m]: "pending", or its final outcome

vars == <<made, running, tries, fate>>

Spent(m, n) == n >= MaxAttempts[m]

Init ==
  /\ made = {}
  /\ running = {}
  /\ tries = [m \in Msgs |-> 0]
  /\ fate = [m \in Msgs |-> "pending"]

Make(m) ==
  /\ m \notin made
  /\ made' = made \cup {m}
  /\ UNCHANGED <<running, tries, fate>>

Start(m) ==
  /\ m \in made \ running
  /\ fate[m] = "pending"
  /\ ~Spent(m, tries[m])
  /\ running' = running \cup {m}
  /\ UNCHANGED <<made, tries, fate>>

Succeed(m) ==
  /\ m \in running
  /\ running' = running \ {m}
  /\ fate' = [fate EXCEPT ![m] = "succeeded"]
  /\ UNCHANGED <<made, tries>>

\* A failed attempt is counted; the last one may give the message up at once,
\* and any may end in an exception that loses it.
Fail(m) ==
  /\ m \in running
  /\ running' = running \ {m}
  /\ tries' = [tries EXCEPT ![m] = @ + 1]
  /\ \/ UNCHANGED fate
     \/ fate' = [fate EXCEPT ![m] = "lost"]
     \/ /\ Spent(m, tries'[m])
        /\ fate' = [fate EXCEPT ![m] = "exhausted"]
  /\ UNCHANGED made

GiveUp(m) ==
  /\ m \in made \ running
  /\ fate[m] = "pending"
  /\ Spent(m, tries[m])
  /\ fate' = [fate EXCEPT ![m] = "exhausted"]
  /\ UNCHANGED <<made, running, tries>>

Lose(m) ==
  /\ m \in made
  /\ fate[m] = "pending"
  /\ running' = running \ {m}
  /\ fate' = [fate EXCEPT ![m] = "lost"]
  /\ UNCHANGED <<made, tries>>

Next == \E m \in Msgs : Make(m) \/ Start(m) \/ Succeed(m) \/ Fail(m) \/ GiveUp(m) \/ Lose(m)

Spec == Init /\ [][Next]_vars

===============================================================================
