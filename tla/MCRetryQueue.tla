----------------------------- MODULE MCRetryQueue -----------------------------
(***************************************************************************)
(* RetryQueue for TLC: the budgets of the messages in the order in which   *)
(* they are made.                                                          *)
(***************************************************************************)
EXTENDS RetryQueue

\* With delays that overflow from attempt 2: spent just in time, at once, and
\* never reached.
MixedBudgets == <<2, 0, 3>>

OneEach == [m \in 1 .. MsgLimit |-> 1]

===============================================================================
