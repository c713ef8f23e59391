---------------------------- MODULE MCRetryRunners ----------------------------
(***************************************************************************)
(* RetryRunners for TLC: of three messages, two with the same fingerprint.  *)
(***************************************************************************)
EXTENDS RetryRunners

TwoAlike == [m \in Msgs |-> IF m <= 2 THEN 1 ELSE m]

\* Two messages with two attempts, and one with none.
TwoOrNone == [m \in Msgs |-> IF m <= 2 THEN 2 ELSE 0]

OneEach == [m \in Msgs |-> 1]

===============================================================================
