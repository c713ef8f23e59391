----------------------------- MODULE MCRedelivery -----------------------------
(***************************************************************************)
(* Redelivery on its own for TLC: messages with two attempts.              *)
(***************************************************************************)
EXTENDS Redelivery

TwoEach == [m \in Msgs |-> 2]

===============================================================================
