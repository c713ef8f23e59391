------------------------- MODULE CircuitBreakerProofs -------------------------
(***************************************************************************)
(* CircuitBreaker, for any set of requests, any threshold and any recovery *)
(* time.  TypeOK and FieldsAgree are inductive together; the two action    *)
(* properties follow from them step by step.                               *)
(***************************************************************************)
EXTENDS CircuitBreaker, TLAPS

Inv == TypeOK /\ FieldsAgree

\* What the state property answers, for fields that agree.
LEMMA SettledWhen ==
  ASSUME BreakerAssumption, Inv
  PROVE  /\ Settled \in States
         /\ Settled = "CLOSED" <=> since = Never
         /\ Settled = "HALF_OPEN" <=> since = Recovery
BY DEF BreakerAssumption, Inv, TypeOK, FieldsAgree, Settled, States, Never

LEMMA InvInit == BreakerAssumption /\ Init => Inv
<1> SUFFICES ASSUME BreakerAssumption, Init PROVE Inv
  OBVIOUS
<1>1. TypeOK
  <2>1. asserted \in BOOLEAN
    BY Zenon DEF Init
  <2>2. /\ state \in States /\ failures \in 0 .. Threshold
        /\ since \in {Never} \cup 0 .. Recovery /\ inFlight \subseteq Requests
    BY DEF BreakerAssumption, Init, States
  <2> QED
    BY <2>1, <2>2 DEF TypeOK
<1>2. FieldsAgree
  <2>1. ~asserted
    BY Zenon DEF Init
  <2>2. 0 < Threshold
    BY DEF BreakerAssumption
  <2> QED
    BY <2>1, <2>2 DEF Init, FieldsAgree
<1> QED
  BY <1>1, <1>2 DEF Inv

LEMMA InvStep == BreakerAssumption /\ Inv /\ [Next]_vars => Inv'
<1> SUFFICES ASSUME BreakerAssumption, Inv, [Next]_vars PROVE Inv'
  OBVIOUS
<1> USE DEF BreakerAssumption, Inv, TypeOK, FieldsAgree, States, Never
<1>1. ASSUME Look PROVE Inv'
  BY <1>1, SettledWhen DEF Look
<1>2. ASSUME Reset PROVE Inv'
  BY <1>2 DEF Reset, Close
<1>3. ASSUME Tick PROVE Inv'
  BY <1>3 DEF Tick
<1>4. ASSUME NEW r \in Requests, Admit(r) PROVE Inv'
  BY <1>4, SettledWhen DEF Admit
<1>5. ASSUME NEW r \in Requests, Refuse(r) PROVE Inv'
  BY <1>5, SettledWhen DEF Refuse
<1>6. ASSUME NEW r \in Requests, RecordSuccess(r) PROVE Inv'
  BY <1>6 DEF RecordSuccess, Close
<1>7. ASSUME NEW r \in Requests, RecordFailure(r) PROVE Inv'
  <2>1. /\ failures' \in 0 .. Threshold
        /\ failures' = Threshold <=> failures + 1 >= Threshold
    BY <1>7 DEF RecordFailure, Capped
  <2>2. CASE failures' = Threshold
    BY <1>7, <2>1, <2>2 DEF RecordFailure
  <2>3. CASE failures' # Threshold
    BY <1>7, <2>1, <2>3 DEF RecordFailure, Capped
  <2> QED
    BY <2>2, <2>3
<1>8. ASSUME NEW r \in Requests, Abandon(r) PROVE Inv'
  BY <1>8 DEF Abandon
<1>9. CASE UNCHANGED vars
  BY <1>9 DEF vars
<1> QED
  BY <1>1, <1>2, <1>3, <1>4, <1>5, <1>6, <1>7, <1>8, <1>9 DEF Next

(* The fields of the breaker keep their types and stay in step, and the    *)
(* assertion of check() never fails, whatever is reported and when         *)
(* (circuit_breaker.py:45-79).                                             *)
THEOREM FieldsStayInStep ==
  ASSUME BreakerAssumption PROVE Spec => [](TypeOK /\ FieldsAgree)
<1>1. Inv => TypeOK /\ FieldsAgree
  BY DEF Inv
<1> QED
  BY InvInit, InvStep, <1>1, PTL DEF Spec

(* No request passes before recovery_timeout is over                       *)
(* (circuit_breaker.py:48 and 54).                                         *)
THEOREM NothingPassesEarly == ASSUME BreakerAssumption PROVE Spec => ShutUntilRecovery
<1>1. Inv /\ [Next]_vars
        => [\A r \in Requests : r \in inFlight' \ inFlight => since \in {Never, Recovery}]_vars
  <2> SUFFICES ASSUME Inv, Next, NEW r \in Requests, r \in inFlight' \ inFlight
               PROVE  since \in {Never, Recovery}
    BY DEF vars
  <2>1. PICK q \in Requests : Admit(q)
    BY DEF Next, Look, Reset, Tick, Refuse, RecordSuccess, RecordFailure, Abandon
  <2> QED
    BY <2>1, SettledWhen DEF Admit
<1> QED
  BY InvInit, InvStep, <1>1, PTL DEF Spec, ShutUntilRecovery

(* One failure while half-open opens the circuit for another full          *)
(* recovery_timeout (circuit_breaker.py:64-67).                            *)
THEOREM ProbesReopen == ASSUME BreakerAssumption PROVE Spec => FailedProbeReopens
<1>1. Inv /\ [Next]_vars
        => [\A r \in Requests : state = "HALF_OPEN" /\ RecordFailure(r)
                                  => state' = "OPEN" /\ since' = 0]_vars
  <2> SUFFICES ASSUME Inv, NEW r \in Requests, state = "HALF_OPEN", RecordFailure(r)
               PROVE  state' = "OPEN" /\ since' = 0
    BY DEF vars
  <2>1. failures = Threshold
    BY DEF BreakerAssumption, Inv, TypeOK, FieldsAgree
  <2>2. failures' = Threshold
    BY <2>1 DEF BreakerAssumption, RecordFailure, Capped
  <2> QED
    BY <2>2 DEF BreakerAssumption, RecordFailure
<1> QED
  BY InvInit, InvStep, <1>1, PTL DEF Spec, FailedProbeReopens

===============================================================================
