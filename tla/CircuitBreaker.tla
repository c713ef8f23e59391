---------------------------- MODULE CircuitBreaker ----------------------------
(***************************************************************************)
(* class CircuitBreaker of retryq/circuit_breaker.py, used by requests     *)
(* that overlap in time: each is let in by allow_request() or turned away, *)
(* does its work, and reports success or failure, while others come and    *)
(* go.  The methods run one after the other here; CircuitBreakerThreads    *)
(* takes them apart.                                                       *)
(*                                                                         *)
(* The clock is kept as the time since _opened_at, which is all the code   *)
(* reads of it, and stops counting at Recovery, beyond which no test tells *)
(* two times apart; in the same way the count of failures stops at         *)
(* Threshold.  So the runs bound neither time nor the number of requests.  *)
(***************************************************************************)
EXTENDS Integers

CONSTANTS
  Requests,     \* the requests that can be in progress at once
  Threshold,    \* failure_threshold
  Recovery      \* recovery_timeout, in ticks of the clock

BreakerAssumption ==
  /\ Threshold \in Nat \ {0}
  /\ Recovery \in Nat \ {0}

Never == -1     \* _opened_at is None

VARIABLES
  state,        \* _state
  failures,     \* _failures, up to Threshold
  since,        \* the time since _opened_at, up to Recovery; Never: None
  inFlight,     \* the requests let in that have not reported yet
  asserted      \* history: the assertion of check() failed

vars == <<state, failures, since, inFlight, asserted>>

States == {"CLOSED", "OPEN", "HALF_OPEN"}

Capped(n, cap) == IF n < cap THEN n ELSE cap

Init ==
  /\ state = "CLOSED"
  /\ failures = 0
  /\ since = Never
  /\ inFlight = {}
  /\ asserted = FALSE

-------------------------------------------------------------------------------

\* The state property: an open circuit turns half-open when its time is up.
Settled_Early == IF state = "OPEN" THEN "HALF_OPEN" ELSE state
Settled ==
  IF state = "OPEN" /\ since # Never /\ since >= Recovery THEN "HALF_OPEN" ELSE state

\* _failures = 0, _state = CLOSED, _opened_at = None
Close_KeepsTime ==
  /\ state' = "CLOSED"
  /\ failures' = 0
  /\ UNCHANGED since
Close ==
  /\ state' = "CLOSED"
  /\ failures' = 0
  /\ since' = Never

\* Reading the state property.
Look ==
  /\ state' = Settled
  /\ UNCHANGED <<failures, since, inFlight, asserted>>

\* allow_request() returns True: the request goes ahead.
Admit(r) ==
  /\ r \notin inFlight
  /\ Settled \in {"CLOSED", "HALF_OPEN"}
  /\ state' = Settled
  /\ inFlight' = inFlight \cup {r}
  /\ UNCHANGED <<failures, since, asserted>>

\* check() raises CircuitBreakerOpen, or stumbles over its assertion.
Refuse_Extends(r) ==
  /\ r \notin inFlight
  /\ Settled = "OPEN"
  /\ state' = Settled
  /\ since' = 0
  /\ UNCHANGED <<failures, inFlight, asserted>>
Refuse(r) ==
  /\ r \notin inFlight
  /\ Settled = "OPEN"
  /\ state' = Settled
  /\ asserted' = (asserted \/ since = Never)
  /\ UNCHANGED <<failures, since, inFlight>>

RecordSuccess(r) ==
  /\ r \in inFlight
  /\ Close
  /\ inFlight' = inFlight \ {r}
  /\ UNCHANGED asserted

\* record_failure() counts in every state, and opens from every state.
RecordFailure_FromClosed(r) ==
  /\ r \in inFlight
  /\ failures' = Capped(failures + 1, Threshold)
  /\ IF failures' = Threshold /\ state = "CLOSED"
     THEN state' = "OPEN" /\ since' = 0
     ELSE UNCHANGED <<state, since>>
  /\ inFlight' = inFlight \ {r}
  /\ UNCHANGED asserted
RecordFailure(r) ==
  /\ r \in inFlight
  /\ failures' = Capped(failures + 1, Threshold)
  /\ IF failures' >= Threshold
     THEN state' = "OPEN" /\ since' = 0
     ELSE UNCHANGED <<state, since>>
  /\ inFlight' = inFlight \ {r}
  /\ UNCHANGED asserted

\* A request that ends without a report: its handler raised.
Abandon(r) ==
  /\ r \in inFlight
  /\ inFlight' = inFlight \ {r}
  /\ UNCHANGED <<state, failures, since, asserted>>

\* reset(), by hand.
Reset ==
  /\ Close
  /\ UNCHANGED <<inFlight, asserted>>

\* monotonic() moves on.
Tick ==
  /\ since # Never
  /\ since < Recovery
  /\ since' = since + 1
  /\ UNCHANGED <<state, failures, inFlight, asserted>>

Next ==
  \/ Look \/ Reset \/ Tick
  \/ \E r \in Requests :
       \/ Admit(r) \/ Refuse(r) \/ RecordSuccess(r) \/ RecordFailure(r) \/ Abandon(r)

Spec == Init /\ [][Next]_vars

\* Time passes; nothing is assumed of the requests.
FairSpec == Spec /\ WF_vars(Tick)

-------------------------------------------------------------------------------

(* What each field holds (circuit_breaker.py:31-37). *)
TypeOK ==
  /\ state \in States
  /\ failures \in 0 .. Threshold
  /\ since \in {Never} \cup 0 .. Recovery
  /\ inFlight \subseteq Requests
  /\ asserted \in BOOLEAN

(* The three fields agree however late the reports come in: a closed       *)
(* circuit has fewer failures than the threshold and no opening time, any  *)
(* other has reached it and has one, and the assertion of check()          *)
(* (circuit_breaker.py:72) holds.                                          *)
FieldsAgree ==
  /\ state = "CLOSED" <=> since = Never
  /\ state = "CLOSED" <=> failures < Threshold
  /\ state = "HALF_OPEN" => since = Recovery
  /\ ~asserted

(* No request is let in before recovery_timeout has passed since the       *)
(* circuit last opened, late failures of earlier requests included         *)
(* (circuit_breaker.py:48, 54 and 67).                                     *)
ShutUntilRecovery ==
  [][\A r \in Requests : r \in inFlight' \ inFlight => since \in {Never, Recovery}]_vars

(* While the circuit is half-open one failure opens it again, for a full   *)
(* recovery_timeout, because the count of failures is left as it was when  *)
(* it half-opened (circuit_breaker.py:49 and 64-67).                       *)
FailedProbeReopens ==
  [][\A r \in Requests : state = "HALF_OPEN" /\ RecordFailure(r)
                           => state' = "OPEN" /\ since' = 0]_vars

(* An open circuit comes to let requests in again, whatever requests still *)
(* report while it is open (circuit_breaker.py:45-50).                     *)
Recovers == state = "OPEN" ~> (state # "OPEN" \/ since = Recovery)

===============================================================================
