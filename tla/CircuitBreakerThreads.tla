------------------------- MODULE CircuitBreakerThreads -------------------------
(***************************************************************************)
(* CircuitBreaker (retryq/circuit_breaker.py) called by threads: no lock   *)
(* protects its three fields, so a step here is one access to one of them. *)
(* Each thread goes round: check(), and if it is let in, its work, and     *)
(* then record_success() or record_failure().  reset() is left to module   *)
(* CircuitBreaker.                                                         *)
(*                                                                         *)
(* The clock and the count of failures are kept as in CircuitBreaker.      *)
(***************************************************************************)
EXTENDS Integers

CONSTANTS Threads, Threshold, Recovery

ASSUME ThreadsAssumption ==
  /\ Threshold \in Nat \ {0}
  /\ Recovery \in Nat \ {0}

Never == -1

VARIABLES
  state, failures, since,   \* _state, _failures and _opened_at, as in CircuitBreaker
  pc,                       \* pc[t]: the access thread t makes next
  count,                    \* count[t]: the value of _failures t has read
  asserted,                 \* history: the assertion of check() failed
  overlapped                \* history: two calls have been under way at once

fields == <<state, failures, since>>
vars   == <<fields, pc, count, asserted, overlapped>>

Places == {"idle", "compute", "half open", "read state", "assert", "work",
           "success", "close", "forget", "failure", "store", "compare", "open", "stamp"}

Capped(n, cap) == IF n < cap THEN n ELSE cap

Init ==
  /\ state = "CLOSED"
  /\ failures = 0
  /\ since = Never
  /\ pc = [t \in Threads |-> "idle"]
  /\ count = [t \in Threads |-> 0]
  /\ asserted = FALSE
  /\ overlapped = FALSE

InCall == {t \in Threads : pc[t] \notin {"idle", "work"}}

Step(t, from, to) == pc[t] = from /\ pc' = [pc EXCEPT ![t] = to]

-------------------------------------------------------------------------------

(* check(), allow_request() and the state property *)

\* if self._state == OPEN
ReadState(t) ==
  /\ \/ state = "OPEN" /\ Step(t, "idle", "compute")
     \/ state # "OPEN" /\ Step(t, "idle", "read state")
  /\ UNCHANGED <<fields, count, asserted>>

\* if self._opened_at is not None and monotonic() - self._opened_at >= ...
ComputeAge_Early(t) ==
  /\ Step(t, "compute", "half open")
  /\ UNCHANGED <<fields, count, asserted>>
ComputeAge(t) ==
  /\ \/ since # Never /\ since >= Recovery /\ Step(t, "compute", "half open")
     \/ ~(since # Never /\ since >= Recovery) /\ Step(t, "compute", "read state")
  /\ UNCHANGED <<fields, count, asserted>>

\* Another thread sets _opened_at to None between the two reads of it: the
\* subtraction raises TypeError out of check().
ComputeFails(t) ==
  /\ since = Never
  /\ Step(t, "compute", "idle")
  /\ UNCHANGED <<fields, count, asserted>>

HalfOpen(t) ==
  /\ Step(t, "half open", "read state")
  /\ state' = "HALF_OPEN"
  /\ UNCHANGED <<failures, since, count, asserted>>

\* return self._state, and the test of allow_request()
Decide(t) ==
  /\ \/ state # "OPEN" /\ Step(t, "read state", "work")
     \/ state = "OPEN" /\ Step(t, "read state", "assert")
  /\ UNCHANGED <<fields, count, asserted>>

\* assert self._opened_at is not None, and the raise that follows.
Refuse(t) ==
  /\ Step(t, "assert", "idle")
  /\ asserted' = (asserted \/ since = Never)
  /\ UNCHANGED <<fields, count>>

-------------------------------------------------------------------------------

(* record_success() *)

Succeed(t) ==
  /\ Step(t, "work", "success")
  /\ UNCHANGED <<fields, count, asserted>>

ZeroFailures_Decrements(t) ==
  /\ Step(t, "success", "close")
  /\ failures' = failures - 1
  /\ UNCHANGED <<state, since, count, asserted>>
ZeroFailures(t) ==
  /\ Step(t, "success", "close")
  /\ failures' = 0
  /\ UNCHANGED <<state, since, count, asserted>>

Close(t) ==
  /\ Step(t, "close", "forget")
  /\ state' = "CLOSED"
  /\ UNCHANGED <<failures, since, count, asserted>>

ForgetTime(t) ==
  /\ Step(t, "forget", "idle")
  /\ since' = Never
  /\ UNCHANGED <<state, failures, count, asserted>>

(* record_failure() *)

Fail(t) ==
  /\ Step(t, "work", "failure")
  /\ UNCHANGED <<fields, count, asserted>>

LoadFailures(t) ==
  /\ Step(t, "failure", "store")
  /\ count' = [count EXCEPT ![t] = failures]
  /\ UNCHANGED <<fields, asserted>>

StoreFailures(t) ==
  /\ Step(t, "store", "compare")
  /\ failures' = Capped(count[t] + 1, Threshold)
  /\ count' = [count EXCEPT ![t] = 0]
  /\ UNCHANGED <<state, since, asserted>>

CompareFailures(t) ==
  /\ \/ failures >= Threshold /\ Step(t, "compare", "open")
     \/ failures < Threshold /\ Step(t, "compare", "idle")
  /\ UNCHANGED <<fields, count, asserted>>

Open(t) ==
  /\ Step(t, "open", "stamp")
  /\ state' = "OPEN"
  /\ UNCHANGED <<failures, since, count, asserted>>

StampTime(t) ==
  /\ Step(t, "stamp", "idle")
  /\ since' = 0
  /\ UNCHANGED <<state, failures, count, asserted>>

-------------------------------------------------------------------------------

Tick ==
  /\ since # Never
  /\ since < Recovery
  /\ since' = since + 1
  /\ UNCHANGED <<state, failures, pc, count, asserted>>

Check(t) == ReadState(t) \/ ComputeAge(t) \/ ComputeFails(t) \/ HalfOpen(t) \/ Decide(t) \/ Refuse(t)
RecordSuccess(t) == Succeed(t) \/ ZeroFailures(t) \/ Close(t) \/ ForgetTime(t)
RecordFailure(t) ==
  Fail(t) \/ LoadFailures(t) \/ StoreFailures(t) \/ CompareFailures(t) \/ Open(t) \/ StampTime(t)

Next ==
  /\ Tick \/ \E t \in Threads : Check(t) \/ RecordSuccess(t) \/ RecordFailure(t)
  /\ overlapped' = (overlapped \/ \E t, u \in InCall' : t # u)

Spec == Init /\ [][Next]_vars

-------------------------------------------------------------------------------

(* What each field holds, whatever the threads do to it                    *)
(* (circuit_breaker.py:31-37).                                             *)
TypeOK ==
  /\ state \in {"CLOSED", "OPEN", "HALF_OPEN"}
  /\ failures \in 0 .. Threshold
  /\ since \in {Never} \cup 0 .. Recovery
  /\ pc \in [Threads -> Places]
  /\ count \in [Threads -> 0 .. Threshold]
  /\ asserted \in BOOLEAN
  /\ overlapped \in BOOLEAN

(* circuit_breaker.py:72 asserts that a circuit that turns requests away   *)
(* has an opening time; circuit_breaker.py:24 tells the caller when it     *)
(* resets.  So it must be at least when no call is under way: an open      *)
(* circuit without a time never half-opens again.                          *)
OpenHasTimeAtRest ==
  (\A t \in Threads : pc[t] = "idle") /\ state = "OPEN" => since # Never

At(places) == \E t \in Threads : pc[t] \in places

(* As long as no two calls overlap, whichever threads make them and        *)
(* however many requests are in flight between their calls, the accesses   *)
(* amount to the atomic methods of CircuitBreaker (circuit_breaker.py:     *)
(* 45-73): record_success() takes effect as it zeroes the count,           *)
(* record_failure() as it stores it.                                       *)
Opening == At({"compare", "open", "stamp"}) /\ failures >= Threshold
Atomic == INSTANCE CircuitBreaker WITH
  Requests <- Threads,
  state    <- IF At({"close", "forget"}) THEN "CLOSED" ELSE IF Opening THEN "OPEN" ELSE state,
  since    <- IF At({"close", "forget"}) THEN Never ELSE IF Opening THEN 0 ELSE since,
  inFlight <- {t \in Threads : pc[t] \in {"work", "success", "failure", "store"}}
ActsAtomically == Atomic!Init /\ [][overlapped' \/ Atomic!Next]_(Atomic!vars)

===============================================================================
