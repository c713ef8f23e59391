---------------------- MODULE CircuitBreakerThreadsProofs ----------------------
(***************************************************************************)
(* CircuitBreakerThreads, for any set of threads, any threshold and any    *)
(* recovery time: the types, whatever the threads do, and the refinement   *)
(* of CircuitBreaker as long as their calls do not overlap.                *)
(***************************************************************************)
EXTENDS CircuitBreakerThreads, TLAPS

(* What a step of thread t leaves alone. *)
Others(t) == \A u \in Threads \ {t} : pc'[u] = pc[u]

LEMMA TypeInit == Init => TypeOK
<1> SUFFICES ASSUME Init PROVE TypeOK
  OBVIOUS
<1>1. asserted \in BOOLEAN /\ overlapped \in BOOLEAN
  BY Zenon DEF Init
<1>2. /\ state \in {"CLOSED", "OPEN", "HALF_OPEN"} /\ failures \in 0 .. Threshold
      /\ since \in {Never} \cup 0 .. Recovery
      /\ pc \in [Threads -> Places] /\ count \in [Threads -> 0 .. Threshold]
  BY ThreadsAssumption DEF ThreadsAssumption, Init, Places
<1> QED
  BY <1>1, <1>2 DEF TypeOK

(* The values of the fields, apart from the places and the two flags. *)
FieldsOK ==
  /\ state \in {"CLOSED", "OPEN", "HALF_OPEN"}
  /\ failures \in 0 .. Threshold
  /\ since \in {Never} \cup 0 .. Recovery
  /\ count \in [Threads -> 0 .. Threshold]

LEMMA TypeStep == TypeOK /\ [Next]_vars => TypeOK'
<1> SUFFICES ASSUME TypeOK, [Next]_vars PROVE TypeOK'
  OBVIOUS
<1> USE ThreadsAssumption DEF ThreadsAssumption, TypeOK, FieldsOK, fields, Never
<1>1. CASE UNCHANGED vars
  BY <1>1 DEF vars
<1>2. CASE Next
  <2>1. overlapped' \in BOOLEAN
    BY <1>2, Zenon DEF Next
  <2>2. CASE Tick
    BY <2>1, <2>2 DEF Tick
  <2>3. ASSUME NEW t \in Threads, Check(t) PROVE TypeOK'
    <3>1. asserted' \in BOOLEAN
      <4>1. asserted' = asserted \/ asserted' = (asserted \/ since = Never)
        BY <2>3, Zenon DEF Check, ReadState, ComputeAge, ComputeFails, HalfOpen, Decide, Refuse
      <4> QED
        BY <4>1, Zenon
    <3>2. FieldsOK'
      BY <2>3 DEF Check, ReadState, ComputeAge, ComputeFails, HalfOpen, Decide, Refuse
    <3>3. pc' \in [Threads -> Places]
      BY <2>3 DEF Check, ReadState, ComputeAge, ComputeFails, HalfOpen, Decide, Refuse,
                  Step, Places
    <3> QED
      BY <2>1, <3>1, <3>2, <3>3
  <2>4. ASSUME NEW t \in Threads, RecordSuccess(t) PROVE TypeOK'
    <3>1. FieldsOK' /\ asserted' = asserted
      BY <2>4 DEF RecordSuccess, Succeed, ZeroFailures, Close, ForgetTime
    <3>2. pc' \in [Threads -> Places]
      BY <2>4 DEF RecordSuccess, Succeed, ZeroFailures, Close, ForgetTime, Step, Places
    <3> QED
      BY <2>1, <3>1, <3>2
  <2>5. ASSUME NEW t \in Threads, RecordFailure(t) PROVE TypeOK'
    <3>1. FieldsOK' /\ asserted' = asserted
      BY <2>5 DEF RecordFailure, Fail, LoadFailures, StoreFailures, CompareFailures, Open,
                  StampTime, Capped
    <3>2. pc' \in [Threads -> Places]
      BY <2>5 DEF RecordFailure, Fail, LoadFailures, StoreFailures, CompareFailures, Open,
                  StampTime, Step, Places
    <3> QED
      BY <2>1, <3>1, <3>2
  <2> QED
    BY <1>2, <2>2, <2>3, <2>4, <2>5 DEF Next
<1> QED
  BY <1>1, <1>2

(* No interleaving takes a field out of its range                          *)
(* (circuit_breaker.py:31-37).                                             *)
THEOREM TypeCorrect == Spec => []TypeOK
BY TypeInit, TypeStep, PTL DEF Spec

-------------------------------------------------------------------------------

Resting == {"idle", "work"}

(* What a thread can rely on in the middle of a call, as long as calls do  *)
(* not overlap: nobody has touched the fields since it read them.          *)
Relies(t) ==
  /\ pc[t] \in {"compute", "half open", "assert", "stamp"} => state = "OPEN"
  /\ pc[t] = "half open" => since = Recovery
  /\ pc[t] = "forget" => state = "CLOSED"
  /\ pc[t] = "store" => count[t] = failures
  /\ pc[t] \in {"open", "stamp"} => failures = Threshold

(* An open circuit has a time, except where Open has set the state and     *)
(* StampTime not yet the time.                                             *)
HasTime == state = "OPEN" => since # Never \/ At({"stamp"})

Alone == \A t, u \in InCall : t = u

Quiet == ~overlapped => Alone /\ HasTime /\ \A t \in Threads : Relies(t)

Inv == TypeOK /\ Quiet

(* While calls do not overlap, the thread that takes a step within a call  *)
(* is the only one in a call, before the step and after.                   *)
LEMMA OthersRest ==
  ASSUME Inv, ~overlapped', overlapped' = (overlapped \/ \E t, u \in InCall' : t # u),
         NEW t \in Threads, Others(t), pc[t] \notin Resting \/ pc'[t] \notin Resting
  PROVE  /\ ~overlapped
         /\ \A u \in Threads \ {t} : pc[u] \in Resting /\ pc'[u] \in Resting
<1>1. ~overlapped /\ Alone
  BY Zenon DEF Inv, Quiet
<1>2. Alone'
  BY Zenon DEF Alone
<1>3. ASSUME NEW u \in Threads \ {t} PROVE pc[u] \in Resting
  BY <1>1, <1>2 DEF Alone, InCall, Others, Resting
<1> QED
  BY <1>1, <1>3 DEF Others

(* Then whether some thread is at one of the places of a call is a matter  *)
(* of where that thread is.                                                *)
LEMMA AtAlone ==
  ASSUME NEW t \in Threads, NEW places, places \cap Resting = {},
         \A u \in Threads \ {t} : pc[u] \in Resting /\ pc'[u] \in Resting
  PROVE  /\ At(places) <=> pc[t] \in places
         /\ At(places)' <=> pc'[t] \in places
BY DEF At

LEMMA QuietInit == Init => Quiet
BY DEF Init, Quiet, Alone, HasTime, Relies, InCall, At

(* The actions of a thread within a call, and what each of them does to    *)
(* where the thread is.                                                    *)
CallStep(t) == Check(t) \/ RecordSuccess(t) \/ RecordFailure(t)

LEMMA CallStepMoves ==
  ASSUME TypeOK, NEW t \in Threads, CallStep(t)
  PROVE  Others(t) /\ (pc[t] \notin Resting \/ pc'[t] \notin Resting)
BY DEF TypeOK, CallStep, Check, RecordSuccess, RecordFailure, Others, Resting, Step,
       ReadState, ComputeAge, ComputeFails, HalfOpen, Decide, Refuse,
       Succeed, ZeroFailures, Close, ForgetTime,
       Fail, LoadFailures, StoreFailures, CompareFailures, Open, StampTime

LEMMA QuietStep == Inv /\ [Next]_vars => Quiet'
<1> SUFFICES ASSUME Inv, Next, ~overlapped'
             PROVE  Alone' /\ HasTime' /\ \A u \in Threads : Relies(u)'
  BY Zenon DEF Inv, Quiet, Alone, HasTime, Relies, InCall, At, vars, fields
<1>1. overlapped' = (overlapped \/ \E t, u \in InCall' : t # u)
  BY Zenon DEF Next
<1>2. Alone' /\ ~overlapped
  BY <1>1, Zenon DEF Alone
<1>3. TypeOK /\ HasTime /\ \A u \in Threads : Relies(u)
  BY <1>2, Zenon DEF Inv, Quiet
<1>4. CASE Tick
  <2>1. HasTime'
    BY <1>3, <1>4 DEF HasTime, Tick, At, TypeOK, Never
  <2>2. \A u \in Threads : Relies(u)'
    <3>1. since # Recovery /\ UNCHANGED <<state, failures, pc, count>>
      BY <1>4, ThreadsAssumption DEF ThreadsAssumption, Tick
    <3> QED
      BY <1>3, <3>1 DEF Relies
  <2> QED
    BY <1>2, <2>1, <2>2
<1>5. ASSUME NEW t \in Threads, CallStep(t) PROVE HasTime' /\ \A u \in Threads : Relies(u)'
  <2>1. /\ Others(t)
        /\ \A u \in Threads \ {t} : pc[u] \in Resting /\ pc'[u] \in Resting
    BY <1>1, <1>3, <1>5, CallStepMoves, OthersRest
  <2>2. \A u \in Threads \ {t} : Relies(u)'
    BY <2>1 DEF Relies, Resting
  <2>3. At({"stamp"}) <=> pc[t] = "stamp"
    BY <2>1 DEF At, Resting
  <2>4. At({"stamp"})' <=> pc'[t] = "stamp"
    BY <2>1 DEF At, Resting
  <2>5. Relies(t) /\ (state = "OPEN" => since # Never \/ pc[t] = "stamp")
    BY <1>3, <2>3 DEF HasTime
  <2>6. CASE Check(t)
    <3>1. ReadState(t) \/ ComputeFails(t) \/ HalfOpen(t) \/ Decide(t) \/ Refuse(t) => Relies(t)'
      BY <1>3, <2>5 DEF ReadState, ComputeFails, HalfOpen, Decide, Refuse, Step, Relies,
                              TypeOK, fields
    <3>2. ComputeAge(t) => Relies(t)'
      <4>1. since # Never /\ since >= Recovery => since = Recovery
        BY <1>3, ThreadsAssumption DEF ThreadsAssumption, TypeOK
      <4> QED
        BY <1>3, <2>5, <4>1 DEF ComputeAge, Step, Relies, TypeOK, fields
    <3>3. HasTime'
      BY <1>3, <2>4, <2>5, <2>6
         DEF HasTime, Check, ReadState, ComputeAge, ComputeFails, HalfOpen, Decide, Refuse,
             Step, Relies, TypeOK, fields
    <3> QED
      BY <2>2, <2>6, <3>1, <3>2, <3>3 DEF Check
  <2>7. CASE RecordSuccess(t)
    <3>1. Relies(t)'
      BY <1>3, <2>5, <2>7 DEF RecordSuccess, Succeed, ZeroFailures, Close, ForgetTime, Step,
                              Relies, TypeOK, fields
    <3>2. HasTime'
      BY <1>3, <2>4, <2>5, <2>7 DEF HasTime, RecordSuccess, Succeed, ZeroFailures, Close,
                                    ForgetTime, Step, Relies, TypeOK, fields
    <3> QED
      BY <2>2, <3>1, <3>2
  <2>8. CASE RecordFailure(t)
    <3>1. Fail(t) \/ LoadFailures(t) \/ StoreFailures(t) \/ Open(t) => HasTime' /\ Relies(t)'
      BY <1>3, <2>4, <2>5 DEF HasTime, Fail, LoadFailures, StoreFailures, Open, Step,
                                    Relies, TypeOK, fields
    <3>2. CompareFailures(t) => HasTime' /\ Relies(t)'
      <4>1. failures >= Threshold => failures = Threshold
        BY <1>3, ThreadsAssumption DEF ThreadsAssumption, TypeOK
      <4> QED
        BY <1>3, <2>4, <2>5, <4>1 DEF HasTime, CompareFailures, Step, Relies, TypeOK, fields
    <3>3. StampTime(t) => HasTime' /\ Relies(t)'
      <4>1. StampTime(t) => since' # Never
        BY DEF StampTime, Never
      <4>2. StampTime(t) => pc'[t] = "idle"
        BY <1>3 DEF StampTime, Step, TypeOK
      <4> QED
        BY <4>1, <4>2 DEF HasTime, Relies
    <3> QED
      BY <2>2, <2>8, <3>1, <3>2, <3>3 DEF RecordFailure
  <2> QED
    BY <1>5, <2>6, <2>7, <2>8 DEF CallStep
<1> QED
  BY <1>2, <1>4, <1>5 DEF Next, CallStep

-------------------------------------------------------------------------------

(* The state of CircuitBreaker that the threads make up. *)
AState  == IF At({"close", "forget"}) THEN "CLOSED" ELSE IF Opening THEN "OPEN" ELSE state
ASince  == IF At({"close", "forget"}) THEN Never ELSE IF Opening THEN 0 ELSE since
AFlight == {t \in Threads : pc[t] \in {"work", "success", "failure", "store"}}

(* A step of thread t alone, in terms of where t is. *)
LEMMA AloneMaps ==
  ASSUME NEW t \in Threads,
         \A u \in Threads \ {t} : pc[u] \in Resting /\ pc'[u] \in Resting
  PROVE  /\ AState = IF pc[t] \in {"close", "forget"} THEN "CLOSED"
                     ELSE IF pc[t] \in {"compare", "open", "stamp"} /\ failures >= Threshold
                          THEN "OPEN" ELSE state
         /\ ASince = IF pc[t] \in {"close", "forget"} THEN Never
                     ELSE IF pc[t] \in {"compare", "open", "stamp"} /\ failures >= Threshold
                          THEN 0 ELSE since
         /\ AState' = IF pc'[t] \in {"close", "forget"} THEN "CLOSED"
                      ELSE IF pc'[t] \in {"compare", "open", "stamp"} /\ failures' >= Threshold
                           THEN "OPEN" ELSE state'
         /\ ASince' = IF pc'[t] \in {"close", "forget"} THEN Never
                      ELSE IF pc'[t] \in {"compare", "open", "stamp"} /\ failures' >= Threshold
                           THEN 0 ELSE since'
<1>1. /\ {"close", "forget"} \cap Resting = {} /\ {"compare", "open", "stamp"} \cap Resting = {}
  BY DEF Resting
<1>2. /\ At({"close", "forget"}) <=> pc[t] \in {"close", "forget"}
      /\ At({"close", "forget"})' <=> pc'[t] \in {"close", "forget"}
  BY <1>1, AtAlone
<1>3. /\ At({"compare", "open", "stamp"}) <=> pc[t] \in {"compare", "open", "stamp"}
      /\ At({"compare", "open", "stamp"})' <=> pc'[t] \in {"compare", "open", "stamp"}
  BY <1>1, AtAlone
<1> QED
  BY <1>2, <1>3 DEF AState, ASince, Opening

(* Each step by which calls do not come to overlap is a step of            *)
(* CircuitBreaker, or none: record_success() acts where it zeroes the      *)
(* count, record_failure() where it stores it, a request is let in where   *)
(* allow_request() decides.                                                *)
LEMMA AtomicStep == Inv /\ [Next]_vars => [overlapped' \/ Atomic!Next]_(Atomic!vars)
<1> SUFFICES ASSUME Inv, Next, ~overlapped' PROVE Atomic!Next \/ UNCHANGED Atomic!vars
  BY DEF vars, fields, Atomic!vars, Opening, At
<1>1. overlapped' = (overlapped \/ \E t, u \in InCall' : t # u)
  BY Zenon DEF Next
<1>2. TypeOK /\ ~overlapped
  BY <1>1, Zenon DEF Inv
<1>3. HasTime /\ \A t \in Threads : Relies(t)
  BY <1>2, Zenon DEF Inv, Quiet
<1>4. /\ (UNCHANGED Atomic!vars
            <=> UNCHANGED <<AState, failures, ASince, AFlight, asserted>>)
      /\ (Atomic!Tick <=> /\ ASince # Never /\ ASince < Recovery /\ ASince' = ASince + 1
                         /\ UNCHANGED <<AState, failures, AFlight, asserted>>)
  BY DEF Atomic!vars, Atomic!Tick, Atomic!Never, Never, AState, ASince, AFlight
<1>5. CASE Tick
  <2>1. UNCHANGED <<state, failures, pc, asserted>>
    BY <1>5 DEF Tick
  <2>2. UNCHANGED <<AState, AFlight>> /\ (UNCHANGED ASince \/ (ASince = since /\ ASince' = since'))
    <3>1. Opening' <=> Opening
      BY <2>1 DEF Opening, At
    <3>2. At({"close", "forget"})' <=> At({"close", "forget"})
      BY <2>1 DEF At
    <3>3. UNCHANGED AState
      BY <2>1, <3>1, <3>2 DEF AState
    <3>4. UNCHANGED ASince \/ (ASince = since /\ ASince' = since')
      BY <3>1, <3>2 DEF ASince
    <3>5. UNCHANGED AFlight
      BY <2>1 DEF AFlight
    <3> QED
      BY <3>3, <3>4, <3>5
  <2> QED
    BY <1>4, <1>5, <2>1, <2>2 DEF Tick, Atomic!Next
<1>6. ASSUME NEW t \in Threads, CallStep(t) PROVE Atomic!Next \/ UNCHANGED Atomic!vars
  <2>1. /\ Others(t)
        /\ \A u \in Threads \ {t} : pc[u] \in Resting /\ pc'[u] \in Resting
    BY <1>1, <1>2, <1>6, CallStepMoves, OthersRest
  <2>2. /\ pc[t] \in {"work", "success", "failure", "store"}
             <=> t \in AFlight
        /\ pc'[t] \in {"work", "success", "failure", "store"}
             <=> t \in AFlight'
        /\ \/ AFlight' = AFlight /\ (t \in AFlight' <=> t \in AFlight)
           \/ AFlight' = AFlight \cup {t} /\ t \notin AFlight
           \/ AFlight' = AFlight \ {t} /\ t \in AFlight
    BY <2>1 DEF AFlight, Others
  <2> USE AloneMaps, ThreadsAssumption DEF ThreadsAssumption
  <2>3. CASE \/ ReadState(t) \/ ComputeAge(t) \/ ComputeFails(t) \/ Refuse(t)
             \/ Succeed(t) \/ Close(t) \/ ForgetTime(t) \/ Fail(t) \/ LoadFailures(t)
             \/ CompareFailures(t) \/ Open(t) \/ StampTime(t) \/ (Decide(t) /\ state = "OPEN")
    <3> SUFFICES UNCHANGED <<AState, failures, ASince, AFlight, asserted>>
      BY <1>4
    <3>1. UNCHANGED <<failures, AFlight>>
      BY <1>2, <2>2, <2>3
         DEF TypeOK, ReadState, ComputeAge, ComputeFails, Refuse, Succeed, Close, ForgetTime,
             Fail, LoadFailures, CompareFailures, Open, StampTime, Decide, Step, fields
    <3>2. UNCHANGED <<AState, ASince>>
      <4>1. /\ TypeOK /\ Relies(t) /\ failures' = failures
        BY <1>2, <1>3, <3>1
      <4>2. CASE \/ ReadState(t) \/ ComputeAge(t) \/ ComputeFails(t) \/ Refuse(t) \/ Succeed(t)
                 \/ Fail(t) \/ LoadFailures(t) \/ (Decide(t) /\ state = "OPEN")
        <5>1. /\ UNCHANGED <<state, since>>
              /\ pc[t] \notin {"close", "forget", "compare", "open", "stamp"}
              /\ pc'[t] \notin {"close", "forget", "compare", "open", "stamp"}
          BY <4>1, <4>2 DEF TypeOK, ReadState, ComputeAge, ComputeFails, Refuse, Succeed, Fail,
                            LoadFailures, Decide, Step, fields
        <5> QED
          BY <2>1, <5>1
      <4>3. CASE Close(t)
        <5>1. pc[t] = "close" /\ pc'[t] = "forget"
          BY <4>1, <4>3 DEF TypeOK, Close, Step
        <5> QED
          BY <2>1, <5>1
      <4>4. CASE ForgetTime(t)
        <5>1. pc[t] = "forget" /\ pc'[t] = "idle" /\ state = "CLOSED" /\ state' = state /\ since' = Never
          BY <4>1, <4>4 DEF TypeOK, ForgetTime, Step, Relies
        <5> QED
          BY <2>1, <5>1
      <4>5. CASE CompareFailures(t)
        <5>1. /\ pc[t] = "compare" /\ UNCHANGED <<state, since>>
              /\ \/ failures >= Threshold /\ pc'[t] = "open"
                 \/ ~(failures >= Threshold) /\ pc'[t] = "idle"
          BY <4>1, <4>5 DEF TypeOK, CompareFailures, Step, fields
        <5> QED
          BY <2>1, <4>1, <5>1
      <4>6. CASE Open(t)
        <5>1. pc[t] = "open" /\ pc'[t] = "stamp" /\ failures >= Threshold
          BY <4>1, <4>6 DEF TypeOK, Open, Step, Relies
        <5> QED
          BY <2>1, <4>1, <5>1
      <4>7. CASE StampTime(t)
        <5>1. /\ pc[t] = "stamp" /\ pc'[t] = "idle" /\ failures >= Threshold
              /\ state = "OPEN" /\ state' = state /\ since' = 0
          BY <4>1, <4>7 DEF TypeOK, StampTime, Step, Relies
        <5> QED
          BY <2>1, <4>1, <5>1
      <4> QED
        BY <2>3, <4>2, <4>3, <4>4, <4>5, <4>6, <4>7
    <3>3. asserted' = asserted
      <4>1. Refuse(t) => since # Never
        BY <1>2, <1>3, <2>1 DEF TypeOK, Relies, HasTime, At, Resting, Refuse, Step
      <4>2. asserted' = asserted \/ (Refuse(t) /\ asserted' = (asserted \/ since = Never))
        BY <2>3, Zenon
           DEF ReadState, ComputeAge, ComputeFails, Refuse, Succeed, Close, ForgetTime, Fail,
               LoadFailures, CompareFailures, Open, StampTime, Decide
      <4> QED
        BY <1>2, <4>1, <4>2, Zenon DEF TypeOK
    <3> QED
      BY <3>1, <3>2, <3>3
  <2>4. CASE HalfOpen(t)
    <3>1. Atomic!Look
      <4>1. /\ pc[t] = "half open" /\ pc'[t] = "read state" /\ state' = "HALF_OPEN"
            /\ UNCHANGED <<failures, since, asserted>>
        BY <1>2, <2>4 DEF TypeOK, HalfOpen, Step
      <4>2. state = "OPEN" /\ since = Recovery
        BY <1>3, <4>1 DEF Relies
      <4>3. /\ AState = "OPEN" /\ ASince = Recovery /\ AState' = "HALF_OPEN" /\ ASince' = ASince
            /\ AFlight' = AFlight
        BY <2>1, <2>2, <4>1, <4>2
      <4>4. AState' = Atomic!Settled
        BY <4>3 DEF Atomic!Settled, Atomic!Never, AState, ASince
      <4> QED
        BY <4>1, <4>3, <4>4, Zenon DEF Atomic!Look, AState, ASince, AFlight
    <3> QED
      BY <3>1 DEF Atomic!Next
  <2>5. CASE Decide(t) /\ state # "OPEN"
    <3>1. Atomic!Admit(t)
      <4>1. /\ pc[t] = "read state" /\ pc'[t] = "work"
            /\ UNCHANGED <<state, failures, since, asserted>>
        BY <1>2, <2>5 DEF TypeOK, Decide, Step, fields
      <4>2. /\ AState = state /\ AState' = state /\ UNCHANGED ASince
            /\ AFlight' = AFlight \cup {t} /\ t \notin AFlight
        BY <2>1, <2>2, <4>1
      <4>3. AState \in {"CLOSED", "HALF_OPEN"}
        BY <1>2, <2>5, <4>2 DEF TypeOK
      <4> QED
        BY <4>1, <4>2, <4>3 DEF Atomic!Admit, Atomic!Settled, AState, ASince, AFlight
    <3> QED
      BY <3>1 DEF Atomic!Next
  <2>6. CASE ZeroFailures(t)
    <3>1. Atomic!RecordSuccess(t)
      <4>1. pc[t] = "success" /\ pc'[t] = "close" /\ failures' = 0 /\ UNCHANGED asserted
        BY <1>2, <2>6 DEF TypeOK, ZeroFailures, Step
      <4>2. /\ AState' = "CLOSED" /\ ASince' = Never
            /\ AFlight' = AFlight \ {t} /\ t \in AFlight
        BY <2>1, <2>2, <4>1
      <4> QED
        BY <4>1, <4>2 DEF Atomic!RecordSuccess, Atomic!Close, Atomic!Never, Never,
                          AState, ASince, AFlight
    <3> QED
      BY <3>1 DEF Atomic!Next
  <2>7. CASE StoreFailures(t)
    <3>1. Atomic!RecordFailure(t)
      <4>1. /\ pc[t] = "store" /\ pc'[t] = "compare" /\ UNCHANGED <<state, since, asserted>>
            /\ failures' = Capped(count[t] + 1, Threshold)
        BY <1>2, <2>7 DEF TypeOK, StoreFailures, Step
      <4>2. failures' = Atomic!Capped(failures + 1, Threshold)
        BY <1>3, <4>1 DEF Relies, Capped, Atomic!Capped
      <4>3. /\ AState = state /\ ASince = since /\ AFlight' = AFlight \ {t} /\ t \in AFlight
            /\ AState' = IF failures' >= Threshold THEN "OPEN" ELSE AState
            /\ ASince' = IF failures' >= Threshold THEN 0 ELSE ASince
        BY <2>1, <2>2, <4>1
      <4>4. /\ IF failures' >= Threshold THEN AState' = "OPEN" /\ ASince' = 0
                                        ELSE UNCHANGED <<AState, ASince>>
        BY <4>3
      <4> QED
        BY <4>1, <4>2, <4>3, <4>4, Zenon DEF Atomic!RecordFailure, AState, ASince, AFlight
    <3> QED
      BY <3>1 DEF Atomic!Next
  <2> QED
    BY <1>6, <2>3, <2>4, <2>5, <2>6, <2>7
       DEF CallStep, Check, RecordSuccess, RecordFailure
<1> QED
  BY <1>5, <1>6 DEF Next, CallStep

(* As long as their calls do not overlap, threads see the circuit breaker  *)
(* of module CircuitBreaker, whose methods are atomic                      *)
(* (circuit_breaker.py:45-73).                                             *)
THEOREM AtomicWhenApart == Spec => ActsAtomically
<1>1. Init => Inv
  BY TypeInit, QuietInit DEF Inv
<1>2. Inv /\ [Next]_vars => Inv'
  BY TypeStep, QuietStep DEF Inv
<1>3. Init => Atomic!Init
  <2> SUFFICES ASSUME Init PROVE Atomic!Init
    OBVIOUS
  <2>1. ~At({"close", "forget"}) /\ ~Opening /\ AFlight = {}
    BY DEF Init, At, Opening, AFlight
  <2>2. AState = "CLOSED" /\ ASince = Never /\ failures = 0
    BY <2>1 DEF Init, AState, ASince
  <2>3. asserted = FALSE
    BY Zenon DEF Init
  <2> QED
    BY <2>1, <2>2, <2>3, Zenon DEF Atomic!Init, Atomic!Never, Never, AState, ASince, AFlight
<1> QED
  BY <1>1, <1>2, <1>3, AtomicStep, PTL DEF Spec, ActsAtomically

(* It takes calls that overlap to leave an open circuit without the time   *)
(* it opened (circuit_breaker.py:60 and 72).                               *)
THEOREM TimedWhenApart == Spec => [](~overlapped => OpenHasTimeAtRest)
<1>1. Init => Inv
  BY TypeInit, QuietInit DEF Inv
<1>2. Inv /\ [Next]_vars => Inv'
  BY TypeStep, QuietStep DEF Inv
<1>3. Inv => (~overlapped => OpenHasTimeAtRest)
  BY DEF Inv, Quiet, HasTime, At, OpenHasTimeAtRest
<1> QED
  BY <1>1, <1>2, <1>3, PTL DEF Spec

===============================================================================
