--------------------------- MODULE RetryQueueProofs ---------------------------
(***************************************************************************)
(* Proofs about RetryQueue, for any set of threads, any number of messages *)
(* and any max_attempts.                                                   *)
(***************************************************************************)
EXTENDS RetryQueue, TLAPS

(* A thread that is past its pop holds a message. *)
BusyHolds == \A t \in Threads : pc[t] \in Busy => held[t] \in Msgs

Typed == TypeOK /\ BusyHolds

LEMMA JoinTyped ==
  ASSUME queue \in Seq(Msgs), bypass \in [Msgs -> SUBSET Msgs], NEW m \in Msgs, Join(m)
  PROVE  queue' \in Seq(Msgs) /\ bypass' \in [Msgs -> SUBSET Msgs]
BY DEF Join

LEMMA TypedInit == Init => Typed
BY QueueAssumption
   DEF QueueAssumption, Init, Typed, TypeOK, BusyHolds, Msgs, NoMsg, Places, Busy,
       Fates, Errors

LEMMA TypedStep == Typed /\ [Next]_vars => Typed'
<1> SUFFICES ASSUME Typed, [Next]_vars PROVE Typed'
  OBVIOUS
<1> USE DEF Typed, TypeOK, BusyHolds, Places, Busy, Fates, Errors, Goto, Return,
        Raise, history
<1>1. CASE Enqueue
  <2>1. created + 1 \in Msgs /\ created' \in 0 .. MsgLimit
    BY <1>1, QueueAssumption DEF QueueAssumption, Enqueue, Msgs
  <2>2. queue' \in Seq(Msgs) /\ bypass' \in [Msgs -> SUBSET Msgs]
    BY <1>1, <2>1, JoinTyped DEF Enqueue
  <2> QED
    BY <1>1, <2>1, <2>2 DEF Enqueue
<1>2. ASSUME NEW t \in Threads, CallProcessNext(t) PROVE Typed'
  BY <1>2 DEF CallProcessNext
<1>3. ASSUME NEW t \in Threads, CallDrain(t) PROVE Typed'
  BY <1>3 DEF CallDrain
<1>4. ASSUME NEW t \in Threads, DrainTest(t) PROVE Typed'
  BY <1>4 DEF DrainTest
<1>5. ASSUME NEW t \in Threads, Check(t) PROVE Typed'
  BY <1>5 DEF Check
<1>6. ASSUME NEW t \in Threads, PopEmpty(t) PROVE Typed'
  BY <1>6 DEF PopEmpty
<1>7. ASSUME NEW t \in Threads, Pop(t) PROVE Typed'
  <2>1. Head(queue) \in Msgs /\ Tail(queue) \in Seq(Msgs)
    BY <1>7 DEF Pop
  <2>2. bypass' \in [Msgs -> SUBSET Msgs] /\ queue' \in Seq(Msgs)
    BY <1>7, <2>1 DEF Pop, TakeHead
  <2>3. attempt[Head(queue)] \in Nat
    BY <2>1
  <2>4. fate' \in [Msgs -> Fates]
    BY <1>7, <2>1, <2>3 DEF Pop
  <2>5. /\ pc' \in [Threads -> Places]
        /\ draining' \in [Threads -> BOOLEAN]
        /\ held' \in [Threads -> Msgs \cup {NoMsg}]
        /\ raised' \in [Threads -> Errors]
    BY <1>7, <2>1 DEF Pop
  <2>6. BusyHolds'
    BY <1>7, <2>1 DEF Pop
  <2> QED
    BY <1>7, <2>2, <2>4, <2>5, <2>6 DEF Pop
<1>8. ASSUME NEW t \in Threads, StartHandler(t) PROVE Typed'
  BY <1>8 DEF StartHandler
<1>9. ASSUME NEW t \in Threads, Succeed(t) PROVE Typed'
  BY <1>9 DEF Succeed
<1>10. ASSUME NEW t \in Threads, Fail(t) PROVE Typed'
  <2>1. held[t] \in Msgs /\ attempt' \in [Msgs -> Nat]
    BY <1>10 DEF Fail, CountFailure
  <2>2. queue' \in Seq(Msgs) /\ bypass' \in [Msgs -> SUBSET Msgs]
    <3>1. Join(held[t]) \/ UNCHANGED <<queue, bypass>>
      BY <1>10, Zenon DEF Fail
    <3> QED
      BY <2>1, <3>1, JoinTyped
  <2>3. pc' \in [Threads -> Places] /\ held' \in [Threads -> Msgs \cup {NoMsg}]
    BY <1>10 DEF Fail
  <2>4. ASSUME NEW u \in Threads PROVE (pc[u] \in Busy => held[u] \in Msgs)'
    BY <1>10, <2>1 DEF Fail
  <2> QED
    BY <1>10, <2>1, <2>2, <2>3, <2>4 DEF Fail
<1>11. ASSUME NEW t \in Threads, Interrupt(t) PROVE Typed'
  BY <1>11 DEF Interrupt
<1>12. ASSUME NEW t \in Threads, GiveUp(t) PROVE Typed'
  <2>1. held[t] \in Msgs /\ routed' \in [Msgs -> Nat]
    BY <1>12 DEF GiveUp
  <2> QED
    BY <1>12, <2>1 DEF GiveUp
<1>13. CASE UNCHANGED vars
  BY <1>13 DEF vars
<1> QED
  BY <1>1, <1>2, <1>3, <1>4, <1>5, <1>6, <1>7, <1>8, <1>9, <1>10, <1>11, <1>12, <1>13
     DEF Next, Step

(* Every variable keeps its type (queue.py:28-94). *)
THEOREM TypeCorrect == Spec => []TypeOK
<1>1. Typed => TypeOK
  BY DEF Typed
<1> QED
  BY <1>1, TypedInit, TypedStep, PTL DEF Spec

-------------------------------------------------------------------------------

(* Where the messages are, part by part. *)
Accounted == \A m \in Msgs : (m <= created /\ fate[m] = "pending")
                               <=> (Queued(m) \/ \E t \in Threads : HeldBy(t, m))
Distinct  == \A i, j \in 1 .. Len(queue) : queue[i] = queue[j] => i = j
Apart     == \A t \in Threads, m \in Msgs : HeldBy(t, m) => ~Queued(m)
Exclusive == \A t, u \in Threads, m \in Msgs : HeldBy(t, m) /\ HeldBy(u, m) => t = u

(* A message that is not made yet has no outcome: what makes OnePlace      *)
(* inductive, since enqueue() brings a message in as pending.              *)
Unmade == \A m \in Msgs : m > created => fate[m] = "pending"

Placed == Accounted /\ Distinct /\ Apart /\ Exclusive /\ Unmade

(* append() puts a message in the list that was not there ... *)
LEMMA JoinPlaces ==
  ASSUME Typed, Distinct, NEW m \in Msgs, ~Queued(m), Join(m)
  PROVE  /\ Distinct'
         /\ \A x \in Msgs : Queued(x)' <=> Queued(x) \/ x = m
<1>1. /\ queue \in Seq(Msgs)
      /\ queue' = Append(queue, m)
      /\ Len(queue') = Len(queue) + 1
      /\ queue'[Len(queue) + 1] = m
      /\ \A i \in 1 .. Len(queue) : queue'[i] = queue[i]
  BY DEF Typed, TypeOK, Join
<1>2. Distinct'
  BY <1>1 DEF Distinct, Queued
<1>3. ASSUME NEW x \in Msgs PROVE Queued(x)' <=> Queued(x) \/ x = m
  BY <1>1 DEF Queued
<1> QED
  BY <1>2, <1>3

(* ... and pop(0) takes one out of it. *)
LEMMA TakePlaces ==
  ASSUME Typed, Distinct, queue # <<>>, TakeHead
  PROVE  /\ Distinct'
         /\ Head(queue) \in Msgs /\ Queued(Head(queue))
         /\ \A x \in Msgs : Queued(x)' <=> Queued(x) /\ x # Head(queue)
<1>1. /\ queue \in Seq(Msgs)
      /\ queue' = Tail(queue)
      /\ Len(queue) \in Nat /\ Len(queue) > 0
      /\ Len(queue') = Len(queue) - 1
      /\ Head(queue) = queue[1] /\ Head(queue) \in Msgs
      /\ \A i \in 1 .. Len(queue) - 1 : queue'[i] = queue[i + 1]
  BY DEF Typed, TypeOK, TakeHead
<1>2. Distinct'
  BY <1>1 DEF Distinct
<1>3. Queued(Head(queue))
  BY <1>1 DEF Queued
<1>4. ASSUME NEW x \in Msgs, Queued(x)' PROVE Queued(x) /\ x # Head(queue)
  <2>1. PICK i \in 1 .. Len(queue) - 1 : queue[i + 1] = x
    BY <1>1, <1>4 DEF Queued
  <2> QED
    BY <1>1, <2>1 DEF Distinct, Queued
<1>5. ASSUME NEW x \in Msgs, Queued(x), x # Head(queue) PROVE Queued(x)'
  <2>1. PICK i \in 1 .. Len(queue) : queue[i] = x
    BY <1>5 DEF Queued
  <2>2. i - 1 \in 1 .. Len(queue) - 1 /\ queue'[i - 1] = x
    BY <1>1, <1>5, <2>1
  <2> QED
    BY <1>1, <2>2 DEF Queued
<1> QED
  BY <1>1, <1>2, <1>3, <1>4, <1>5

(* A step that moves no message. *)
LEMMA StayPlaces ==
  ASSUME Placed, UNCHANGED <<queue, created, fate>>,
         \A u \in Threads, x \in Msgs : HeldBy(u, x)' <=> HeldBy(u, x)
  PROVE  Placed'
<1>1. Distinct' /\ Unmade' /\ (\A x \in Msgs : Queued(x)' <=> Queued(x))
  BY DEF Placed, Distinct, Unmade, Queued
<1> QED
  BY <1>1 DEF Placed, Accounted, Apart, Exclusive

(* A step by which thread t disposes of the message it holds. *)
LEMMA DropPlaces ==
  ASSUME Placed, Typed, UNCHANGED <<queue, created>>,
         NEW t \in Threads, NEW outcome \in Fates, outcome # "pending",
         pc[t] \in Busy, pc'[t] \notin Busy,
         fate' = [fate EXCEPT ![held[t]] = outcome],
         \A u \in Threads \ {t}, x \in Msgs : HeldBy(u, x)' <=> HeldBy(u, x)
  PROVE  Placed'
<1>1. held[t] \in Msgs /\ HeldBy(t, held[t])
  BY DEF Typed, BusyHolds, HeldBy
<1>2. Distinct' /\ (\A x \in Msgs : Queued(x)' <=> Queued(x))
  BY DEF Placed, Distinct, Queued
<1>3. \A x \in Msgs : ~HeldBy(t, x)' /\ (HeldBy(t, x) => x = held[t])
  BY DEF HeldBy
<1>4. /\ fate'[held[t]] = outcome
      /\ \A x \in Msgs \ {held[t]} : fate'[x] = fate[x]
  BY <1>1 DEF Typed, TypeOK
<1>5. held[t] <= created /\ ~Queued(held[t])
  BY <1>1 DEF Placed, Accounted, Apart
<1>6. Apart' /\ Exclusive'
  BY <1>2, <1>3 DEF Placed, Apart, Exclusive
<1>7. Unmade'
  BY <1>1, <1>4, <1>5 DEF Placed, Unmade, Typed, TypeOK, Msgs
<1>8. ASSUME NEW x \in Msgs
      PROVE  (x <= created' /\ fate'[x] = "pending")
               <=> (Queued(x)' \/ \E u \in Threads : HeldBy(u, x)')
  <2>1. CASE x = held[t]
    BY <1>1, <1>2, <1>3, <1>4, <1>5, <2>1 DEF Placed, Exclusive
  <2>2. CASE x # held[t]
    BY <1>2, <1>3, <1>4, <2>2 DEF Placed, Accounted
  <2> QED
    BY <2>1, <2>2
<1>9. Accounted'
  BY <1>8 DEF Accounted
<1> QED
  BY <1>2, <1>6, <1>7, <1>9 DEF Placed

LEMMA PlacedInit == Init => Placed
<1> SUFFICES ASSUME Init PROVE Placed
  OBVIOUS
<1>1. (\A m \in Msgs : ~Queued(m)) /\ Distinct
  BY DEF Init, Queued, Distinct
<1>2. \A t \in Threads, m \in Msgs : ~HeldBy(t, m)
  BY DEF Init, HeldBy, Busy
<1>3. (\A m \in Msgs : ~(m <= created)) /\ Unmade
  BY QueueAssumption DEF QueueAssumption, Init, Msgs, Unmade
<1> QED
  BY <1>1, <1>2, <1>3 DEF Placed, Accounted, Apart, Exclusive

LEMMA PlacedStep == Typed /\ Placed /\ [Next]_vars => Placed'
<1> SUFFICES ASSUME Typed, Placed, [Next]_vars PROVE Placed'
  OBVIOUS
<1> USE DEF Goto, Return, Raise, history
<1>1. CASE Enqueue
  <2>1. /\ created + 1 \in Msgs /\ created' = created + 1
        /\ \A x \in Msgs : x <= created' <=> x <= created \/ x = created + 1
        /\ \A x \in Msgs : x > created' => x > created
        /\ ~(created + 1 <= created) /\ created + 1 > created
    BY <1>1, QueueAssumption DEF Enqueue, QueueAssumption, Typed, TypeOK, Msgs
  <2>2. /\ ~Queued(created + 1) /\ fate[created + 1] = "pending"
        /\ \A t \in Threads : ~HeldBy(t, created + 1)
    BY <2>1 DEF Placed, Accounted, Unmade
  <2>3. Distinct' /\ \A x \in Msgs : Queued(x)' <=> Queued(x) \/ x = created + 1
    BY <1>1, <2>1, <2>2, JoinPlaces DEF Enqueue, Placed
  <2>4. fate' = fate /\ \A t \in Threads, x \in Msgs : HeldBy(t, x)' <=> HeldBy(t, x)
    BY <1>1 DEF Enqueue, HeldBy
  <2>5. Unmade'
    BY <2>1, <2>4 DEF Placed, Unmade
  <2>6. Accounted' /\ Apart' /\ Exclusive'
    BY <2>1, <2>2, <2>3, <2>4 DEF Placed, Accounted, Apart, Exclusive
  <2> QED
    BY <2>3, <2>5, <2>6 DEF Placed
<1>2. ASSUME NEW t \in Threads,
             CallProcessNext(t) \/ CallDrain(t) \/ DrainTest(t) \/ Check(t) \/ PopEmpty(t)
      PROVE  Placed'
  <2>1. pc[t] \notin Busy /\ pc' \in [Threads -> Places] /\ pc'[t] \notin Busy
    BY <1>2 DEF CallProcessNext, CallDrain, DrainTest, Check, PopEmpty, Typed, TypeOK,
                Busy, Places
  <2>2. /\ UNCHANGED <<queue, created, fate, held>>
        /\ \A u \in Threads \ {t} : pc'[u] = pc[u]
    BY <1>2 DEF CallProcessNext, CallDrain, DrainTest, Check, PopEmpty, Typed, TypeOK
  <2>3. \A u \in Threads, x \in Msgs : HeldBy(u, x)' <=> HeldBy(u, x)
    BY <2>1, <2>2 DEF HeldBy
  <2> QED
    BY <2>2, <2>3, StayPlaces
<1>3. ASSUME NEW t \in Threads, Pop(t) PROVE Placed'
  <2> DEFINE m == Head(queue)
  <2>1. /\ Distinct' /\ m \in Msgs /\ Queued(m)
        /\ \A x \in Msgs : Queued(x)' <=> Queued(x) /\ x # m
    BY <1>3, TakePlaces DEF Pop, Placed
  <2>2. m <= created /\ fate[m] = "pending" /\ \A u \in Threads : ~HeldBy(u, m)
    BY <2>1 DEF Placed, Accounted, Apart
  <2>3. /\ created' = created
        /\ \A u \in Threads \ {t}, x \in Msgs : HeldBy(u, x)' <=> HeldBy(u, x)
        /\ \A x \in Msgs : ~HeldBy(t, x)
    BY <1>3 DEF Pop, HeldBy, Typed, TypeOK, Busy
  <2>4. CASE pc'[t] \in Busy
    <3>1. held'[t] = m /\ fate' = fate
      BY <1>3, <2>4 DEF Pop, Typed, TypeOK, Busy
    <3>2. \A x \in Msgs : HeldBy(t, x)' <=> x = m
      BY <2>4, <3>1 DEF HeldBy
    <3>3. Unmade'
      BY <2>3, <3>1 DEF Placed, Unmade
    <3>4. Accounted' /\ Apart' /\ Exclusive'
      BY <2>1, <2>2, <2>3, <3>1, <3>2 DEF Placed, Accounted, Apart, Exclusive
    <3> QED
      BY <2>1, <3>3, <3>4 DEF Placed
  <2>5. CASE pc'[t] \notin Busy
    <3>1. fate' = [fate EXCEPT ![m] = "lost"]
      BY <1>3, <2>5 DEF Pop, Typed, TypeOK, Busy
    <3>2. fate'[m] = "lost" /\ \A x \in Msgs \ {m} : fate'[x] = fate[x]
      BY <2>1, <3>1 DEF Typed, TypeOK
    <3>3. \A x \in Msgs : ~HeldBy(t, x)'
      BY <2>5 DEF HeldBy
    <3>4. Unmade'
      BY <2>1, <2>2, <2>3, <3>2 DEF Placed, Unmade, Typed, TypeOK, Msgs
    <3>5. Accounted' /\ Apart' /\ Exclusive'
      BY <2>1, <2>2, <2>3, <3>2, <3>3 DEF Placed, Accounted, Apart, Exclusive
    <3> QED
      BY <2>1, <3>4, <3>5 DEF Placed
  <2> QED
    BY <2>4, <2>5
<1>4. ASSUME NEW t \in Threads, StartHandler(t) PROVE Placed'
  <2>1. /\ UNCHANGED <<queue, created, fate>>
        /\ \A u \in Threads, x \in Msgs : HeldBy(u, x)' <=> HeldBy(u, x)
    BY <1>4 DEF StartHandler, HeldBy, Typed, TypeOK, Busy
  <2> QED
    BY <2>1, StayPlaces
<1>5. ASSUME NEW t \in Threads, Succeed(t) \/ Interrupt(t) \/ GiveUp(t) PROVE Placed'
  <2>1. /\ UNCHANGED <<queue, created>> /\ pc[t] \in Busy /\ pc'[t] \notin Busy
        /\ \A u \in Threads \ {t}, x \in Msgs : HeldBy(u, x)' <=> HeldBy(u, x)
    BY <1>5 DEF Succeed, Interrupt, GiveUp, HeldBy, Typed, TypeOK, Busy
  <2>2. \E outcome \in {"succeeded", "exhausted", "lost"} :
           fate' = [fate EXCEPT ![held[t]] = outcome]
    BY <1>5 DEF Succeed, Interrupt, GiveUp
  <2> QED
    BY <2>1, <2>2, DropPlaces DEF Fates
<1>6. ASSUME NEW t \in Threads, Fail(t) PROVE Placed'
  <2>1. /\ UNCHANGED <<created, fate>> /\ held[t] \in Msgs /\ HeldBy(t, held[t])
        /\ \A u \in Threads \ {t}, x \in Msgs : HeldBy(u, x)' <=> HeldBy(u, x)
    BY <1>6 DEF Fail, HeldBy, Typed, TypeOK, BusyHolds, Busy
  <2>2. CASE MayRetry(held[t])
    <3>1. ~Queued(held[t]) /\ held[t] <= created /\ fate[held[t]] = "pending"
      BY <2>1 DEF Placed, Accounted, Apart
    <3>2. /\ Distinct'
          /\ \A x \in Msgs : Queued(x)' <=> Queued(x) \/ x = held[t]
      BY <1>6, <2>1, <2>2, <3>1, JoinPlaces DEF Fail, Placed
    <3>3. \A x \in Msgs : ~HeldBy(t, x)' /\ (HeldBy(t, x) => x = held[t])
      BY <1>6, <2>2 DEF Fail, HeldBy, Typed, TypeOK, Busy
    <3>4. Unmade'
      BY <2>1 DEF Placed, Unmade
    <3>5. Accounted' /\ Apart' /\ Exclusive'
      BY <2>1, <3>1, <3>2, <3>3 DEF Placed, Accounted, Apart, Exclusive
    <3> QED
      BY <3>2, <3>4, <3>5 DEF Placed
  <2>3. CASE ~MayRetry(held[t])
    <3>1. \A u \in Threads, x \in Msgs : HeldBy(u, x)' <=> HeldBy(u, x)
      BY <1>6, <2>1, <2>3 DEF Fail, HeldBy, Typed, TypeOK, Busy
    <3> QED
      BY <1>6, <2>1, <2>3, <3>1, StayPlaces DEF Fail
  <2> QED
    BY <2>2, <2>3
<1>7. CASE UNCHANGED vars
  BY <1>7, StayPlaces DEF vars, HeldBy
<1> QED
  BY <1>1, <1>2, <1>3, <1>4, <1>5, <1>6, <1>7 DEF Next, Step

(* However the threads interleave, a message is in the list once, in the   *)
(* hands of one thread, or disposed of (queue.py:44-94).                   *)
THEOREM InOnePlace == Spec => []OnePlace
<1>1. Init => Typed /\ Placed
  BY TypedInit, PlacedInit
<1>2. Typed /\ Placed /\ [Next]_vars => (Typed /\ Placed)'
  BY TypedStep, PlacedStep
<1>3. Placed => OnePlace
  BY DEF Placed, OnePlace, Accounted, Distinct, Apart, Exclusive
<1> QED
  BY <1>1, <1>2, <1>3, PTL DEF Spec

-------------------------------------------------------------------------------

(* How the attempts of a message, the calls of its handler and the place   *)
(* it is in go together.                                                   *)
Handling(t, m) == pc[t] = "handler" /\ held[t] = m

Settled  == \A m \in Msgs : (fate[m] = "pending" /\ \A t \in Threads : ~Handling(t, m))
                              => calls[m] = attempt[m]
InFlight == \A t \in Threads, m \in Msgs :
              Handling(t, m) => ~Spent(m, attempt[m]) /\ calls[m] = attempt[m] + 1
Waiting  == \A t \in Threads, m \in Msgs :
              pc[t] = "waiting" /\ held[t] = m => ~Spent(m, attempt[m])
GivenUp  == \A t \in Threads, m \in Msgs :
              pc[t] = "exhausted" /\ held[t] = m => Spent(m, attempt[m])
Unrouted == \A m \in Msgs : fate[m] # "exhausted" => routed[m] = 0

Counted == Settled /\ InFlight /\ Waiting /\ GivenUp /\ Unrouted /\ AttemptsHonest

(* A step that counts nothing and takes no message in or out of a          *)
(* thread's hands.                                                         *)
LEMMA StayCounted ==
  ASSUME Counted, UNCHANGED <<attempt, fate, calls, routed>>,
         \A u \in Threads : \/ pc'[u] = pc[u] /\ held'[u] = held[u]
                            \/ pc[u] \notin Busy /\ pc'[u] \notin Busy
  PROVE  Counted'
BY DEF Counted, Settled, InFlight, Waiting, GivenUp, Unrouted, AttemptsHonest, Handling,
       Busy, Spent

(* The only thread that holds a message is the one that handles it. *)
LEMMA HoldsAlone ==
  ASSUME Typed, Placed, NEW t \in Threads, pc[t] \in Busy
  PROVE  /\ held[t] \in Msgs /\ fate[held[t]] = "pending"
         /\ \A u \in Threads : pc[u] \in Busy /\ held[u] = held[t] => u = t
BY DEF Typed, BusyHolds, Placed, Accounted, Exclusive, HeldBy

LEMMA CountedInit == Init => Counted
BY QueueAssumption
   DEF QueueAssumption, Init, Counted, Settled, InFlight, Waiting, GivenUp, Unrouted,
       AttemptsHonest, Handling

LEMMA CountedStep == Typed /\ Placed /\ Counted /\ [Next]_vars => Counted'
<1> SUFFICES ASSUME Typed, Placed, Counted, [Next]_vars PROVE Counted'
  OBVIOUS
<1> USE QueueAssumption DEF QueueAssumption, Goto, Return, Raise, history
<1>0. /\ attempt \in [Msgs -> Nat] /\ calls \in [Msgs -> Nat] /\ routed \in [Msgs -> Nat]
      /\ fate \in [Msgs -> Fates] /\ pc \in [Threads -> Places]
      /\ held \in [Threads -> Msgs \cup {NoMsg}]
  BY DEF Typed, TypeOK
<1>1. ASSUME Enqueue \/ \E t \in Threads : \/ CallProcessNext(t) \/ CallDrain(t)
                                           \/ DrainTest(t) \/ Check(t) \/ PopEmpty(t)
      PROVE  Counted'
  <2>1. /\ UNCHANGED <<attempt, fate, calls, routed>>
        /\ \A u \in Threads : \/ pc'[u] = pc[u] /\ held'[u] = held[u]
                              \/ pc[u] \notin Busy /\ pc'[u] \notin Busy
    BY <1>0, <1>1 DEF Enqueue, CallProcessNext, CallDrain, DrainTest, Check, PopEmpty,
                      Join, Busy, Places
  <2> QED
    BY <2>1, StayCounted
<1>2. ASSUME NEW t \in Threads, Pop(t) PROVE Counted'
  <2> DEFINE m == Head(queue)
  <2>1. m \in Msgs /\ fate[m] = "pending" /\ pc[t] \notin Busy
        /\ \A u \in Threads : pc[u] \in Busy => held[u] # m
    BY <1>0, <1>2, TakePlaces DEF Pop, Placed, Accounted, Apart, HeldBy, Busy
  <2>2. /\ UNCHANGED <<attempt, calls, routed>>
        /\ \A u \in Threads \ {t} : pc'[u] = pc[u] /\ held'[u] = held[u]
    BY <1>0, <1>2 DEF Pop
  <2>3. \/ /\ pc'[t] = "exhausted" /\ held'[t] = m /\ Spent(m, attempt[m]) /\ fate' = fate
        \/ /\ pc'[t] = "waiting" /\ held'[t] = m /\ ~Spent(m, attempt[m]) /\ fate' = fate
        \/ /\ pc'[t] = "idle" /\ fate' = [fate EXCEPT ![m] = "lost"]
    BY <1>0, <1>2 DEF Pop
  <2>4. \A x \in Msgs : fate'[x] = fate[x] \/ (x = m /\ fate'[x] = "lost")
    BY <1>0, <2>1, <2>3
  <2>5. \A u \in Threads, x \in Msgs : Handling(u, x)' <=> Handling(u, x)
    BY <2>1, <2>2, <2>3 DEF Handling, Busy
  <2>6. Settled' /\ Unrouted' /\ AttemptsHonest'
    BY <2>1, <2>2, <2>4, <2>5 DEF Counted, Settled, Unrouted, AttemptsHonest, Spent
  <2>7. InFlight' /\ Waiting' /\ GivenUp'
    BY <2>2, <2>3, <2>5 DEF Counted, InFlight, Waiting, GivenUp, Spent
  <2> QED
    BY <2>6, <2>7 DEF Counted
<1>3. ASSUME NEW t \in Threads, StartHandler(t) PROVE Counted'
  <2> DEFINE m == held[t]
  <2>1. /\ m \in Msgs /\ fate[m] = "pending"
        /\ \A u \in Threads : pc[u] \in Busy /\ held[u] = m => u = t
    BY <1>3, HoldsAlone DEF StartHandler, Busy
  <2>2. /\ UNCHANGED <<attempt, fate, routed, held>>
        /\ pc[t] = "waiting" /\ pc'[t] = "handler"
        /\ \A u \in Threads \ {t} : pc'[u] = pc[u]
        /\ calls'[m] = calls[m] + 1
        /\ \A x \in Msgs \ {m} : calls'[x] = calls[x]
    BY <1>0, <1>3, <2>1 DEF StartHandler
  <2>3. calls[m] = attempt[m] /\ ~Spent(m, attempt[m])
    BY <2>1, <2>2 DEF Counted, Settled, Waiting, Handling, Busy
  <2>4. Waiting' /\ GivenUp' /\ Unrouted'
    BY <2>2 DEF Counted, Waiting, GivenUp, Unrouted, Spent
  <2>5. Settled' /\ InFlight'
    BY <2>1, <2>2, <2>3 DEF Counted, Settled, InFlight, Handling, Busy, Spent
  <2>6. AttemptsHonest'
    <3>1. SUFFICES ASSUME NEW x \in Msgs
                   PROVE  /\ calls'[x] > 0 => calls'[x] <= MaxAttempts[x]
                          /\ attempt[x] <= calls'[x]
                          /\ fate[x] = "exhausted" => calls'[x] = attempt[x] /\ Spent(x, attempt[x])
                          /\ routed[x] = IF HasCallback /\ fate[x] = "exhausted" THEN 1 ELSE 0
      BY <2>2 DEF AttemptsHonest, Spent
    <3>2. MaxAttempts[x] \in Int
      BY DEF Msgs
    <3>3. CASE x = m
      BY <1>0, <2>1, <2>2, <2>3, <3>2, <3>3 DEF Counted, AttemptsHonest, Spent
    <3>4. CASE x # m
      BY <1>0, <2>1, <2>2, <3>2, <3>4 DEF Counted, AttemptsHonest
    <3> QED
      BY <3>3, <3>4
  <2> QED
    BY <2>4, <2>5, <2>6 DEF Counted
<1>4. ASSUME NEW t \in Threads, Succeed(t) \/ Interrupt(t) PROVE Counted'
  <2> DEFINE m == held[t]
  <2>1. /\ m \in Msgs /\ fate[m] = "pending"
        /\ \A u \in Threads : pc[u] \in Busy /\ held[u] = m => u = t
    BY <1>4, HoldsAlone DEF Succeed, Interrupt, Busy
  <2>2. /\ UNCHANGED <<attempt, calls, routed>> /\ pc'[t] \notin Busy
        /\ \A u \in Threads \ {t} : pc'[u] = pc[u] /\ held'[u] = held[u]
        /\ fate'[m] \in {"succeeded", "lost"}
        /\ \A x \in Msgs \ {m} : fate'[x] = fate[x]
    BY <1>0, <1>4, <2>1 DEF Succeed, Interrupt, Busy
  <2>3. Settled' /\ InFlight'
    BY <2>1, <2>2 DEF Counted, Settled, InFlight, Handling, Busy, Spent
  <2>4. Waiting' /\ GivenUp'
    BY <2>2 DEF Counted, Waiting, GivenUp, Busy, Spent
  <2>5. Unrouted' /\ AttemptsHonest'
    BY <2>1, <2>2 DEF Counted, Unrouted, AttemptsHonest, Spent
  <2> QED
    BY <2>3, <2>4, <2>5 DEF Counted
<1>5. ASSUME NEW t \in Threads, Fail(t) PROVE Counted'
  <2> DEFINE m == held[t]
  <2>1. /\ m \in Msgs /\ fate[m] = "pending"
        /\ \A u \in Threads : pc[u] \in Busy /\ held[u] = m => u = t
    BY <1>5, HoldsAlone DEF Fail, Busy
  <2>2. /\ UNCHANGED <<fate, calls, routed>>
        /\ attempt'[m] = attempt[m] + 1
        /\ \A x \in Msgs \ {m} : attempt'[x] = attempt[x]
    BY <1>0, <1>5, <2>1 DEF Fail, CountFailure
  <2>3. \A u \in Threads \ {t} : pc'[u] = pc[u] /\ held'[u] = held[u]
    BY <1>0, <1>5 DEF Fail
  <2>4. \/ pc'[t] \notin Busy
        \/ pc'[t] = "exhausted" /\ held'[t] = m /\ Spent(m, attempt'[m])
    BY <1>0, <1>5 DEF Fail, MayRetry, Busy
  <2>5. pc[t] = "handler" /\ ~Spent(m, attempt[m]) /\ calls[m] = attempt[m] + 1
    BY <1>5, <2>1 DEF Fail, Counted, InFlight, Handling
  <2>6. Settled' /\ InFlight'
    BY <2>1, <2>2, <2>3, <2>4, <2>5 DEF Counted, Settled, InFlight, Handling, Busy, Spent
  <2>7. Waiting' /\ GivenUp'
    BY <2>1, <2>2, <2>3, <2>4 DEF Counted, Waiting, GivenUp, Busy, Spent
  <2>8. Unrouted' /\ AttemptsHonest'
    BY <1>0, <2>1, <2>2, <2>5 DEF Counted, Unrouted, AttemptsHonest, Spent
  <2> QED
    BY <2>6, <2>7, <2>8 DEF Counted
<1>6. ASSUME NEW t \in Threads, GiveUp(t) PROVE Counted'
  <2> DEFINE m == held[t]
  <2>1. /\ m \in Msgs /\ fate[m] = "pending"
        /\ \A u \in Threads : pc[u] \in Busy /\ held[u] = m => u = t
    BY <1>6, HoldsAlone DEF GiveUp, Busy
  <2>2. /\ UNCHANGED <<attempt, calls>> /\ pc'[t] \notin Busy /\ pc[t] = "exhausted"
        /\ \A u \in Threads \ {t} : pc'[u] = pc[u] /\ held'[u] = held[u]
    BY <1>0, <1>6 DEF GiveUp, Busy
  <2>3. /\ fate'[m] = "exhausted" /\ routed'[m] = IF HasCallback THEN routed[m] + 1 ELSE routed[m]
        /\ \A x \in Msgs \ {m} : fate'[x] = fate[x] /\ routed'[x] = routed[x]
    BY <1>0, <1>6, <2>1 DEF GiveUp
  <2>4. Spent(m, attempt[m]) /\ calls[m] = attempt[m] /\ routed[m] = 0
    BY <2>1, <2>2 DEF Counted, Settled, GivenUp, Unrouted, Handling, Busy
  <2>5. Settled' /\ InFlight'
    BY <2>1, <2>2, <2>3 DEF Counted, Settled, InFlight, Handling, Busy, Spent
  <2>6. Waiting' /\ GivenUp'
    BY <2>2 DEF Counted, Waiting, GivenUp, Busy, Spent
  <2>7. Unrouted' /\ AttemptsHonest'
    BY <2>1, <2>2, <2>3, <2>4 DEF Counted, Unrouted, AttemptsHonest, Spent
  <2> QED
    BY <2>5, <2>6, <2>7 DEF Counted
<1>7. CASE UNCHANGED vars
  BY <1>7, StayCounted DEF vars
<1> QED
  BY <1>1, <1>2, <1>3, <1>4, <1>5, <1>6, <1>7 DEF Next, Step

(* A handler runs at most max_attempts times for a message, and messages   *)
(* are dead-lettered once, after exactly that many failures                *)
(* (queue.py:61-65 and 77-83).                                             *)
THEOREM HonestAttempts == Spec => []AttemptsHonest
<1>1. Init => Typed /\ Placed /\ Counted
  BY TypedInit, PlacedInit, CountedInit
<1>2. Typed /\ Placed /\ Counted /\ [Next]_vars => (Typed /\ Placed /\ Counted)'
  BY TypedStep, PlacedStep, CountedStep
<1>3. Counted => AttemptsHonest
  BY DEF Counted
<1> QED
  BY <1>1, <1>2, <1>3, PTL DEF Spec

-------------------------------------------------------------------------------

(* What the budget of a message allows where the message is; how the turns *)
(* of the messages follow is in NoSecondTurn itself.                       *)
Fresh  == \A m \in Msgs : m > created => attempt[m] = 0
InTime == \A t \in Threads, m \in Msgs :
            pc[t] \in {"waiting", "handler"} /\ held[t] = m => ~DelayRaises(attempt[m])

Turned == Fresh /\ InTime /\ QueuedHaveAttempts /\ NoSecondTurn /\ OverflowSkipsDeadLetter

(* Where the messages in the list come from when it grows or shrinks. *)
LEMMA JoinShifts ==
  ASSUME Typed, NEW m \in Msgs, Join(m)
  PROVE  /\ queue \in Seq(Msgs) /\ queue' \in Seq(Msgs) /\ Len(queue') = Len(queue) + 1
         /\ queue'[Len(queue) + 1] = m
         /\ \A i \in 1 .. Len(queue) : queue'[i] = queue[i]
         /\ bypass'[m] = {} /\ \A x \in Msgs \ {m} : bypass'[x] = bypass[x]
BY DEF Typed, TypeOK, Join

LEMMA TakeShifts ==
  ASSUME Typed, queue # <<>>, TakeHead
  PROVE  /\ queue \in Seq(Msgs) /\ queue' \in Seq(Msgs) /\ Len(queue') = Len(queue) - 1
         /\ Head(queue) \in Msgs
         /\ \A i \in 1 .. Len(queue') : i + 1 \in 1 .. Len(queue) /\ queue'[i] = queue[i + 1]
         /\ \A x \in Msgs : bypass'[x] \subseteq bypass[x] \cup {Head(queue)}
BY DEF Typed, TypeOK, TakeHead

LEMMA StayTurned ==
  ASSUME Turned, UNCHANGED <<queue, attempt, created, fate, bypass>>,
         \A u \in Threads : \/ pc'[u] = pc[u] /\ held'[u] = held[u]
                            \/ pc'[u] \notin {"waiting", "handler"}
  PROVE  Turned'
BY DEF Turned, Fresh, InTime, QueuedHaveAttempts, NoSecondTurn, OverflowSkipsDeadLetter, Spent

LEMMA TurnedInit == Init => Turned
<1> SUFFICES ASSUME Init PROVE Turned
  OBVIOUS
<1>1. queue = <<>> /\ Len(queue) = 0
  BY DEF Init
<1>2. QueuedHaveAttempts /\ NoSecondTurn
  BY <1>1 DEF QueuedHaveAttempts, NoSecondTurn
<1>3. Fresh /\ InTime /\ OverflowSkipsDeadLetter
  BY QueueAssumption DEF QueueAssumption, Init, Fresh, InTime, OverflowSkipsDeadLetter
<1> QED
  BY <1>2, <1>3 DEF Turned

LEMMA TurnedStep == Typed /\ Placed /\ Counted /\ Turned /\ [Next]_vars => Turned'
<1> SUFFICES ASSUME Typed, Placed, Counted, Turned, [Next]_vars PROVE Turned'
  OBVIOUS
<1> USE DEF Goto, Return, Raise, history
<1>0. /\ attempt \in [Msgs -> Nat] /\ fate \in [Msgs -> Fates] /\ pc \in [Threads -> Places]
      /\ held \in [Threads -> Msgs \cup {NoMsg}] /\ created \in 0 .. MsgLimit
      /\ MsgLimit \in Nat /\ MaxAttempts \in [Msgs -> Int] /\ OverflowAt \in Nat
  BY QueueAssumption DEF QueueAssumption, Typed, TypeOK, Msgs
<1>1. CASE Enqueue
  <2> DEFINE m == created + 1
  <2>1. m \in Msgs /\ m > created /\ ~(m <= created) /\ attempt[m] = 0
    BY <1>0, <1>1 DEF Enqueue, Msgs, Turned, Fresh
  <2>2. Join(m) /\ UNCHANGED <<attempt, fate, pc, held>> /\ created' = created + 1
    BY <1>1 DEF Enqueue
  <2>3. ~Queued(m)
    BY <2>1 DEF Placed, Accounted
  <2>4. Fresh' /\ InTime' /\ OverflowSkipsDeadLetter'
    BY <1>0, <2>2 DEF Turned, Fresh, InTime, OverflowSkipsDeadLetter, Msgs
  <2>5. QueuedHaveAttempts'
    <3> SUFFICES ASSUME NEW i \in 1 .. Len(queue')
                 PROVE  MaxAttempts[queue'[i]] > 0 => ~Spent(queue'[i], attempt[queue'[i]])
      BY <2>2 DEF QueuedHaveAttempts, Spent
    <3>1. CASE i \in 1 .. Len(queue)
      BY <2>1, <2>2, <3>1, JoinShifts DEF Turned, QueuedHaveAttempts
    <3>2. CASE queue'[i] = m
      BY <1>0, <2>1, <3>2 DEF Spent
    <3> QED
      BY <2>1, <2>2, <3>1, <3>2, JoinShifts
  <2>6. NoSecondTurn'
    BY <2>1, <2>2, <2>3, JoinShifts DEF Turned, NoSecondTurn, Queued
  <2> QED
    BY <2>4, <2>5, <2>6 DEF Turned
<1>2. ASSUME NEW t \in Threads, \/ CallProcessNext(t) \/ CallDrain(t) \/ DrainTest(t)
                                \/ Check(t) \/ PopEmpty(t)
      PROVE  Turned'
  <2>1. /\ UNCHANGED <<queue, attempt, created, fate, bypass, held>>
        /\ \A u \in Threads : pc'[u] = pc[u] \/ pc'[u] \notin {"waiting", "handler"}
    BY <1>0, <1>2 DEF CallProcessNext, CallDrain, DrainTest, Check, PopEmpty
  <2> QED
    BY <2>1, StayTurned
<1>3. ASSUME NEW t \in Threads, Pop(t) PROVE Turned'
  <2> DEFINE m == Head(queue)
  <2>1. queue # <<>> /\ TakeHead /\ m \in Msgs /\ Queued(m)
        /\ Distinct' /\ \A x \in Msgs : Queued(x)' <=> Queued(x) /\ x # m
    BY <1>3, TakePlaces DEF Pop, Placed
  <2>2. UNCHANGED <<attempt, created>> /\ \A u \in Threads \ {t} : pc'[u] = pc[u] /\ held'[u] = held[u]
    BY <1>0, <1>3 DEF Pop
  <2>3. \/ pc'[t] = "waiting" /\ held'[t] = m /\ ~DelayRaises(attempt[m])
        \/ pc'[t] \in {"idle", "exhausted"}
    BY <1>0, <1>3 DEF Pop
  <2>4. \A x \in Msgs : fate'[x] = "exhausted" => fate[x] = "exhausted"
    BY <1>0, <1>3, <2>1 DEF Pop
  <2>5. Fresh' /\ InTime' /\ OverflowSkipsDeadLetter'
    BY <2>2, <2>3, <2>4 DEF Turned, Fresh, InTime, OverflowSkipsDeadLetter, DelayRaises
  <2>6. QueuedHaveAttempts'
    BY <2>1, <2>2, TakeShifts DEF Turned, QueuedHaveAttempts, Spent
  <2>7. NoSecondTurn'
    <3> SUFFICES ASSUME NEW i \in 1 .. Len(queue'), NEW j \in 1 .. Len(queue'), i < j
                 PROVE  queue'[i] \notin bypass'[queue'[j]]
      BY DEF NoSecondTurn
    <3>1. /\ queue'[i] = queue[i + 1] /\ queue'[j] = queue[j + 1]
          /\ i + 1 \in 1 .. Len(queue) /\ j + 1 \in 1 .. Len(queue) /\ i + 1 < j + 1
          /\ queue'[i] \in Msgs /\ queue'[j] \in Msgs
      BY <2>1, TakeShifts
    <3>2. queue'[i] \notin bypass[queue'[j]]
      BY <3>1 DEF Turned, NoSecondTurn
    <3>3. queue'[i] # m
      BY <2>1, <3>1 DEF Queued
    <3> QED
      BY <2>1, <3>1, <3>2, <3>3, TakeShifts
  <2> QED
    BY <2>5, <2>6, <2>7 DEF Turned
<1>4. ASSUME NEW t \in Threads, StartHandler(t) PROVE Turned'
  <2>1. /\ UNCHANGED <<queue, attempt, created, fate, bypass, held>> /\ pc[t] = "waiting"
        /\ \A u \in Threads \ {t} : pc'[u] = pc[u]
    BY <1>0, <1>4 DEF StartHandler
  <2> QED
    BY <2>1 DEF Turned, Fresh, InTime, QueuedHaveAttempts, NoSecondTurn,
                OverflowSkipsDeadLetter, Spent
<1>5. ASSUME NEW t \in Threads, Succeed(t) \/ Interrupt(t) PROVE Turned'
  <2>1. /\ UNCHANGED <<queue, attempt, created, bypass>>
        /\ pc'[t] \notin {"waiting", "handler"}
        /\ \A u \in Threads \ {t} : pc'[u] = pc[u] /\ held'[u] = held[u]
        /\ \A x \in Msgs : fate'[x] = "exhausted" => fate[x] = "exhausted"
    BY <1>0, <1>5 DEF Succeed, Interrupt
  <2> QED
    BY <2>1 DEF Turned, Fresh, InTime, QueuedHaveAttempts, NoSecondTurn,
                OverflowSkipsDeadLetter, Spent
<1>6. ASSUME NEW t \in Threads, Fail(t) PROVE Turned'
  <2> DEFINE m == held[t]
  <2>1. /\ m \in Msgs /\ m <= created /\ ~Queued(m)
        /\ \A u \in Threads : pc[u] \in Busy /\ held[u] = m => u = t
    BY <1>6, HoldsAlone DEF Fail, Busy, Placed, Accounted, Apart, HeldBy
  <2>2. /\ UNCHANGED <<created, fate>> /\ attempt'[m] = attempt[m] + 1
        /\ \A x \in Msgs \ {m} : attempt'[x] = attempt[x]
        /\ \A u \in Threads \ {t} : pc'[u] = pc[u] /\ held'[u] = held[u]
        /\ pc[t] = "handler" /\ pc'[t] \notin {"waiting", "handler"}
    BY <1>0, <1>6, <2>1 DEF Fail, CountFailure
  <2>3. attempt[m] \in Nat /\ ~DelayRaises(attempt[m])
    BY <1>0, <2>1, <2>2 DEF Turned, InTime
  <2>4. Fresh' /\ InTime'
    <3>1. Fresh'
      BY <1>0, <2>1, <2>2 DEF Turned, Fresh, Msgs
    <3>2. InTime'
      BY <2>1, <2>2 DEF Turned, InTime, Busy, DelayRaises
    <3> QED
      BY <3>1, <3>2
  <2>5. OverflowSkipsDeadLetter'
    BY <1>0, <2>1, <2>2, <2>3 DEF Turned, OverflowSkipsDeadLetter, DelayRaises
  <2>6. CASE Join(m) /\ ~Spent(m, attempt'[m])
    <3>1. QueuedHaveAttempts'
      BY <2>1, <2>2, <2>6, JoinShifts DEF Turned, QueuedHaveAttempts, Spent, Queued
    <3>2. NoSecondTurn'
      BY <2>1, <2>6, JoinShifts DEF Turned, NoSecondTurn, Queued
    <3> QED
      BY <2>4, <2>5, <3>1, <3>2 DEF Turned
  <2>7. CASE UNCHANGED <<queue, bypass>>
    <3>1. QueuedHaveAttempts'
      <4>1. \A i \in 1 .. Len(queue) : queue[i] \in Msgs \ {m}
        BY <2>1 DEF Queued, Typed, TypeOK
      <4> QED
        BY <2>2, <2>7, <4>1 DEF Turned, QueuedHaveAttempts, Spent
    <3>2. NoSecondTurn'
      BY <2>7 DEF Turned, NoSecondTurn
    <3> QED
      BY <2>4, <2>5, <3>1, <3>2 DEF Turned
  <2> QED
    BY <1>6, <2>6, <2>7 DEF Fail, MayRetry
<1>7. ASSUME NEW t \in Threads, GiveUp(t) PROVE Turned'
  <2> DEFINE m == held[t]
  <2>1. m \in Msgs /\ Spent(m, attempt[m])
    BY <1>7, HoldsAlone DEF GiveUp, Busy, Counted, GivenUp
  <2>2. /\ UNCHANGED <<queue, attempt, created, bypass>>
        /\ pc'[t] \notin {"waiting", "handler"}
        /\ \A u \in Threads \ {t} : pc'[u] = pc[u] /\ held'[u] = held[u]
        /\ \A x \in Msgs \ {m} : fate'[x] = fate[x]
    BY <1>0, <1>7 DEF GiveUp
  <2>3. OverflowSkipsDeadLetter'
    BY <1>0, <2>1, <2>2 DEF Turned, OverflowSkipsDeadLetter, Spent
  <2> QED
    BY <2>2, <2>3 DEF Turned, Fresh, InTime, QueuedHaveAttempts, NoSecondTurn, Spent
<1>8. CASE UNCHANGED vars
  BY <1>8, StayTurned DEF vars
<1> QED
  BY <1>1, <1>2, <1>3, <1>4, <1>5, <1>6, <1>7, <1>8 DEF Next, Step

(* All that is known of the queue, and inductive as a whole. *)
LEMMA QueueInv == Spec => [](Typed /\ Placed /\ Counted /\ Turned)
<1>1. Init => Typed /\ Placed /\ Counted /\ Turned
  BY TypedInit, PlacedInit, CountedInit, TurnedInit
<1>2. Typed /\ Placed /\ Counted /\ Turned /\ [Next]_vars
        => (Typed /\ Placed /\ Counted /\ Turned)'
  BY TypedStep, PlacedStep, CountedStep, TurnedStep
<1> QED
  BY <1>1, <1>2, PTL DEF Spec

(* With a positive max_attempts the test before the handler                *)
(* (queue.py:61-65) never finds a message exhausted.                       *)
THEOREM QueuedNotSpent == Spec => []QueuedHaveAttempts
<1>1. Turned => QueuedHaveAttempts
  BY DEF Turned
<1> QED
  BY <1>1, QueueInv, PTL

(* A message that fails again and again takes no second turn while another *)
(* waits (queue.py:81).                                                    *)
THEOREM TurnsTaken == Spec => []NoSecondTurn
<1>1. Turned => NoSecondTurn
  BY DEF Turned
<1> QED
  BY <1>1, QueueInv, PTL

(* A delay that overflows within the budget keeps every message from       *)
(* becoming a dead letter (queue.py:67).                                   *)
THEOREM OverflowLoses == Spec => []OverflowSkipsDeadLetter
<1>1. Turned => OverflowSkipsDeadLetter
  BY DEF Turned
<1> QED
  BY <1>1, QueueInv, PTL

-------------------------------------------------------------------------------

(* The messages some handler is working on: RetryPromise's running. *)
Running == {held[t] : t \in {u \in Threads : pc[u] = "handler"}}

(* Running changes with the one thread that starts or ends a handler. *)
LEMMA RunningSame ==
  ASSUME \A u \in Threads : \/ pc'[u] = pc[u] /\ held'[u] = held[u]
                            \/ pc[u] # "handler" /\ pc'[u] # "handler"
  PROVE  Running' = Running
BY DEF Running

LEMMA RunningEnds ==
  ASSUME Typed, Placed, NEW t \in Threads, pc[t] = "handler", pc'[t] # "handler",
         \A u \in Threads \ {t} : pc'[u] = pc[u] /\ held'[u] = held[u]
  PROVE  held[t] \in Running /\ Running' = Running \ {held[t]}
<1>1. \A u \in Threads : pc[u] = "handler" /\ held[u] = held[t] => u = t
  BY HoldsAlone DEF Busy
<1> QED
  BY <1>1 DEF Running

LEMMA PromiseStep ==
  Typed /\ Placed /\ Counted /\ [Next]_vars => [Promise!Next]_(Promise!vars)
<1> SUFFICES ASSUME Typed, Placed, Counted, [Next]_vars
             PROVE  Promise!Next \/ UNCHANGED Promise!vars
  OBVIOUS
<1> USE DEF Goto, Return, Raise, history
<1>0. /\ attempt \in [Msgs -> Nat] /\ fate \in [Msgs -> Fates]
      /\ pc \in [Threads -> Places] /\ held \in [Threads -> Msgs \cup {NoMsg}]
      /\ created \in 0 .. MsgLimit /\ MsgLimit \in Nat
  BY QueueAssumption DEF Typed, TypeOK, QueueAssumption
<1>1. ASSUME Enqueue PROVE \E m \in Msgs : Promise!Make(m)
  <2>1. created + 1 \in Msgs /\ created + 1 \notin 1 .. created
        /\ 1 .. created' = (1 .. created) \cup {created + 1}
    BY <1>0, <1>1 DEF Enqueue, Msgs
  <2>2. Running' = Running /\ UNCHANGED <<attempt, fate>>
    BY <1>1 DEF Enqueue, Running
  <2> QED
    BY <2>1, <2>2 DEF Promise!Make, Running
<1>2. ASSUME NEW t \in Threads,
             CallProcessNext(t) \/ CallDrain(t) \/ DrainTest(t) \/ Check(t) \/ PopEmpty(t)
      PROVE  UNCHANGED Promise!vars
  <2>1. UNCHANGED <<created, attempt, fate>>
    BY <1>2 DEF CallProcessNext, CallDrain, DrainTest, Check, PopEmpty
  <2>2. \A u \in Threads : \/ pc'[u] = pc[u] /\ held'[u] = held[u]
                           \/ pc[u] # "handler" /\ pc'[u] # "handler"
    BY <1>0, <1>2 DEF CallProcessNext, CallDrain, DrainTest, Check, PopEmpty, Places
  <2> QED
    BY <2>1, <2>2, RunningSame DEF Promise!vars, Running
<1>3. ASSUME NEW t \in Threads, Pop(t)
      PROVE  UNCHANGED Promise!vars \/ \E m \in Msgs : Promise!Lose(m)
  <2> DEFINE m == Head(queue)
  <2>1. m \in Msgs /\ Queued(m)
    BY <1>3, TakePlaces DEF Pop, Placed
  <2>2. m \in 1 .. created /\ fate[m] = "pending" /\ m \notin Running
    BY <1>0, <2>1 DEF Placed, Accounted, Apart, HeldBy, Busy, Running, Msgs
  <2>3. Running' = Running /\ UNCHANGED <<created, attempt>>
    <3>1. \A u \in Threads : \/ pc'[u] = pc[u] /\ held'[u] = held[u]
                             \/ pc[u] # "handler" /\ pc'[u] # "handler"
      BY <1>0, <1>3 DEF Pop
    <3> QED
      BY <1>3, <3>1, RunningSame DEF Pop
  <2>4. fate' = fate \/ fate' = [fate EXCEPT ![m] = "lost"]
    BY <1>3 DEF Pop
  <2>5. CASE fate' = fate
    BY <2>3, <2>5 DEF Promise!vars, Running
  <2>6. CASE fate' = [fate EXCEPT ![m] = "lost"]
    BY <2>1, <2>2, <2>3, <2>6 DEF Promise!Lose, Running
  <2> QED
    BY <2>4, <2>5, <2>6
<1>4. ASSUME NEW t \in Threads, StartHandler(t)
      PROVE  \E m \in Msgs : Promise!Start(m)
  <2>1. /\ held[t] \in Msgs /\ fate[held[t]] = "pending"
        /\ \A u \in Threads : pc[u] \in Busy /\ held[u] = held[t] => u = t
    BY <1>4, HoldsAlone DEF StartHandler, Busy
  <2>2. held[t] \in 1 .. created /\ held[t] \notin Running
    BY <1>0, <1>4, <2>1 DEF StartHandler, Placed, Accounted, HeldBy, Busy, Running, Msgs
  <2>3. ~Promise!Spent(held[t], attempt[held[t]])
    BY <1>4, <2>1 DEF StartHandler, Counted, Waiting, Spent, Promise!Spent
  <2>4. Running' = Running \cup {held[t]} /\ UNCHANGED <<created, attempt, fate>>
    BY <1>0, <1>4 DEF StartHandler, Running
  <2> QED
    BY <2>1, <2>2, <2>3, <2>4 DEF Promise!Start, Running
<1>5. ASSUME NEW t \in Threads, Succeed(t)
      PROVE  \E m \in Msgs : Promise!Succeed(m)
  <2>1. held[t] \in Msgs
    BY <1>5, HoldsAlone DEF Succeed, Busy
  <2>2. held[t] \in Running /\ Running' = Running \ {held[t]}
    <3>1. pc[t] = "handler" /\ pc'[t] # "handler"
          /\ \A u \in Threads \ {t} : pc'[u] = pc[u] /\ held'[u] = held[u]
      BY <1>0, <1>5 DEF Succeed
    <3> QED
      BY <3>1, RunningEnds
  <2> QED
    BY <1>5, <2>1, <2>2 DEF Succeed, Promise!Succeed, Running
<1>6. ASSUME NEW t \in Threads, Fail(t)
      PROVE  \E m \in Msgs : Promise!Fail(m)
  <2>1. held[t] \in Msgs
    BY <1>6, HoldsAlone DEF Fail, Busy
  <2>2. held[t] \in Running /\ Running' = Running \ {held[t]}
    <3>1. pc[t] = "handler" /\ pc'[t] # "handler"
          /\ \A u \in Threads \ {t} : pc'[u] = pc[u] /\ held'[u] = held[u]
      BY <1>0, <1>6 DEF Fail
    <3> QED
      BY <3>1, RunningEnds
  <2> QED
    BY <1>6, <2>1, <2>2 DEF Fail, CountFailure, Promise!Fail, Running
<1>7. ASSUME NEW t \in Threads, Interrupt(t)
      PROVE  \E m \in Msgs : Promise!Lose(m)
  <2>1. /\ held[t] \in Msgs /\ fate[held[t]] = "pending"
        /\ \A u \in Threads : pc[u] \in Busy /\ held[u] = held[t] => u = t
    BY <1>7, HoldsAlone DEF Interrupt, Busy
  <2>2. held[t] \in 1 .. created
    BY <1>0, <1>7, <2>1 DEF Interrupt, Placed, Accounted, HeldBy, Busy, Msgs
  <2>3. Running' = Running \ {held[t]}
    <3>1. /\ pc[t] \in {"waiting", "handler"} /\ pc'[t] = "idle"
          /\ \A u \in Threads \ {t} : pc'[u] = pc[u] /\ held'[u] = held[u]
      BY <1>0, <1>7 DEF Interrupt
    <3> QED
      BY <2>1, <3>1 DEF Running, Busy
  <2> QED
    BY <1>7, <2>1, <2>2, <2>3 DEF Interrupt, Promise!Lose, Running
<1>8. ASSUME NEW t \in Threads, GiveUp(t)
      PROVE  \E m \in Msgs : Promise!GiveUp(m)
  <2>1. /\ held[t] \in Msgs /\ fate[held[t]] = "pending"
        /\ \A u \in Threads : pc[u] \in Busy /\ held[u] = held[t] => u = t
    BY <1>8, HoldsAlone DEF GiveUp, Busy
  <2>2. held[t] \in 1 .. created /\ held[t] \notin Running
    BY <1>0, <1>8, <2>1 DEF GiveUp, Placed, Accounted, HeldBy, Busy, Running, Msgs
  <2>3. Promise!Spent(held[t], attempt[held[t]])
    BY <1>8, <2>1 DEF GiveUp, Counted, GivenUp, Spent, Promise!Spent
  <2>4. Running' = Running
    <3>1. \A u \in Threads : \/ pc'[u] = pc[u] /\ held'[u] = held[u]
                             \/ pc[u] # "handler" /\ pc'[u] # "handler"
      BY <1>0, <1>8 DEF GiveUp
    <3> QED
      BY <3>1, RunningSame
  <2> QED
    BY <1>8, <2>1, <2>2, <2>3, <2>4 DEF GiveUp, Promise!GiveUp, Running
<1>9. CASE UNCHANGED vars
  BY <1>9 DEF vars, Promise!vars
<1>10. CASE Enqueue
  BY <1>1, <1>10 DEF Promise!Next
<1>11. ASSUME NEW t \in Threads, CallProcessNext(t) \/ CallDrain(t) \/ Step(t)
       PROVE  Promise!Next \/ UNCHANGED Promise!vars
  <2>1. ASSUME NEW m \in Msgs,
               \/ Promise!Start(m) \/ Promise!Succeed(m) \/ Promise!Fail(m)
               \/ Promise!GiveUp(m) \/ Promise!Lose(m)
        PROVE  Promise!Next
    BY <2>1 DEF Promise!Next
  <2>2. CASE CallProcessNext(t) \/ CallDrain(t) \/ DrainTest(t) \/ Check(t) \/ PopEmpty(t)
    BY <1>2, <2>2
  <2>3. CASE Pop(t)
    BY <1>3, <2>1, <2>3
  <2>4. CASE StartHandler(t)
    BY <1>4, <2>1, <2>4
  <2>5. CASE Succeed(t)
    BY <1>5, <2>1, <2>5
  <2>6. CASE Fail(t)
    BY <1>6, <2>1, <2>6
  <2>7. CASE Interrupt(t)
    BY <1>7, <2>1, <2>7
  <2>8. CASE GiveUp(t)
    BY <1>8, <2>1, <2>8
  <2> QED
    BY <1>11, <2>2, <2>3, <2>4, <2>5, <2>6, <2>7, <2>8 DEF Step
<1> QED
  BY <1>9, <1>10, <1>11 DEF Next

(* The queue keeps the promise of RetryPromise: at most one handler at a   *)
(* time for a message, no more attempts than its budget, one outcome that  *)
(* is final (queue.py:44-94).                                              *)
THEOREM ImplementsPromise == Spec => KeepsPromise
<1>1. Init => Typed /\ Placed /\ Counted
  BY TypedInit, PlacedInit, CountedInit
<1>2. Typed /\ Placed /\ Counted /\ [Next]_vars => (Typed /\ Placed /\ Counted)'
  BY TypedStep, PlacedStep, CountedStep
<1>3. Init => Promise!Init
  BY DEF Init, Promise!Init
<1> QED
  BY <1>1, <1>2, <1>3, PromiseStep, PTL DEF Spec, KeepsPromise, Promise!Spec

-------------------------------------------------------------------------------

(* What the test of the list is worth to a thread: as long as no other     *)
(* thread pops, the list stays as long as it was.                          *)
PopFinds ==
  /\ \A t \in Threads : pc[t] = "pop" => queue # <<>>
  /\ NoIndexError

LEMMA PopFindsStep ==
  (\A t, u \in Threads : t = u) /\ Typed /\ PopFinds /\ [Next]_vars => PopFinds'
<1> SUFFICES ASSUME \A t, u \in Threads : t = u, Typed, PopFinds, [Next]_vars
             PROVE  PopFinds'
  OBVIOUS
<1>1. /\ queue \in Seq(Msgs) /\ pc \in [Threads -> Places]
      /\ raised \in [Threads -> Errors]
  BY DEF Typed, TypeOK
<1>2. CASE UNCHANGED vars
  BY <1>2 DEF vars, PopFinds, NoIndexError
<1>3. CASE Enqueue
  <2>1. queue' = Append(queue, created + 1) /\ UNCHANGED <<pc, raised>>
    BY <1>3 DEF Enqueue, Join
  <2>2. queue' # <<>>
    BY <1>1, <2>1
  <2> QED
    BY <2>1, <2>2 DEF PopFinds, NoIndexError
<1>4. ASSUME NEW t \in Threads, CallProcessNext(t) \/ CallDrain(t) \/ Step(t)
      PROVE  PopFinds'
  <2>1. \A u \in Threads : u = t
    OBVIOUS
  <2>2. pc'[t] = "pop" => queue' # <<>>
    BY <1>1, <1>4 DEF CallProcessNext, CallDrain, Step, DrainTest, Check, PopEmpty, Pop,
       StartHandler, Succeed, Fail, Interrupt, GiveUp, Goto, Return, Raise, NonEmpty
  <2>3. ~PopEmpty(t)
    BY DEF PopEmpty, PopFinds
  <2>4. raised'[t] # "IndexError"
    BY <1>1, <1>4, <2>3 DEF CallProcessNext, CallDrain, Step, DrainTest, Check, Pop,
       StartHandler, Succeed, Fail, Interrupt, GiveUp, Goto, Return, Raise, PopFinds, NoIndexError
  <2> QED
    BY <2>1, <2>2, <2>4 DEF PopFinds, NoIndexError
<1> QED
  BY <1>2, <1>3, <1>4 DEF Next

(* It takes a second thread to make pop(0) raise IndexError: a thread that *)
(* is alone always finds what it saw, even if handlers enqueue meanwhile   *)
(* (queue.py:57-60).                                                       *)
THEOREM AlonePopFinds ==
  ASSUME \A t, u \in Threads : t = u
  PROVE  Spec => []NoIndexError
<1>1. Init => Typed /\ PopFinds
  BY TypedInit DEF Init, PopFinds, NoIndexError
<1>2. Typed /\ PopFinds /\ [Next]_vars => (Typed /\ PopFinds)'
  BY TypedStep, PopFindsStep
<1>3. PopFinds => NoIndexError
  BY DEF PopFinds
<1> QED
  BY <1>1, <1>2, <1>3, PTL DEF Spec

===============================================================================
