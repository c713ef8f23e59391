--------------------------- MODULE RetryRunnersProofs ---------------------------
(***************************************************************************)
(* Proofs about the runners, for any messages, budgets, predicates,        *)
(* watermarks and fingerprints.  The actions of RetryRunners come in six   *)
(* kinds, as far as the queue and the budget are concerned; what is proved *)
(* about a kind holds of every runner that has an action of it.            *)
(***************************************************************************)
EXTENDS RetryRunners, FiniteSetTheorems, TLAPS

Rests == UNCHANGED <<queue, attempts, working, made, retried, handled, calls, fate>>

Joins(m) ==
  /\ m \notin made /\ made' = made \cup {m}
  /\ Requeue(m)
  /\ UNCHANGED <<attempts, working, retried, handled, calls, fate>>

Drops ==
  /\ runner \in {"retry", "circuit", "filtered"}
  /\ queue # <<>>
  /\ runner = "filtered" => Head(queue) \in matching
  /\ queue' = Tail(queue)
  /\ End(Head(queue), "lost")
  /\ UNCHANGED <<attempts, working, made, retried, handled, calls>>

Rotates ==
  /\ runner = "filtered"
  /\ queue # <<>>
  /\ queue' = Append(Tail(queue), Head(queue))
  /\ UNCHANGED <<attempts, working, made, retried, handled, calls, fate>>

CountsAttempt(m) == attempts' = [attempts EXCEPT ![m] = @ + 1]

(* A message comes back from its handler into the queue, or comes to its end. *)
Requeues(m) ==
  /\ runner # "tagging" => attempts[m] + 1 < Budget(m)
  /\ CountsAttempt(m)
  /\ retried' = retried + 1
  /\ Requeue(m)
  /\ UNCHANGED fate
Ends(m) ==
  /\ \/ End(m, "succeeded") /\ UNCHANGED attempts
     \/ End(m, "lost") /\ UNCHANGED attempts
     \/ End(m, "lost") /\ CountsAttempt(m)
     \/ End(m, "exhausted") /\ attempts[m] + 1 >= Budget(m) /\ CountsAttempt(m)
     \/ End(m, "exhausted") /\ runner = "tagging" /\ UNCHANGED attempts
  /\ retried' \in {retried, retried + 1}
  /\ runner \notin {"observable", "chained"} => UNCHANGED retried
  /\ UNCHANGED queue
Returns(m) ==
  /\ Leave(m)
  /\ Requeues(m) \/ Ends(m)
  /\ UNCHANGED <<made, handled, calls>>

(* Every step is of one of these kinds. *)
LEMMA Kinds ==
  ASSUME attempts \in [Msgs -> Nat], [Next]_vars
  PROVE  /\ UNCHANGED runner
         /\ \/ Rests
            \/ \E m \in Msgs : Joins(m) \/ Returns(m)
            \/ TakeFirst
            \/ Drops \/ Rotates \/ LoseSkipped
<1> DEFINE Kind == /\ UNCHANGED runner
                   /\ \/ Rests
                      \/ \E m \in Msgs : Joins(m) \/ Returns(m)
                      \/ TakeFirst
                      \/ Drops \/ Rotates \/ LoseSkipped
<1> USE RunnersAssumption DEF RunnersAssumption, history, guards
<1>1. ASSUME NEW m \in Msgs,
             Enqueue(m) \/ EnqueueTagging(m) \/ EnqueueWatermark(m) \/ EnqueueDedup(m)
      PROVE  Kind
  BY <1>1 DEF Enqueue, EnqueueTagging, EnqueueWatermark, EnqueueDedup, Accept, Joins
<1>2. ASSUME NEW m \in Msgs, DropDuplicate(m) PROVE Kind
  BY <1>2 DEF DropDuplicate, Rests
<1>3. ASSUME Tick \/ (\E p \in Predicates : AddPredicate(p))
               \/ (\E accepting \in Predicates \cup {Msgs} : SetFilter(accepting))
               \/ (\E cap \in 1 .. MaxBatch : StartBatch(cap))
      PROVE  Kind
  BY <1>3 DEF Tick, AddPredicate, SetFilter, StartBatch, Rests
<1>4. ASSUME LoseRetry \/ LoseCircuit PROVE Kind
  BY <1>4 DEF LoseRetry, LoseCircuit, LoseFirst, Drops
<1>5. CASE LoseFiltered
  BY <1>5 DEF LoseFiltered, LoseFirst, Drops
<1>6. CASE SkipFiltered
  BY <1>6 DEF SkipFiltered, Rotates
<1>7. CASE LoseSkipped
  BY <1>7 DEF LoseSkipped
<1>8. ASSUME TakeChained \/ TakeObservable \/ TakeThrottled \/ TakeDedup \/ TakeTagging \/ TakeWatermark
      PROVE  Kind
  BY <1>8 DEF TakeChained, TakeObservable, TakeThrottled, TakeDedup, TakeTagging, TakeWatermark, TakeFirst
<1>9. CASE TakeBatch
  BY <1>9 DEF TakeBatch, TakeFirst, Rests
<1>10. ASSUME NEW m \in Msgs, runner # "tagging", UNCHANGED <<runner, made, handled, calls>>,
              Leave(m), CountsAttempt(m)
       PROVE  /\ Spent(m, attempts'[m]) <=> attempts[m] + 1 >= Budget(m)
              /\ ~Spent(m, attempts'[m]) /\ Requeue(m) /\ retried' = retried + 1 /\ UNCHANGED fate
                   => Returns(m)
              /\ UNCHANGED queue /\ retried' \in {retried, retried + 1}
                   /\ (runner \notin {"observable", "chained"} => UNCHANGED retried)
                   /\ (End(m, "lost") \/ (Spent(m, attempts'[m]) /\ End(m, "exhausted")))
                   => Returns(m)
  <2>1. attempts[m] \in Nat /\ attempts'[m] = attempts[m] + 1
    BY <1>10 DEF CountsAttempt
  <2>2. /\ Spent(m, attempts'[m]) <=> attempts[m] + 1 >= Budget(m)
        /\ ~Spent(m, attempts'[m]) <=> attempts[m] + 1 < Budget(m)
    BY <1>10, <2>1 DEF Spent, Budget
  <2> QED
    BY <1>10, <2>2 DEF Returns, Requeues, Ends
<1>11. ASSUME NEW m \in Msgs, runner # "tagging", UNCHANGED <<runner, made, handled, calls>>,
              Leave(m)
       PROVE  Succeed(m) \/ Escape(m) \/ GiveUp(m) \/ Retry(m) \/ Slip(m) => Kind
  <2>1. CASE Succeed(m) \/ Escape(m)
    BY <1>11, <2>1 DEF Succeed, Escape, Returns, Ends
  <2>2. CASE GiveUp(m) \/ Retry(m) \/ Slip(m)
    BY <1>10, <1>11, <2>2 DEF GiveUp, Retry, Slip, CountsAttempt
  <2> QED
    BY <2>1, <2>2
<1>12. ASSUME NEW m \in Msgs, EndChained(m) PROVE Kind
  <2>1. CASE Succeed(m) \/ Escape(m)
    BY <1>11, <1>12, <2>1 DEF EndChained
  <2>2. CASE ~(Succeed(m) \/ Escape(m))
    BY <1>10, <1>12, <2>2 DEF EndChained, CountsAttempt
  <2> QED
    BY <2>1, <2>2
<1>13. ASSUME NEW m \in Msgs, EndObservable(m) PROVE Kind
  <2>1. CASE Succeed(m) \/ Escape(m) \/ GiveUp(m) \/ Retry(m) \/ Slip(m)
    BY <1>11, <1>13, <2>1 DEF EndObservable
  <2>2. CASE ~(Succeed(m) \/ Escape(m) \/ GiveUp(m) \/ Retry(m) \/ Slip(m))
    BY <1>10, <1>13, <2>2 DEF EndObservable, CountsAttempt
  <2> QED
    BY <2>1, <2>2
<1>14. ASSUME NEW m \in Msgs, EndThrottled(m) \/ EndDedup(m) PROVE Kind
  BY <1>11, <1>14 DEF EndThrottled, EndDedup
<1>15. ASSUME NEW m \in Msgs, EndWatermark(m) \/ EndBatch(m) PROVE Kind
  BY <1>11, <1>15 DEF EndWatermark, EndBatch
<1>16. ASSUME NEW m \in Msgs, EndTagging(m) PROVE Kind
  BY <1>16 DEF EndTagging, Escape, CountsAttempt, Returns, Requeues, Ends
<1>17. CASE UNCHANGED vars
  BY <1>17 DEF vars, Rests
<1> QED
  BY <1>1, <1>2, <1>3, <1>4, <1>5, <1>6, <1>7, <1>8, <1>9, <1>12, <1>13, <1>14, <1>15, <1>16, <1>17
     DEF Next

-------------------------------------------------------------------------------

Typed ==
  /\ runner \in Runners
  /\ queue \in Seq(Msgs)
  /\ attempts \in [Msgs -> Nat]
  /\ working \subseteq Msgs /\ made \subseteq Msgs
  /\ retried \in Nat /\ calls \in Nat
  /\ handled \in [Msgs -> Nat]
  /\ fate \in [Msgs -> {"pending", "succeeded", "exhausted", "lost"}]

(* A message is in the queue at most once, or in a handler, or done with. *)
Queued(m) == \E i \in 1 .. Len(queue) : queue[i] = m
Distinct  == \A i, k \in 1 .. Len(queue) : queue[i] = queue[k] => i = k
Placed ==
  /\ Distinct
  /\ \A m \in Msgs : Queued(m) => m \in made /\ m \notin working /\ fate[m] = "pending"
  /\ \A m \in working : m \in made /\ fate[m] = "pending"
  /\ \A m \in made : fate[m] = "pending" => Queued(m) \/ m \in working
  /\ \A m \in Msgs : m \notin made => fate[m] = "pending"

(* Where attempts are counted before the budget is tested, the calls a     *)
(* message has had are the attempts it has lost, and the one that is on.   *)
Budgeted ==
  runner # "tagging" =>
    \A m \in Msgs :
      /\ fate[m] = "pending" =>
           /\ attempts[m] < Budget(m)
           /\ handled[m] = attempts[m] + (IF m \in working THEN 1 ELSE 0)
      /\ handled[m] <= Budget(m)
      /\ fate[m] = "exhausted" => handled[m] = Budget(m)

LEMMA OneCall == \A m \in Msgs : Budget(m) \in Nat \ {0}
BY RunnersAssumption DEF RunnersAssumption, Budget

(* What append() makes of the queue ... *)
LEMMA AppendPlaces ==
  ASSUME Typed, Distinct, NEW m \in Msgs, ~Queued(m), Requeue(m)
  PROVE  /\ queue' \in Seq(Msgs) /\ Len(queue') = Len(queue) + 1 /\ Distinct'
         /\ \A x \in Msgs : Queued(x)' <=> Queued(x) \/ x = m
<1>1. /\ queue \in Seq(Msgs) /\ Len(queue) \in Nat
      /\ queue' \in Seq(Msgs)
      /\ Len(queue') = Len(queue) + 1
      /\ queue'[Len(queue) + 1] = m
      /\ \A i \in 1 .. Len(queue) : queue'[i] = queue[i]
  BY DEF Typed, Requeue
<1>2. Distinct'
  BY <1>1 DEF Distinct, Queued
<1>3. ASSUME NEW x \in Msgs PROVE Queued(x)' <=> Queued(x) \/ x = m
  BY <1>1 DEF Queued
<1> QED
  BY <1>1, <1>2, <1>3

(* ... and taking the oldest messages out of it. *)
LEMMA SkipPlaces ==
  ASSUME Typed, Distinct, NEW n \in 1 .. Len(queue), queue' = SubSeq(queue, n + 1, Len(queue))
  PROVE  /\ queue' \in Seq(Msgs) /\ Len(queue') = Len(queue) - n /\ Distinct'
         /\ \A x \in Msgs : Queued(x)' <=> Queued(x) /\ \A k \in 1 .. n : queue[k] # x
<1>1. /\ queue \in Seq(Msgs) /\ Len(queue) \in Nat
      /\ queue' \in Seq(Msgs)
      /\ Len(queue') = Len(queue) - n
      /\ \A i \in 1 .. Len(queue) - n : queue'[i] = queue[i + n]
  BY DEF Typed
<1>2. Distinct'
  BY <1>1 DEF Distinct
<1>3. ASSUME NEW x \in Msgs, Queued(x)' PROVE Queued(x) /\ \A k \in 1 .. n : queue[k] # x
  <2>1. PICK i \in 1 .. Len(queue) - n : queue[i + n] = x
    BY <1>1, <1>3 DEF Queued
  <2> QED
    BY <1>1, <2>1 DEF Distinct, Queued
<1>4. ASSUME NEW x \in Msgs, Queued(x), \A k \in 1 .. n : queue[k] # x PROVE Queued(x)'
  <2>1. PICK i \in 1 .. Len(queue) : queue[i] = x
    BY <1>4 DEF Queued
  <2>2. i - n \in 1 .. Len(queue) - n /\ queue'[i - n] = x
    BY <1>1, <1>4, <2>1
  <2> QED
    BY <1>1, <2>2 DEF Queued
<1> QED
  BY <1>1, <1>2, <1>3, <1>4

LEMMA TailPlaces ==
  ASSUME Typed, Distinct, queue # <<>>, queue' = Tail(queue)
  PROVE  /\ queue' \in Seq(Msgs) /\ Len(queue') = Len(queue) - 1 /\ Distinct'
         /\ Head(queue) \in Msgs /\ Queued(Head(queue)) /\ Head(queue) = queue[1]
         /\ \A x \in Msgs : Queued(x)' <=> Queued(x) /\ x # Head(queue)
<1>1. /\ queue \in Seq(Msgs) /\ 1 \in 1 .. Len(queue) /\ Head(queue) = queue[1]
      /\ queue' = SubSeq(queue, 1 + 1, Len(queue))
  BY DEF Typed
<1> QED
  BY <1>1, SkipPlaces DEF Queued

LEMMA RotatePlaces ==
  ASSUME Typed, Distinct, Rotates
  PROVE  /\ queue' \in Seq(Msgs) /\ Len(queue') = Len(queue) /\ Distinct'
         /\ \A x \in Msgs : Queued(x)' <=> Queued(x)
<1>1. /\ queue \in Seq(Msgs) /\ Len(queue) \in Nat \ {0}
      /\ queue' \in Seq(Msgs)
      /\ Len(queue') = Len(queue)
      /\ queue'[Len(queue)] = queue[1]
      /\ \A i \in 1 .. Len(queue) - 1 : queue'[i] = queue[i + 1]
  BY DEF Typed, Rotates
<1>2. Distinct'
  BY <1>1 DEF Distinct
<1>3. ASSUME NEW x \in Msgs, Queued(x)' PROVE Queued(x)
  BY <1>1, <1>3 DEF Queued
<1>4. ASSUME NEW x \in Msgs, Queued(x) PROVE Queued(x)'
  <2>1. PICK i \in 1 .. Len(queue) : queue[i] = x
    BY <1>4 DEF Queued
  <2>2. CASE i = 1
    BY <1>1, <2>1, <2>2 DEF Queued
  <2>3. CASE i # 1
    <3>1. i - 1 \in 1 .. Len(queue) - 1 /\ queue'[i - 1] = x
      BY <1>1, <2>1, <2>3
    <3> QED
      BY <1>1, <3>1 DEF Queued
  <2> QED
    BY <2>2, <2>3
<1> QED
  BY <1>1, <1>2, <1>3, <1>4

Core == Typed /\ Placed /\ Budgeted

LEMMA CoreInit == Init => Core
<1> SUFFICES ASSUME Init PROVE Core
  OBVIOUS
<1> USE RunnersAssumption DEF RunnersAssumption, Init
<1>1. Typed
  BY DEF Typed
<1>2. Len(queue) = 0 /\ \A m \in Msgs : ~Queued(m)
  BY DEF Queued
<1>3. Placed
  BY <1>2 DEF Placed, Distinct
<1>4. Budgeted
  BY OneCall DEF Budgeted
<1> QED
  BY <1>1, <1>3, <1>4 DEF Core

(* A message that comes to an end, by whatever way. *)
LEMMA EndTyped ==
  ASSUME Typed, NEW m \in Msgs, NEW outcome \in {"pending", "succeeded", "exhausted", "lost"},
         End(m, outcome)
  PROVE  /\ fate' \in [Msgs -> {"pending", "succeeded", "exhausted", "lost"}]
         /\ fate'[m] = outcome /\ \A x \in Msgs : x # m => fate'[x] = fate[x]
BY DEF Typed, End

LEMMA CoreStep == Core /\ [Next]_vars => Core'
<1> SUFFICES ASSUME Core, [Next]_vars PROVE Core'
  OBVIOUS
<1>1. Typed /\ Placed /\ Distinct /\ Budgeted
  BY DEF Core, Placed
<1>2. /\ UNCHANGED runner /\ \A m \in Msgs : Budget(m) \in Nat \ {0}
      /\ \/ Rests
         \/ \E m \in Msgs : Joins(m) \/ Returns(m)
         \/ TakeFirst
         \/ Drops \/ Rotates \/ LoseSkipped
  <2>1. attempts \in [Msgs -> Nat]
    BY <1>1 DEF Typed
  <2> QED
    BY <2>1, Kinds, OneCall
<1>3. CASE Rests
  <2>1. Typed'
    BY <1>1, <1>2, <1>3 DEF Rests, Typed
  <2>2. Placed' /\ Budgeted'
    BY <1>1, <1>2, <1>3 DEF Rests, Placed, Distinct, Queued, Budgeted
  <2> QED
    BY <2>1, <2>2 DEF Core
<1>4. ASSUME NEW m \in Msgs, Joins(m) PROVE Core'
  <2>1. ~Queued(m)
    BY <1>1, <1>4 DEF Joins, Placed
  <2>2. /\ queue' \in Seq(Msgs) /\ Distinct'
        /\ \A x \in Msgs : Queued(x)' <=> Queued(x) \/ x = m
    BY <1>1, <1>4, <2>1, AppendPlaces DEF Joins
  <2>3. Typed'
    BY <1>1, <1>2, <1>4, <2>2 DEF Joins, Typed
  <2>4. Placed'
    BY <1>1, <1>4, <2>2 DEF Joins, Placed, Typed
  <2>5. Budgeted'
    BY <1>1, <1>2, <1>4 DEF Joins, Budgeted
  <2> QED
    BY <2>3, <2>4, <2>5 DEF Core
<1>5. CASE TakeFirst
  <2> DEFINE h == Head(queue)
  <2>1. /\ queue' \in Seq(Msgs) /\ Distinct'
        /\ h \in Msgs /\ Queued(h)
        /\ \A x \in Msgs : Queued(x)' <=> Queued(x) /\ x # h
    BY <1>1, <1>5, TailPlaces DEF TakeFirst
  <2>2. /\ working' = working \cup {h} /\ UNCHANGED <<runner, attempts, made, retried, fate>>
        /\ handled' = [handled EXCEPT ![h] = @ + 1] /\ calls' = calls + 1
    BY <1>5 DEF TakeFirst
  <2> HIDE DEF h
  <2>3. Typed'
    BY <1>1, <2>1, <2>2 DEF Typed
  <2>4. Placed'
    BY <1>1, <2>1, <2>2 DEF Placed, Typed
  <2>5. h \notin working /\ fate[h] = "pending"
    BY <1>1, <2>1 DEF Placed
  <2>6. Budgeted'
    <3>1. \A x \in Msgs : x # h => handled'[x] = handled[x] /\ (x \in working' <=> x \in working)
      BY <1>1, <2>1, <2>2 DEF Typed
    <3> SUFFICES ASSUME runner # "tagging" PROVE Budgeted'
      BY <1>2 DEF Budgeted
    <3>2. handled'[h] = handled[h] + 1 /\ handled[h] = attempts[h] /\ attempts[h] < Budget(h)
            /\ attempts[h] \in Nat
      BY <1>1, <2>1, <2>2, <2>5 DEF Typed, Budgeted
    <3>3. h \in working'
      BY <2>2
    <3>4. \A x \in Msgs : x # h =>
            /\ fate'[x] = "pending" =>
                 /\ attempts'[x] < Budget(x)
                 /\ handled'[x] = attempts'[x] + (IF x \in working' THEN 1 ELSE 0)
            /\ handled'[x] <= Budget(x)
            /\ fate'[x] = "exhausted" => handled'[x] = Budget(x)
      BY <1>1, <2>2, <3>1 DEF Budgeted
    <3>5. /\ attempts'[h] < Budget(h) /\ handled'[h] = attempts'[h] + (IF h \in working' THEN 1 ELSE 0)
          /\ handled'[h] <= Budget(h) /\ fate'[h] # "exhausted"
      BY <1>2, <2>1, <2>2, <2>5, <3>2, <3>3
    <3> QED
      BY <1>2, <3>4, <3>5 DEF Budgeted
  <2> QED
    BY <2>3, <2>4, <2>6 DEF Core
<1>6. CASE Drops
  <2> DEFINE h == Head(queue)
  <2>1. /\ queue' \in Seq(Msgs) /\ Distinct'
        /\ h \in Msgs /\ Queued(h)
        /\ \A x \in Msgs : Queued(x)' <=> Queued(x) /\ x # h
    BY <1>1, <1>6, TailPlaces DEF Drops
  <2>2. End(h, "lost") /\ UNCHANGED <<runner, attempts, working, made, retried, handled, calls>>
    BY <1>2, <1>6 DEF Drops
  <2> HIDE DEF h
  <2>3. /\ fate' \in [Msgs -> {"pending", "succeeded", "exhausted", "lost"}]
        /\ fate'[h] = "lost" /\ \A x \in Msgs : x # h => fate'[x] = fate[x]
    BY <1>1, <2>1, <2>2, EndTyped
  <2>4. Typed'
    BY <1>1, <2>1, <2>2, <2>3 DEF Typed
  <2>5. h \in made /\ h \notin working
    BY <1>1, <2>1 DEF Placed
  <2>6. Placed'
    BY <1>1, <2>1, <2>2, <2>3, <2>5 DEF Placed, Typed
  <2>7. Budgeted'
    BY <1>1, <1>2, <2>2, <2>3 DEF Budgeted
  <2> QED
    BY <2>4, <2>6, <2>7 DEF Core
<1>7. CASE Rotates
  <2>1. /\ queue' \in Seq(Msgs) /\ Distinct'
        /\ \A x \in Msgs : Queued(x)' <=> Queued(x)
    BY <1>1, <1>7, RotatePlaces
  <2>2. UNCHANGED <<runner, attempts, working, made, retried, handled, calls, fate>>
    BY <1>2, <1>7 DEF Rotates
  <2> QED
    BY <1>1, <1>2, <2>1, <2>2 DEF Core, Typed, Placed, Budgeted
<1>8. CASE LoseSkipped
  <2>1. PICK n \in 1 .. Len(queue) :
          /\ queue' = SubSeq(queue, n + 1, Len(queue))
          /\ fate' = [m \in Msgs |-> IF \E k \in 1 .. n : queue[k] = m THEN "lost" ELSE fate[m]]
    BY <1>8 DEF LoseSkipped
  <2>2. UNCHANGED <<runner, attempts, working, made, retried, handled, calls>>
    BY <1>8 DEF LoseSkipped
  <2>3. /\ queue' \in Seq(Msgs) /\ Distinct'
        /\ \A x \in Msgs : Queued(x)' <=> Queued(x) /\ \A k \in 1 .. n : queue[k] # x
    BY <1>1, <2>1, SkipPlaces
  <2>4. ASSUME NEW x \in Msgs
        PROVE  \/ fate'[x] = fate[x] /\ \A k \in 1 .. n : queue[k] # x
               \/ fate'[x] = "lost" /\ Queued(x) /\ ~Queued(x)'
    <3>1. CASE \E k \in 1 .. n : queue[k] = x
      <4>1. Queued(x)
        BY <1>1, <3>1 DEF Typed, Queued
      <4> QED
        BY <2>1, <2>3, <3>1, <4>1
    <3>2. CASE \A k \in 1 .. n : queue[k] # x
      BY <2>1, <3>2
    <3> QED
      BY <3>1, <3>2
  <2>5. Typed'
    <3>1. fate' \in [Msgs -> {"pending", "succeeded", "exhausted", "lost"}]
      BY <1>1, <2>1 DEF Typed
    <3> QED
      BY <1>1, <2>2, <2>3, <3>1 DEF Typed
  <2>6. Placed'
    BY <1>1, <2>2, <2>3, <2>4 DEF Placed, Typed
  <2>7. Budgeted'
    BY <1>1, <1>2, <2>2, <2>4 DEF Budgeted
  <2> QED
    BY <2>5, <2>6, <2>7 DEF Core
<1>9. ASSUME NEW m \in Msgs, Returns(m) PROVE Core'
  <2>1. /\ m \in working /\ working' = working \ {m} /\ UNCHANGED <<runner, made, handled, calls>>
        /\ m \in made /\ fate[m] = "pending" /\ ~Queued(m)
    BY <1>1, <1>2, <1>9 DEF Returns, Leave, Placed
  <2>2. /\ attempts[m] \in Nat /\ Budget(m) \in Nat
        /\ runner # "tagging" => handled[m] = attempts[m] + 1 /\ attempts[m] < Budget(m)
    BY <1>1, <1>2, <2>1 DEF Budgeted, Typed
  <2>3. CountsAttempt(m) =>
          /\ attempts' \in [Msgs -> Nat]
          /\ attempts'[m] = attempts[m] + 1
          /\ \A x \in Msgs : x # m => attempts'[x] = attempts[x]
    BY <1>1, <2>2 DEF CountsAttempt, Typed
  <2>4. CASE Requeues(m)
    <3>1. /\ queue' \in Seq(Msgs) /\ Distinct'
          /\ \A x \in Msgs : Queued(x)' <=> Queued(x) \/ x = m
      BY <1>1, <2>1, <2>4, AppendPlaces DEF Requeues
    <3>2. /\ attempts' \in [Msgs -> Nat]
          /\ attempts'[m] = attempts[m] + 1
          /\ runner # "tagging" => attempts[m] + 1 < Budget(m)
          /\ \A x \in Msgs : x # m => attempts'[x] = attempts[x]
          /\ retried' = retried + 1 /\ UNCHANGED fate
      BY <2>3, <2>4 DEF Requeues
    <3>3. Typed'
      BY <1>1, <2>1, <3>1, <3>2 DEF Typed
    <3>4. Placed'
      BY <1>1, <2>1, <3>1, <3>2 DEF Placed, Typed
    <3>5. Budgeted'
      BY <1>1, <1>2, <2>1, <2>2, <3>2 DEF Budgeted
    <3> QED
      BY <3>3, <3>4, <3>5 DEF Core
  <2>5. CASE Ends(m)
    <3>1. PICK outcome \in {"succeeded", "exhausted", "lost"} :
            /\ End(m, outcome)
            /\ outcome = "exhausted" /\ runner # "tagging" => attempts[m] + 1 >= Budget(m)
            /\ UNCHANGED attempts \/ CountsAttempt(m)
      BY <2>5 DEF Ends
    <3>2. /\ fate' \in [Msgs -> {"pending", "succeeded", "exhausted", "lost"}]
          /\ fate'[m] = outcome /\ \A x \in Msgs : x # m => fate'[x] = fate[x]
      BY <1>1, <3>1, EndTyped
    <3>3. /\ attempts' \in [Msgs -> Nat]
          /\ \A x \in Msgs : x # m => attempts'[x] = attempts[x]
      BY <1>1, <2>3, <3>1 DEF Typed
    <3>4. queue' = queue /\ retried' \in Nat
      BY <1>1, <2>5 DEF Ends, Typed
    <3>5. Typed'
      BY <1>1, <2>1, <3>2, <3>3, <3>4 DEF Typed
    <3>6. Placed'
      BY <1>1, <2>1, <3>2, <3>4 DEF Placed, Distinct, Queued, Typed
    <3>7. Budgeted'
      BY <1>1, <1>2, <2>1, <2>2, <3>1, <3>2, <3>3 DEF Budgeted
    <3> QED
      BY <3>5, <3>6, <3>7 DEF Core
  <2> QED
    BY <1>9, <2>4, <2>5 DEF Returns
<1> QED
  BY <1>2, <1>3, <1>4, <1>5, <1>6, <1>7, <1>8, <1>9

LEMMA AlwaysCore == Spec => []Core
<1> QED
  BY CoreInit, CoreStep, PTL DEF Spec

(* A message taken in is in one place, and in one only, until it has an    *)
(* outcome (runner_filter.py:34-37, batch.py:62-87, runner_dedup.py:58-77). *)
THEOREM NothingMislaid == Spec => []OnePlace
<1>1. ASSUME Typed, Placed PROVE OnePlace
  <2>1. queue \in Seq(Msgs) /\ DOMAIN queue = 1 .. Len(queue)
    BY <1>1 DEF Typed
  <2>2. \A m : m \in {queue[i] : i \in DOMAIN queue} <=> m \in Msgs /\ Queued(m)
    BY <2>1 DEF Queued
  <2> QED
    BY <1>1, <2>1, <2>2 DEF OnePlace, Placed, Distinct, Typed
<1> QED
  BY <1>1, AlwaysCore, PTL DEF Core

(* No runner that counts attempts before it tests the budget calls the     *)
(* handler for a message beyond it, and one that gives a message up has    *)
(* spent the whole of it; with a budget of none, the one call that is made *)
(* before any test (runner_dedup.py:67-69, batch.py:78-79).                *)
THEOREM BudgetKept == Spec => []CallsExact
<1>1. Core => CallsExact
  BY DEF Core, Budgeted, CallsExact
<1> QED
  BY <1>1, AlwaysCore, PTL

-------------------------------------------------------------------------------

(* What the retries counted, the messages taken in and the calls made have *)
(* to do with each other.                                                  *)
Tallied == IsFiniteSet(made) /\ RetriesCounted

LEMMA TalliedInit == Init => Tallied
<1> SUFFICES ASSUME Init PROVE Tallied
  OBVIOUS
<1>1. IsFiniteSet(made) /\ Cardinality(made) = 0
  BY FS_EmptySet DEF Init
<1> QED
  BY <1>1 DEF Tallied, RetriesCounted, Init

LEMMA TalliedStep == Core /\ Tallied /\ [Next]_vars => Tallied'
<1> SUFFICES ASSUME Core, Tallied, [Next]_vars PROVE Tallied'
  OBVIOUS
<1>1. Typed /\ Placed /\ Distinct
  BY DEF Core, Placed
<1>2. /\ UNCHANGED runner
      /\ \/ Rests
         \/ \E m \in Msgs : Joins(m) \/ Returns(m)
         \/ TakeFirst
         \/ Drops \/ Rotates \/ LoseSkipped
  BY <1>1, Kinds DEF Typed
<1>3. /\ Cardinality(made) \in Nat /\ IsFiniteSet(made)
      /\ Len(queue) \in Nat /\ retried \in Nat /\ calls \in Nat
  BY <1>1, FS_CardinalityType DEF Tallied, Typed
<1>4. CASE Rests
  BY <1>2, <1>4 DEF Rests, Tallied, RetriesCounted
<1>5. ASSUME NEW m \in Msgs, Joins(m) PROVE Tallied'
  <2>1. Len(queue') = Len(queue) + 1
    BY <1>1, <1>5, AppendPlaces DEF Joins, Placed
  <2>2. IsFiniteSet(made') /\ Cardinality(made') = Cardinality(made) + 1
    BY <1>3, <1>5, FS_AddElement DEF Joins
  <2>3. UNCHANGED <<runner, retried, calls>>
    BY <1>2, <1>5 DEF Joins
  <2> QED
    BY <1>3, <2>1, <2>2, <2>3 DEF Tallied, RetriesCounted
<1>6. CASE TakeFirst
  <2>1. Len(queue') = Len(queue) - 1
    BY <1>1, <1>6, TailPlaces DEF TakeFirst
  <2>2. calls' = calls + 1 /\ UNCHANGED <<runner, retried, made>>
    BY <1>6 DEF TakeFirst
  <2> QED
    BY <1>3, <2>1, <2>2 DEF Tallied, RetriesCounted
<1>7. CASE Drops \/ Rotates \/ LoseSkipped
  <2>1. runner \in {"retry", "circuit", "filtered"} /\ made' = made
    BY <1>7 DEF Drops, Rotates, LoseSkipped
  <2> QED
    BY <1>2, <1>3, <2>1 DEF Tallied, RetriesCounted
<1>8. ASSUME NEW m \in Msgs, Returns(m) PROVE Tallied'
  <2>1. UNCHANGED <<runner, made, calls>> /\ ~Queued(m)
    BY <1>1, <1>2, <1>8 DEF Returns, Leave, Placed
  <2>2. CASE Requeues(m)
    <3>1. Len(queue') = Len(queue) + 1 /\ retried' = retried + 1
      BY <1>1, <2>1, <2>2, AppendPlaces DEF Requeues
    <3> QED
      BY <1>3, <2>1, <3>1 DEF Tallied, RetriesCounted
  <2>3. CASE Ends(m)
    <3>1. /\ queue' = queue /\ retried' \in {retried, retried + 1}
          /\ runner \notin {"observable", "chained"} => retried' = retried
      BY <2>3 DEF Ends
    <3> QED
      BY <1>3, <2>1, <3>1 DEF Tallied, RetriesCounted
  <2> QED
    BY <1>8, <2>2, <2>3 DEF Returns
<1> QED
  BY <1>2, <1>4, <1>5, <1>6, <1>7, <1>8

(* total_retried agrees with the queue and the calls of the handler        *)
(* (metrics.py:21-23).                                                     *)
THEOREM RetriesTallied == Spec => []RetriesCounted
<1>1. Tallied => RetriesCounted
  BY DEF Tallied
<1> QED
  BY <1>1, TalliedInit, TalliedStep, AlwaysCore, PTL DEF Spec

-------------------------------------------------------------------------------

(* The three steps of WatermarkRetryRunner, and what else may happen to it: *)
(* nothing.                                                                *)
LEMMA WatermarkKinds ==
  ASSUME [Next]_vars, runner = "watermark"
  PROVE  \/ UNCHANGED <<queue, aboveHigh>>
         \/ \E m \in Msgs : Requeue(m) /\ Check(Len(queue'))
         \/ queue # <<>> /\ queue' = Tail(queue) /\ UNCHANGED aboveHigh
<1> DEFINE Kind == \/ UNCHANGED <<queue, aboveHigh>>
                   \/ \E m \in Msgs : Requeue(m) /\ Check(Len(queue'))
                   \/ queue # <<>> /\ queue' = Tail(queue) /\ UNCHANGED aboveHigh
<1>1. ASSUME NEW m \in Msgs, EnqueueWatermark(m) PROVE Kind
  BY <1>1 DEF EnqueueWatermark, Accept
<1>2. ASSUME NEW m \in Msgs, EndWatermark(m) PROVE Kind
  BY <1>2 DEF EndWatermark, Retry, GiveUp, Slip, Escape
<1>3. CASE TakeWatermark
  BY <1>3 DEF TakeWatermark, TakeFirst, guards
<1>4. CASE UNCHANGED vars
  BY <1>4 DEF vars, guards
<1>5. /\ \A m \in Msgs : ~(Enqueue(m) \/ EnqueueTagging(m) \/ EnqueueDedup(m) \/ DropDuplicate(m))
      /\ \A m \in Msgs : ~(EndChained(m) \/ EndObservable(m) \/ EndThrottled(m) \/ EndDedup(m)
                             \/ EndTagging(m) \/ EndBatch(m))
  BY DEF Enqueue, EnqueueTagging, EnqueueDedup, DropDuplicate, EndChained, EndObservable,
         EndThrottled, EndDedup, EndTagging, EndBatch
<1>6. /\ ~Tick /\ \A p : ~AddPredicate(p) /\ ~SetFilter(p)
      /\ ~LoseRetry /\ ~TakeChained /\ ~LoseCircuit /\ ~SkipFiltered /\ ~LoseFiltered
      /\ ~LoseSkipped /\ ~TakeObservable /\ ~TakeThrottled /\ ~TakeDedup /\ ~TakeTagging
      /\ ~TakeBatch /\ \A cap : ~StartBatch(cap)
  BY DEF Tick, AddPredicate, SetFilter, LoseRetry, TakeChained, LoseCircuit, SkipFiltered,
         LoseFiltered, LoseSkipped, TakeObservable, TakeThrottled, TakeDedup, TakeTagging,
         TakeBatch, StartBatch
<1> QED
  BY <1>1, <1>2, <1>3, <1>4, <1>5, <1>6 DEF Next

(* The high watermark is noticed however the queue came to stand there     *)
(* (watermark.py:37-42).                                                   *)
THEOREM HighNoticed == Spec => []AlarmWhenHigh
<1>1. Init => AlarmWhenHigh
  BY RunnersAssumption DEF RunnersAssumption, Init, AlarmWhenHigh
<1>2. Core /\ AlarmWhenHigh /\ [Next]_vars => AlarmWhenHigh'
  <2> SUFFICES ASSUME Core, AlarmWhenHigh, [Next]_vars, runner' = "watermark", Len(queue') >= High
               PROVE aboveHigh'
    BY DEF AlarmWhenHigh
  <2>1. queue \in Seq(Msgs) /\ runner = "watermark"
    BY Kinds DEF Core, Typed
  <2>2. CASE UNCHANGED <<queue, aboveHigh>>
    BY <2>1, <2>2 DEF AlarmWhenHigh
  <2>3. CASE \E m \in Msgs : Requeue(m) /\ Check(Len(queue'))
    BY <2>3 DEF Check
  <2>4. CASE queue # <<>> /\ queue' = Tail(queue) /\ UNCHANGED aboveHigh
    <3>1. Len(queue) >= High
      BY <2>1, <2>4, RunnersAssumption DEF RunnersAssumption
    <3> QED
      BY <2>1, <2>4, <3>1 DEF AlarmWhenHigh
  <2> QED
    BY <2>1, <2>2, <2>3, <2>4, WatermarkKinds
<1> QED
  BY <1>1, <1>2, AlwaysCore, PTL DEF Spec

-------------------------------------------------------------------------------

(* What the window remembers are fingerprints that were let in, and among  *)
(* them are all that were let in less than ttl_seconds ago.                *)
Entries == [fp : Fingerprints, at : Nat]
Remembering ==
  /\ clock \in Nat
  /\ accepted \in Seq(Entries)
  /\ \A i \in 1 .. Len(accepted) :
       /\ accepted[i].at <= clock
       /\ clock - accepted[i].at < TTL => accepted[i] \in seen
  /\ \A s \in seen : \E i \in 1 .. Len(accepted) : s = accepted[i]

LEMMA DedupKinds ==
  ASSUME [Next]_vars
  PROVE  \/ UNCHANGED <<seen, accepted, clock>>
         \/ UNCHANGED <<seen, accepted>> /\ clock' = clock + 1
         \/ UNCHANGED <<accepted, clock>> /\ seen' = Remembered(clock)
         \/ \E m \in Msgs : EnqueueDedup(m)
<1> DEFINE Kind == \/ UNCHANGED <<seen, accepted, clock>>
                   \/ UNCHANGED <<seen, accepted>> /\ clock' = clock + 1
                   \/ UNCHANGED <<accepted, clock>> /\ seen' = Remembered(clock)
                   \/ \E m \in Msgs : EnqueueDedup(m)
<1> USE DEF guards, history
<1>1. ASSUME NEW m \in Msgs,
             Enqueue(m) \/ EnqueueTagging(m) \/ EnqueueWatermark(m) \/ DropDuplicate(m)
      PROVE  Kind
  BY <1>1 DEF Enqueue, EnqueueTagging, EnqueueWatermark, DropDuplicate, Accept
<1>2. ASSUME NEW m \in Msgs,
             EndChained(m) \/ EndObservable(m) \/ EndThrottled(m) \/ EndDedup(m)
               \/ EndTagging(m) \/ EndWatermark(m) \/ EndBatch(m)
      PROVE  UNCHANGED <<seen, accepted, clock>>
  BY <1>2 DEF EndChained, EndObservable, EndThrottled, EndDedup, EndTagging, EndWatermark, EndBatch
<1>3. CASE Tick
  BY <1>3 DEF Tick
<1>4. ASSUME \/ \E p \in Predicates : AddPredicate(p)
             \/ \E accepting \in Predicates \cup {Msgs} : SetFilter(accepting)
             \/ LoseRetry \/ LoseCircuit \/ SkipFiltered \/ LoseFiltered \/ LoseSkipped
             \/ \E cap \in 1 .. MaxBatch : StartBatch(cap)
      PROVE  UNCHANGED <<seen, accepted, clock>>
  BY <1>4 DEF AddPredicate, SetFilter, LoseRetry, LoseCircuit, SkipFiltered, LoseFiltered,
              LoseSkipped, LoseFirst, StartBatch
<1>5. ASSUME TakeChained \/ TakeObservable \/ TakeThrottled \/ TakeDedup \/ TakeTagging
               \/ TakeWatermark \/ TakeBatch
      PROVE  UNCHANGED <<seen, accepted, clock>>
  BY <1>5 DEF TakeChained, TakeObservable, TakeThrottled, TakeDedup, TakeTagging, TakeWatermark,
              TakeBatch, TakeFirst
<1>6. CASE UNCHANGED vars
  BY <1>6 DEF vars
<1> QED
  BY <1>1, <1>2, <1>3, <1>4, <1>5, <1>6 DEF Next

LEMMA RememberingStep == Remembering /\ AcceptedApart /\ [Next]_vars => (Remembering /\ AcceptedApart)'
<1> SUFFICES ASSUME Remembering, AcceptedApart, [Next]_vars PROVE (Remembering /\ AcceptedApart)'
  OBVIOUS
<1>1. TTL \in Nat \ {0}
  BY RunnersAssumption DEF RunnersAssumption
<1>2. /\ clock \in Nat /\ accepted \in Seq(Entries) /\ Len(accepted) \in Nat
      /\ \A i \in 1 .. Len(accepted) : accepted[i] \in Entries /\ accepted[i].at \in Nat
  <2>1. \A e \in Entries : e.at \in Nat
    BY DEF Entries
  <2> QED
    BY <2>1 DEF Remembering
<1>3. CASE UNCHANGED <<seen, accepted, clock>>
  BY <1>3 DEF Remembering, AcceptedApart
<1>4. CASE UNCHANGED <<seen, accepted>> /\ clock' = clock + 1
  BY <1>1, <1>2, <1>4 DEF Remembering, AcceptedApart
<1>5. CASE UNCHANGED <<accepted, clock>> /\ seen' = Remembered(clock)
  BY <1>1, <1>2, <1>5 DEF Remembering, AcceptedApart, Remembered
<1>6. ASSUME NEW m \in Msgs, EnqueueDedup(m) PROVE (Remembering /\ AcceptedApart)'
  <2> DEFINE e == [fp |-> Fingerprint[m], at |-> clock]
  <2>1. /\ \A s \in Remembered(clock) : s.fp # e.fp
        /\ seen' = Remembered(clock) \cup {e} /\ accepted' = Append(accepted, e)
        /\ clock' = clock
    BY <1>6 DEF EnqueueDedup, Accept
  <2>2. e \in Entries /\ e.at = clock
    BY <1>2 DEF Entries, Fingerprints
  <2> HIDE DEF e
  <2>3. /\ accepted' \in Seq(Entries) /\ Len(accepted') = Len(accepted) + 1
        /\ accepted'[Len(accepted) + 1] = e
        /\ \A i \in 1 .. Len(accepted) : accepted'[i] = accepted[i]
    BY <1>2, <2>1, <2>2
  <2>4. ASSUME NEW i \in 1 .. Len(accepted), accepted[i].fp = e.fp
        PROVE  clock - accepted[i].at >= TTL
    BY <1>1, <1>2, <2>1, <2>4 DEF Remembering, Remembered
  <2>5. AcceptedApart'
    BY <1>2, <2>2, <2>3, <2>4 DEF AcceptedApart
  <2>6. Remembering'
    <3>1. ASSUME NEW i \in 1 .. Len(accepted')
          PROVE  accepted'[i].at <= clock' /\ (clock' - accepted'[i].at < TTL => accepted'[i] \in seen')
      BY <1>1, <1>2, <2>1, <2>2, <2>3 DEF Remembering, Remembered
    <3>2. ASSUME NEW s \in seen' PROVE \E i \in 1 .. Len(accepted') : s = accepted'[i]
      BY <1>2, <2>1, <2>3 DEF Remembering, Remembered
    <3> QED
      BY <1>2, <2>1, <2>3, <3>1, <3>2 DEF Remembering
  <2> QED
    BY <2>5, <2>6
<1> QED
  BY <1>3, <1>4, <1>5, <1>6, DedupKinds

LEMMA AlwaysRemembering == Spec => [](Remembering /\ AcceptedApart)
<1>1. Init => Remembering /\ AcceptedApart
  BY DEF Init, Remembering, AcceptedApart
<1> QED
  BY <1>1, RememberingStep, PTL DEF Spec

(* No two messages of one fingerprint are let in within ttl_seconds        *)
(* (dedup.py:43-45 and 64-69).                                             *)
THEOREM DuplicatesKeptOut == Spec => []AcceptedApart
BY AlwaysRemembering, PTL

(* What is dropped is a duplicate (dedup.py:43-45). *)
THEOREM DroppedAreDuplicates == Spec => DropsDuplicatesOnly
<1>1. Remembering /\ [Next]_vars =>
        [\A m \in Msgs : DropDuplicate(m) =>
           \E i \in 1 .. Len(accepted) : /\ accepted[i].fp = Fingerprint[m]
                                         /\ clock - accepted[i].at < TTL]_vars
  BY DEF Remembering, DropDuplicate, Remembered
<1> QED
  BY <1>1, AlwaysRemembering, PTL DEF Spec, DropsDuplicatesOnly

-------------------------------------------------------------------------------

(* What the guards of the runners hold. *)
Guarded ==
  /\ matching \subseteq Msgs /\ tagged \subseteq Msgs /\ aboveHigh \in BOOLEAN
  /\ seen \subseteq [fp : Fingerprints, at : 0 .. MaxTime]
  /\ batch \in 0 .. MaxBatch /\ clock \in 0 .. MaxTime
  /\ accepted \in Seq([fp : Fingerprints, at : 0 .. MaxTime])

LEMMA GuardedStep == Guarded /\ [Next]_vars => Guarded'
<1> SUFFICES ASSUME Guarded, [Next]_vars PROVE Guarded'
  OBVIOUS
<1> USE DEF guards, history
<1>1. MaxBatch \in Nat \ {0} /\ MaxTime \in Nat /\ Predicates \subseteq SUBSET Msgs
  BY RunnersAssumption DEF RunnersAssumption
<1>2. ASSUME UNCHANGED <<guards, accepted>> PROVE Guarded'
  BY <1>2 DEF Guarded
<1>3. ASSUME NEW m \in Msgs, Enqueue(m) \/ EnqueueTagging(m) PROVE Guarded'
  BY <1>3 DEF Enqueue, EnqueueTagging, Accept, Guarded
<1>4. ASSUME NEW m \in Msgs, EnqueueWatermark(m) \/ EndWatermark(m) PROVE Guarded'
  <2>1. aboveHigh' \in BOOLEAN
    BY <1>4, Zenon DEF EnqueueWatermark, EndWatermark, Check, Guarded
  <2>2. UNCHANGED <<matching, tagged, seen, batch, clock, accepted>>
    BY <1>4 DEF EnqueueWatermark, EndWatermark, Accept
  <2> QED
    BY <2>1, <2>2 DEF Guarded
<1>5. ASSUME NEW m \in Msgs, EnqueueDedup(m) \/ DropDuplicate(m) PROVE Guarded'
  <2> DEFINE e == [fp |-> Fingerprint[m], at |-> clock]
             S == [fp : Fingerprints, at : 0 .. MaxTime]
  <2>1. e \in S
    BY <1>5 DEF Fingerprints, Guarded
  <2>2. Remembered(clock) \subseteq S
    BY DEF Remembered, Guarded
  <2>3. UNCHANGED <<matching, tagged, aboveHigh, batch, clock>>
    BY <1>5 DEF EnqueueDedup, DropDuplicate, Accept
  <2>4. /\ seen' \in {Remembered(clock), Remembered(clock) \cup {e}}
        /\ accepted' \in {accepted, Append(accepted, e)}
    BY <1>5 DEF EnqueueDedup, DropDuplicate
  <2>5. seen' \subseteq S
    BY <2>1, <2>2, <2>4
  <2> HIDE DEF e, S
  <2>6. accepted \in Seq(S)
    BY DEF Guarded, S
  <2>7. accepted' \in Seq(S)
    BY <2>1, <2>4, <2>6
  <2> QED
    BY <2>3, <2>5, <2>7 DEF Guarded, S
<1>6. CASE Tick
  BY <1>1, <1>6 DEF Tick, Guarded
<1>7. ASSUME \/ \E p \in Predicates : AddPredicate(p)
             \/ \E accepting \in Predicates \cup {Msgs} : SetFilter(accepting)
      PROVE  Guarded'
  BY <1>1, <1>7 DEF AddPredicate, SetFilter, Guarded
<1>8. ASSUME TakeBatch \/ (\E cap \in 1 .. MaxBatch : StartBatch(cap))
               \/ (\E m \in Msgs : EndBatch(m))
      PROVE  Guarded'
  <2>1. batch' \in 0 .. MaxBatch
    BY <1>1, <1>8 DEF TakeBatch, StartBatch, EndBatch, Guarded
  <2>2. UNCHANGED <<matching, tagged, aboveHigh, seen, clock, accepted>>
    BY <1>8 DEF TakeBatch, TakeFirst, StartBatch, EndBatch
  <2> QED
    BY <2>1, <2>2 DEF Guarded
<1>9. ASSUME LoseRetry \/ LoseCircuit \/ SkipFiltered \/ LoseFiltered \/ LoseSkipped
      PROVE  Guarded'
  BY <1>2, <1>9 DEF LoseRetry, LoseCircuit, SkipFiltered, LoseFiltered, LoseSkipped, LoseFirst
<1>10. ASSUME TakeChained \/ TakeObservable \/ TakeThrottled \/ TakeDedup \/ TakeTagging
                \/ TakeWatermark
       PROVE  Guarded'
  BY <1>2, <1>10 DEF TakeChained, TakeObservable, TakeThrottled, TakeDedup, TakeTagging,
                     TakeWatermark, TakeFirst
<1>11. ASSUME NEW m \in Msgs,
              EndChained(m) \/ EndObservable(m) \/ EndThrottled(m) \/ EndDedup(m) \/ EndTagging(m)
       PROVE  Guarded'
  BY <1>2, <1>11 DEF EndChained, EndObservable, EndThrottled, EndDedup, EndTagging
<1>12. CASE UNCHANGED vars
  BY <1>2, <1>12 DEF vars
<1> QED
  BY <1>3, <1>4, <1>5, <1>6, <1>7, <1>8, <1>9, <1>10, <1>11, <1>12 DEF Next

(* Every variable of the runners keeps its type. *)
THEOREM TypeCorrect == Spec => []TypeOK
<1>1. ASSUME Init PROVE Guarded
  <2>1. 0 \in 0 .. MaxBatch /\ 0 \in 0 .. MaxTime
    BY RunnersAssumption DEF RunnersAssumption
  <2>2. \A S : <<>> \in Seq(S)
    OBVIOUS
  <2> QED
    BY <1>1, <2>1, <2>2 DEF Init, Guarded
<1>2. Typed /\ Guarded => TypeOK
  BY DEF Typed, Guarded, TypeOK
<1> QED
  BY <1>1, <1>2, GuardedStep, AlwaysCore, PTL DEF Spec, Core

-------------------------------------------------------------------------------

(* A step of a runner that keeps the promise is one of RetryPromise.       *)
LEMMA PromiseStep == Core /\ [Next]_vars => [Promise!Next \/ runner \in {"tagging", "filtered"}]_(Promise!vars)
<1> SUFFICES ASSUME Core, [Next]_vars, runner \notin {"tagging", "filtered"}
             PROVE  Promise!Next \/ UNCHANGED Promise!vars
  OBVIOUS
<1>1. Typed /\ Placed /\ Distinct /\ Budgeted
  BY DEF Core, Placed
<1>2. UNCHANGED <<made, working, attempts, fate>> => UNCHANGED Promise!vars
  BY DEF Promise!vars
<1>3. \A m \in Msgs : Budget(m) \in Nat /\ \A n : Promise!Spent(m, n) <=> n >= Budget(m)
  BY OneCall DEF Promise!Spent
<1>4. ASSUME NEW m \in Msgs, Joins(m) PROVE Promise!Next
  <2>1. Promise!Make(m)
    BY <1>4 DEF Joins, Promise!Make
  <2> QED
    BY <2>1 DEF Promise!Next
<1>5. CASE TakeFirst
  <2>1. /\ Head(queue) \in Msgs /\ Queued(Head(queue))
    BY <1>1, <1>5, TailPlaces DEF TakeFirst
  <2>2. /\ Head(queue) \in made \ working /\ fate[Head(queue)] = "pending"
        /\ attempts[Head(queue)] < Budget(Head(queue)) /\ attempts[Head(queue)] \in Nat
    BY <1>1, <2>1 DEF Placed, Budgeted, Typed
  <2>3. Promise!Start(Head(queue))
    BY <1>3, <1>5, <2>1, <2>2 DEF TakeFirst, Promise!Start
  <2> QED
    BY <2>1, <2>3 DEF Promise!Next
<1>6. CASE Drops
  <2>1. /\ Head(queue) \in Msgs /\ Queued(Head(queue))
    BY <1>1, <1>6, TailPlaces DEF Drops
  <2>2. Head(queue) \in made /\ Head(queue) \notin working /\ fate[Head(queue)] = "pending"
    BY <1>1, <2>1 DEF Placed
  <2>3. Promise!Lose(Head(queue))
    BY <1>6, <2>2 DEF Drops, End, Promise!Lose
  <2> QED
    BY <2>1, <2>3 DEF Promise!Next
<1>7. ASSUME NEW m \in Msgs, Returns(m) PROVE Promise!Next
  <2>1. /\ m \in working /\ working' = working \ {m} /\ made' = made
        /\ m \in made /\ fate[m] = "pending"
        /\ attempts[m] \in Nat
    BY <1>1, <1>7 DEF Returns, Leave, Placed, Typed
  <2>2. CountsAttempt(m) => attempts'[m] = attempts[m] + 1
    BY <1>1 DEF CountsAttempt, Typed
  <2>3. CASE Requeues(m)
    BY <2>1, <2>3 DEF Requeues, CountsAttempt, Promise!Fail, Promise!Next
  <2>4. CASE Ends(m)
    <3>1. CASE End(m, "succeeded") /\ UNCHANGED attempts
      BY <2>1, <3>1 DEF End, Promise!Succeed, Promise!Next
    <3>2. CASE End(m, "lost") /\ UNCHANGED attempts
      BY <2>1, <3>2 DEF End, Promise!Lose, Promise!Next
    <3>3. CASE End(m, "lost") /\ CountsAttempt(m)
      BY <2>1, <3>3 DEF End, CountsAttempt, Promise!Fail, Promise!Next
    <3>4. CASE End(m, "exhausted") /\ attempts[m] + 1 >= Budget(m) /\ CountsAttempt(m)
      <4>1. Promise!Spent(m, attempts'[m])
        BY <1>3, <2>1, <2>2, <3>4
      <4> QED
        BY <2>1, <3>4, <4>1 DEF End, CountsAttempt, Promise!Fail, Promise!Next
    <3> QED
      BY <2>4, <3>1, <3>2, <3>3, <3>4 DEF Ends
  <2> QED
    BY <1>7, <2>3, <2>4 DEF Returns
<1>8. Rests \/ Rotates => UNCHANGED Promise!vars
  BY <1>2 DEF Rests, Rotates
<1>9. ~LoseSkipped
  BY DEF LoseSkipped
<1> QED
  BY <1>1, <1>4, <1>5, <1>6, <1>7, <1>8, <1>9, Kinds DEF Typed

(* All runners but FilteredRetryRunner and TaggingRetryRunner implement    *)
(* RetryPromise.                                                           *)
THEOREM ImplementsPromise == Spec => KeepsPromise
<1>1. Init => Promise!Init
  BY DEF Init, Promise!Init
<1> QED
  BY <1>1, PromiseStep, AlwaysCore, PTL DEF Spec, KeepsPromise

===============================================================================
