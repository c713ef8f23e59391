------------------------ MODULE PriorityRetryQueueProofs ------------------------
(***************************************************************************)
(* Proofs about PriorityRetryQueue, for any messages, priorities, budget,  *)
(* copies and depth of calls within handlers; and at the end what          *)
(* RedeliveryProofs proves, for the properties that MCRequeue states.      *)
(***************************************************************************)
EXTENDS MCRequeue, FiniteSetTheorems, SequenceTheorems, NaturalsInduction, WellFoundedInduction, TLAPS

(* Any set of natural numbers has a smallest. *)
LEMMA SmallestExists ==
  ASSUME NEW S \in SUBSET Nat, S # {}
  PROVE  \E x \in S : \A y \in S : x <= y
<1> DEFINE R == {p \in Nat \X Nat : p[1] < p[2]}
<1>1. IsWellFoundedOn(R, Nat)
  BY NatLessThanWellFounded DEF OpToRel
<1>2. PICK x \in S : \A y \in S : ~ (<<y, x>> \in R)
  BY <1>1, WFMin
<1>3. ASSUME NEW y \in S PROVE x <= y
  <2>1. <<y, x>> \in Nat \X Nat /\ <<y, x>>[1] = y /\ <<y, x>>[2] = x
    OBVIOUS
  <2>2. ~ (y < x)
    BY <1>2, <2>1
  <2> QED
    BY <2>2
<1> QED
  BY <1>3

(* What is left of a sequence without its i-th element. *)
LEMMA RemoveAtSeq ==
  ASSUME NEW S, NEW s \in Seq(S), NEW i \in 1 .. Len(s)
  PROVE  /\ RemoveAt(s, i) \in Seq(S) /\ Len(RemoveAt(s, i)) = Len(s) - 1
         /\ \A k \in 1 .. Len(s) - 1 : RemoveAt(s, i)[k] = IF k < i THEN s[k] ELSE s[k + 1]
<1> DEFINE a == SubSeq(s, 1, i - 1)
           b == SubSeq(s, i + 1, Len(s))
<1>1. /\ a \in Seq(S) /\ Len(a) = i - 1
      /\ \A k \in 1 .. i - 1 : a[k] = s[k]
  OBVIOUS
<1>2. /\ b \in Seq(S) /\ Len(b) = Len(s) - i
      /\ \A k \in 1 .. Len(s) - i : b[k] = s[k + i]
  OBVIOUS
<1>3. RemoveAt(s, i) = a \o b
  BY DEF RemoveAt
<1> HIDE DEF a, b
<1>4. /\ a \o b \in Seq(S) /\ Len(a \o b) = Len(s) - 1
      /\ \A k \in 1 .. Len(s) - 1 : (a \o b)[k] = IF k < i THEN a[k] ELSE b[k - i + 1]
  <2>1. a \o b \in Seq(S) /\ Len(a \o b) = Len(a) + Len(b)
    BY <1>1, <1>2, ConcatProperties
  <2>2. ASSUME NEW k \in 1 .. Len(s) - 1
        PROVE  (a \o b)[k] = IF k < i THEN a[k] ELSE b[k - i + 1]
    <3>1. (a \o b)[k] = IF k <= Len(a) THEN a[k] ELSE b[k - Len(a)]
      BY <1>1, <1>2
    <3>2. (k <= Len(a)) <=> (k < i)
      BY <1>1
    <3>3. k - Len(a) = k - i + 1
      BY <1>1
    <3> QED
      BY <3>1, <3>2, <3>3
  <2> QED
    BY <1>1, <1>2, <2>1, <2>2
<1>5. ASSUME NEW k \in 1 .. Len(s) - 1
      PROVE  (a \o b)[k] = IF k < i THEN s[k] ELSE s[k + 1]
  <2>1. (a \o b)[k] = IF k < i THEN a[k] ELSE b[k - i + 1]
    BY <1>4
  <2>2. CASE k < i
    <3>1. k \in 1 .. i - 1
      BY <2>2
    <3> QED
      BY <1>1, <2>1, <2>2, <3>1
  <2>3. CASE ~ (k < i)
    <3>1. k - i + 1 \in 1 .. Len(s) - i /\ (k - i + 1) + i = k + 1
      BY <2>3
    <3>2. b[k - i + 1] = s[(k - i + 1) + i]
      BY <1>2, <3>1
    <3> QED
      BY <2>1, <2>3, <3>1, <3>2
  <2> QED
    BY <2>2, <2>3
<1> QED
  BY <1>3, <1>4, <1>5

(* The entries of the heap have numbers of their own, in the order they    *)
(* joined it.                                                              *)
Numbered ==
  /\ IsFiniteSet(heap) /\ Cardinality(heap) = Len(arrivals)
  /\ \A e \in heap : e.key[1] \in -PRIORITY_MAX .. 0 /\ e.key[2] < counter
  /\ \A e, f \in heap : e.key[2] = f.key[2] => e = f
  /\ \A i \in 1 .. Len(arrivals) : arrivals[i] \in heap
  /\ \A e \in heap : \E i \in 1 .. Len(arrivals) : arrivals[i] = e
  /\ \A i, k \in 1 .. Len(arrivals) : i < k => arrivals[i].key[2] < arrivals[k].key[2]

(* What is handled has the priority of an entry. *)
HandledInRange == \A i \in 1 .. Len(stack) : stack[i].key[1] \in -PRIORITY_MAX .. 0

(* The heap has a first entry. *)
LEMMA FirstComesFirst ==
  ASSUME TypeOK, Numbered, heap # {}
  PROVE  First \in heap /\ \A f \in heap \ {First} : Before(First, f)
<1>1. ASSUME NEW e \in heap
      PROVE  e.key[1] \in Int /\ e.key[2] \in Nat /\ PRIORITY_MAX + e.key[1] \in Nat
  <2>1. e \in Entries
    BY DEF TypeOK
  <2>2. e.key \in Int \X Nat
    BY <2>1 DEF Entries, Keys
  <2>3. e.key[1] \in Int /\ e.key[2] \in Nat
    BY <2>2
  <2>4. e.key[1] \in -PRIORITY_MAX .. 0
    BY DEF Numbered
  <2> QED
    BY <2>3, <2>4 DEF PRIORITY_MAX
<1>2. PICK x \in {PRIORITY_MAX + e.key[1] : e \in heap} :
        \A y \in {PRIORITY_MAX + e.key[1] : e \in heap} : x <= y
  BY <1>1, SmallestExists
<1> DEFINE Urgent == {e \in heap : PRIORITY_MAX + e.key[1] = x}
<1>3. PICK n \in {e.key[2] : e \in Urgent} : \A k \in {e.key[2] : e \in Urgent} : n <= k
  BY <1>1, <1>2, SmallestExists
<1>4. PICK e \in Urgent : e.key[2] = n
  BY <1>3
<1>5. ASSUME NEW f \in heap \ {e} PROVE Before(e, f)
  <2>1. e.key[1] <= f.key[1]
    <3>1. x <= PRIORITY_MAX + f.key[1]
      BY <1>2
    <3>2. x = PRIORITY_MAX + e.key[1]
      BY <1>4
    <3> QED
      BY <1>1, <1>4, <3>1, <3>2 DEF PRIORITY_MAX
  <2>2. e.key[1] = f.key[1] => e.key[2] <= f.key[2]
    BY <1>1, <1>3, <1>4
  <2>3. e.key[2] # f.key[2]
    BY <1>4, <1>5 DEF Numbered
  <2> QED
    BY <1>1, <1>4, <2>1, <2>2, <2>3 DEF Before
<1> QED
  BY <1>4, <1>5 DEF First

-------------------------------------------------------------------------------

(***************************************************************************)
(* The five kinds of steps: a caller's message joins, a message is taken   *)
(* up, and what is handled is retried, given up, or gone with an outcome.  *)
(***************************************************************************)
Retry ==
  /\ Leave /\ CountAttempt(Current.msg) /\ ~MustGiveUp(Current.msg)
  /\ failed' = [failed EXCEPT ![Current.msg] = @ + 1]
  /\ Push(Current.msg, -Current.key[1])
  /\ UNCHANGED <<tracked, copies, deadLetters, fate>>

GiveUp ==
  /\ Leave /\ CountAttempt(Current.msg) /\ MustGiveUp(Current.msg)
  /\ failed' = [failed EXCEPT ![Current.msg] = @ + 1]
  /\ deadLetters' = Append(deadLetters, Current.msg)
  /\ fate' = [fate EXCEPT ![Current.msg] = "exhausted"]
  /\ UNCHANGED <<tracked, heap, counter, arrivals, copies>>

Gone(outcome) ==
  /\ Leave
  /\ fate' = [fate EXCEPT ![Current.msg] = outcome]
  /\ UNCHANGED <<tracked, heap, counter, attempts, deadLetters, copies, arrivals, failed>>

LEMMA Kinds ==
  ASSUME Next
  PROVE  \/ \E m \in Msgs, p \in Int : Enqueue(m, p)
         \/ ProcessNext \/ Retry \/ GiveUp
         \/ \E outcome \in {"succeeded", "lost"} : Gone(outcome)
<1>1. CASE \E m \in Msgs, p \in Priorities : Enqueue(m, p)
  BY <1>1, PriorityAssumption
<1>2. CASE \E m \in Msgs : EnqueueTracked(m)
  BY <1>2, PriorityAssumption DEF EnqueueTracked
<1>3. CASE Succeed
  BY <1>3 DEF Succeed, Gone
<1>4. CASE Fail
  BY <1>4 DEF Fail, Retry, GiveUp
<1>5. CASE HandlerRaises
  BY <1>5 DEF HandlerRaises, Gone
<1>6. CASE TrackedReturns
  BY <1>6 DEF TrackedReturns, Gone
<1> QED
  BY <1>1, <1>2, <1>3, <1>4, <1>5, <1>6 DEF Next, Finish

LEMMA AllButLast ==
  ASSUME NEW S, NEW s \in Seq(S), s # <<>>
  PROVE  /\ SubSeq(s, 1, Len(s) - 1) \in Seq(S) /\ Len(SubSeq(s, 1, Len(s) - 1)) = Len(s) - 1
         /\ \A i \in 1 .. Len(s) - 1 : SubSeq(s, 1, Len(s) - 1)[i] = s[i]
<1> DEFINE n == Len(s) - 1
           f == SubSeq(s, 1, n)
<1>1. n \in Nat /\ n < Len(s) /\ \A i \in 1 .. n : s[i] \in S
  OBVIOUS
<1> HIDE DEF n
<1>2. /\ f \in Seq(S) /\ Len(f) = IF 1 <= n THEN n - 1 + 1 ELSE 0
      /\ \A i \in 1 .. n - 1 + 1 : f[i] = s[1 + i - 1]
  <2>1. 1 \in Int /\ n \in Int
    BY <1>1
  <2> QED
    BY <1>1, <2>1, SubSeqProperties
<1> HIDE DEF f
<1>3. f \in Seq(S) /\ Len(f) = n /\ \A i \in 1 .. n : f[i] = s[i]
  BY <1>1, <1>2
<1> QED
  BY <1>3 DEF n, f

(* Who is handled, and who remains when the innermost call is over. *)
LEMMA Leaving ==
  ASSUME TypeOK, Leave
  PROVE  /\ Len(stack) \in Nat \ {0} /\ Len(stack') = Len(stack) - 1
         /\ stack' \in Seq(Entries) /\ \A i \in 1 .. Len(stack') : stack'[i] = stack[i]
         /\ Current = stack[Len(stack)] /\ Current \in Entries
         /\ Current.msg \in Msgs /\ Current.key \in Int \X Nat
         /\ Current.key[1] \in Int /\ Current.key[2] \in Nat
<1>1. stack \in Seq(Entries) /\ stack # <<>>
  BY DEF TypeOK, Leave
<1>2. Len(stack) \in Nat \ {0}
  BY <1>1
<1>3. stack' = SubSeq(stack, 1, Len(stack) - 1)
  BY DEF Leave
<1>4. Current = stack[Len(stack)] /\ Current \in Entries
  BY <1>1, <1>2 DEF Current
<1>5. Current.msg \in Msgs /\ Current.key \in Int \X Nat
  BY <1>4 DEF Entries, Keys
<1>6. Current.key[1] \in Int /\ Current.key[2] \in Nat
  BY <1>5
<1>7. /\ Len(stack') = Len(stack) - 1 /\ stack' \in Seq(Entries)
      /\ \A i \in 1 .. Len(stack') : stack'[i] = stack[i]
  BY <1>1, <1>3, AllButLast
<1> QED
  BY <1>2, <1>4, <1>5, <1>6, <1>7

(* A new entry has the highest number. *)
LEMMA PushKeepsOrder ==
  ASSUME TypeOK, Numbered, NEW m \in Msgs, NEW p \in PRIORITY_MIN .. PRIORITY_MAX, Push(m, p)
  PROVE  /\ heap' \subseteq Entries /\ counter' \in Nat /\ arrivals' \in Seq(Entries)
         /\ Numbered'
         /\ [key |-> <<-p, counter>>, msg |-> m] \notin heap
<1> DEFINE new == [key |-> <<-p, counter>>, msg |-> m]
<1>1. counter \in Nat /\ arrivals \in Seq(Entries) /\ heap \subseteq Entries
  BY DEF TypeOK
<1>2. /\ new \in Entries /\ new.key[2] = counter
      /\ new.key[1] \in -PRIORITY_MAX .. 0 /\ new.key[1] = -p
  BY <1>1 DEF Entries, Keys, PRIORITY_MIN, PRIORITY_MAX
<1>3. heap' = heap \cup {new} /\ arrivals' = Append(arrivals, new) /\ counter' = counter + 1
  BY DEF Push
<1> HIDE DEF new
<1>4. new \notin heap
  BY <1>1, <1>2 DEF Numbered
<1>5. \A e \in heap : e.key[2] \in Nat /\ e.key[2] < counter /\ e.key[1] \in -PRIORITY_MAX .. 0
  BY <1>1 DEF Numbered, Entries, Keys
<1>6. /\ arrivals' \in Seq(Entries) /\ Len(arrivals') = Len(arrivals) + 1
      /\ \A i \in 1 .. Len(arrivals) : arrivals'[i] = arrivals[i]
      /\ arrivals'[Len(arrivals) + 1] = new
  BY <1>1, <1>2, <1>3
<1>7. Len(arrivals) \in Nat
  BY <1>1
<1>8. IsFiniteSet(heap') /\ Cardinality(heap') = Len(arrivals')
  BY <1>3, <1>4, <1>6, FS_AddElement DEF Numbered
<1>9. \A e \in heap' : e.key[1] \in -PRIORITY_MAX .. 0 /\ e.key[2] < counter'
  BY <1>1, <1>2, <1>3, <1>5
<1>10. \A e, f \in heap' : e.key[2] = f.key[2] => e = f
  BY <1>1, <1>2, <1>3, <1>5 DEF Numbered
<1>11. \A i \in 1 .. Len(arrivals') : arrivals'[i] \in heap'
  BY <1>3, <1>6, <1>7 DEF Numbered
<1>12. \A e \in heap' : \E i \in 1 .. Len(arrivals') : arrivals'[i] = e
  BY <1>3, <1>6, <1>7 DEF Numbered
<1>13. ASSUME NEW i \in 1 .. Len(arrivals'), NEW k \in 1 .. Len(arrivals'), i < k
       PROVE  arrivals'[i].key[2] < arrivals'[k].key[2]
  <2>1. i \in 1 .. Len(arrivals) /\ arrivals'[i] = arrivals[i] /\ arrivals[i] \in heap
    BY <1>6, <1>7, <1>13 DEF Numbered
  <2>2. CASE k \in 1 .. Len(arrivals)
    BY <2>1, <2>2, <1>6, <1>13 DEF Numbered
  <2>3. CASE k = Len(arrivals) + 1
    BY <2>1, <2>3, <1>2, <1>5, <1>6
  <2> QED
    BY <2>2, <2>3, <1>6, <1>7
<1>14. Numbered'
  BY <1>8, <1>9, <1>10, <1>11, <1>12, <1>13 DEF Numbered
<1>15. heap' \subseteq Entries /\ counter' \in Nat
  BY <1>1, <1>2, <1>3
<1> QED
  BY <1>4, <1>6, <1>14, <1>15 DEF new

(* The rest stays in order when an entry is popped. *)
LEMMA PopKeepsOrder ==
  ASSUME TypeOK, Numbered, ProcessNext
  PROVE  /\ First \in heap /\ First \in Entries /\ First.msg \in Msgs
         /\ heap' \subseteq Entries /\ arrivals' \in Seq(Entries) /\ Numbered'
<1>1. heap # {} /\ heap' = heap \ {First} /\ counter' = counter
  BY DEF ProcessNext
<1>2. First \in heap /\ First \in Entries /\ First.msg \in Msgs
  BY <1>1, FirstComesFirst DEF TypeOK, Entries
<1>3. arrivals \in Seq(Entries) /\ heap \subseteq Entries
  BY DEF TypeOK
<1>4. PICK i \in 1 .. Len(arrivals) : arrivals[i] = First /\ arrivals' = RemoveAt(arrivals, i)
  BY DEF ProcessNext
<1>5. /\ arrivals' \in Seq(Entries) /\ Len(arrivals') = Len(arrivals) - 1
      /\ \A k \in 1 .. Len(arrivals) - 1 :
           arrivals'[k] = IF k < i THEN arrivals[k] ELSE arrivals[k + 1]
  BY <1>3, <1>4, RemoveAtSeq
<1>6. Len(arrivals) \in Nat
  BY <1>3
<1>7. \A k \in 1 .. Len(arrivals) : arrivals[k].key[2] \in Nat /\ arrivals[k] \in heap
  BY <1>3 DEF Numbered, Entries, Keys
<1>8. \A k \in 1 .. Len(arrivals) : arrivals[k] = First => k = i
  <2>1. \A k, l \in 1 .. Len(arrivals) : k < l => arrivals[k].key[2] < arrivals[l].key[2]
    BY DEF Numbered
  <2> QED
    BY <2>1, <1>4, <1>6, <1>7
<1>9. IsFiniteSet(heap') /\ Cardinality(heap') = Len(arrivals')
  BY <1>1, <1>2, <1>5, FS_RemoveElement DEF Numbered
<1>10. \A e \in heap' : e.key[1] \in -PRIORITY_MAX .. 0 /\ e.key[2] < counter'
  BY <1>1 DEF Numbered
<1>11. \A e, f \in heap' : e.key[2] = f.key[2] => e = f
  BY <1>1 DEF Numbered
<1>12. \A k \in 1 .. Len(arrivals') : arrivals'[k] \in heap'
  BY <1>1, <1>4, <1>5, <1>6, <1>7, <1>8
<1>13. ASSUME NEW e \in heap' PROVE \E k \in 1 .. Len(arrivals') : arrivals'[k] = e
  <2>1. PICK k \in 1 .. Len(arrivals) : arrivals[k] = e
    BY <1>1 DEF Numbered
  <2>2. k # i
    BY <1>1, <1>4, <2>1
  <2>3. CASE k < i
    BY <2>1, <2>3, <1>4, <1>5, <1>6
  <2>4. CASE k > i
    <3>1. k - 1 \in 1 .. Len(arrivals) - 1 /\ ~ (k - 1 < i) /\ (k - 1) + 1 = k
      BY <2>4, <1>4, <1>6
    <3>2. arrivals'[k - 1] = arrivals[k]
      BY <3>1, <1>5
    <3> QED
      BY <3>1, <3>2, <2>1, <1>5
  <2> QED
    BY <2>2, <2>3, <2>4
<1>14. \A k, l \in 1 .. Len(arrivals') : k < l => arrivals'[k].key[2] < arrivals'[l].key[2]
  <2>1. \A k, l \in 1 .. Len(arrivals) : k < l => arrivals[k].key[2] < arrivals[l].key[2]
    BY DEF Numbered
  <2>2. ASSUME NEW k \in 1 .. Len(arrivals'), NEW l \in 1 .. Len(arrivals'), k < l
        PROVE  arrivals'[k].key[2] < arrivals'[l].key[2]
    <3>1. PICK a \in 1 .. Len(arrivals) : arrivals'[k] = arrivals[a] /\ a = IF k < i THEN k ELSE k + 1
      BY <1>5, <1>6, <1>4
    <3>2. PICK b \in 1 .. Len(arrivals) : arrivals'[l] = arrivals[b] /\ b = IF l < i THEN l ELSE l + 1
      BY <1>5, <1>6, <1>4
    <3>3. a < b
      BY <3>1, <3>2, <2>2, <1>4, <1>5, <1>6
    <3> QED
      BY <3>1, <3>2, <3>3, <2>1
  <2> QED
    BY <2>2
<1> QED
  BY <1>1, <1>2, <1>3, <1>5, <1>9, <1>10, <1>11, <1>12, <1>13, <1>14 DEF Numbered

-------------------------------------------------------------------------------

Inv == TypeOK /\ Numbered /\ HandledInRange

LEMMA InvInit == Init => Inv
<1> SUFFICES ASSUME Init PROVE Inv
  OBVIOUS
<1>1. TypeOK
  BY DEF Init, TypeOK
<1>2. IsFiniteSet(heap) /\ Cardinality(heap) = Len(arrivals)
  BY FS_EmptySet DEF Init
<1> QED
  BY <1>1, <1>2 DEF Init, Inv, Numbered, HandledInRange

LEMMA InvNext == Inv /\ [Next]_vars => Inv'
<1> SUFFICES ASSUME Inv, [Next]_vars PROVE Inv'
  OBVIOUS
<1> USE DEF Inv
<1>1. CASE UNCHANGED vars
  BY <1>1 DEF vars, TypeOK, Numbered, HandledInRange
<1>2. ASSUME NEW m \in Msgs, NEW p \in Int, Enqueue(m, p) PROVE Inv'
  <2>1. p \in PRIORITY_MIN .. PRIORITY_MAX /\ Push(m, p)
    BY <1>2 DEF Enqueue, PRIORITY_MIN, PRIORITY_MAX
  <2>2. /\ heap' \subseteq Entries /\ counter' \in Nat /\ arrivals' \in Seq(Entries)
        /\ Numbered'
    BY <2>1, PushKeepsOrder
  <2>3. TypeOK'
    BY <1>2, <2>2 DEF Enqueue, TypeOK
  <2>4. HandledInRange'
    BY <1>2 DEF Enqueue, HandledInRange
  <2> QED
    BY <2>2, <2>3, <2>4
<1>3. ASSUME ProcessNext PROVE Inv'
  <2>1. /\ First \in heap /\ First \in Entries /\ Numbered'
        /\ heap' \subseteq Entries /\ arrivals' \in Seq(Entries)
    BY <1>3, PopKeepsOrder
  <2>2. stack \in Seq(Entries) /\ stack' = Append(stack, First)
    BY <1>3 DEF ProcessNext, TypeOK
  <2>3. TypeOK'
    BY <1>3, <2>1, <2>2 DEF ProcessNext, TypeOK
  <2>4. First.key[1] \in -PRIORITY_MAX .. 0
    BY <2>1 DEF Numbered
  <2>5. HandledInRange'
    BY <2>1, <2>2, <2>4 DEF HandledInRange
  <2> QED
    BY <2>1, <2>3, <2>5
<1>4. ASSUME Leave PROVE HandledInRange'
  BY <1>4, Leaving DEF HandledInRange
<1>5. ASSUME Retry PROVE Inv'
  <2>1. Leave /\ Push(Current.msg, -Current.key[1])
    BY <1>5 DEF Retry
  <2>2. /\ Current.msg \in Msgs /\ Current.key[1] \in Int
        /\ stack' \in Seq(Entries) /\ Len(stack) \in Nat \ {0} /\ Current = stack[Len(stack)]
    BY <2>1, Leaving
  <2>3. Current.key[1] \in -PRIORITY_MAX .. 0
    BY <2>2 DEF HandledInRange
  <2>4. -Current.key[1] \in PRIORITY_MIN .. PRIORITY_MAX
    <3>1. \A k \in -PRIORITY_MAX .. 0 : -k \in PRIORITY_MIN .. PRIORITY_MAX
      BY DEF PRIORITY_MIN, PRIORITY_MAX
    <3> QED
      BY <2>3, <3>1
  <2>5. /\ heap' \subseteq Entries /\ counter' \in Nat /\ arrivals' \in Seq(Entries)
        /\ Numbered'
    BY <2>1, <2>2, <2>4, PushKeepsOrder
  <2>6. TypeOK'
    <3>1. attempts' \in [Msgs -> Nat] /\ failed' \in [Msgs -> Nat]
      BY <1>5, <2>2 DEF Retry, CountAttempt, TypeOK
    <3>2. UNCHANGED <<tracked, copies, deadLetters, fate>>
      BY <1>5 DEF Retry
    <3> QED
      BY <2>2, <2>5, <3>1, <3>2 DEF TypeOK
  <2> QED
    BY <1>4, <2>1, <2>5, <2>6
<1>6. ASSUME GiveUp PROVE Inv'
  <2>1. Leave
    BY <1>6 DEF GiveUp
  <2>2. Current.msg \in Msgs /\ stack' \in Seq(Entries)
    BY <2>1, Leaving
  <2>3. TypeOK'
    BY <1>6, <2>2 DEF GiveUp, CountAttempt, TypeOK
  <2>4. Numbered'
    BY <1>6 DEF GiveUp, Numbered
  <2> QED
    BY <1>4, <2>1, <2>3, <2>4
<1>7. ASSUME NEW outcome \in {"succeeded", "lost"}, Gone(outcome) PROVE Inv'
  <2>1. Leave
    BY <1>7 DEF Gone
  <2>2. Current.msg \in Msgs /\ stack' \in Seq(Entries)
    BY <2>1, Leaving
  <2>3. TypeOK'
    BY <1>7, <2>2 DEF Gone, TypeOK
  <2>4. Numbered'
    BY <1>7 DEF Gone, Numbered
  <2> QED
    BY <1>4, <2>1, <2>3, <2>4
<1> QED
  BY <1>1, <1>2, <1>3, <1>5, <1>6, <1>7, Kinds

(* No two entries of the heap have the same sort key, whatever is enqueued *)
(* and retried meanwhile (priority.py:60-65).                              *)
THEOREM NoTies == Spec => []HeapOK
<1>1. Inv => HeapOK
  BY DEF Inv, Numbered, HeapOK
<1> QED
  BY <1>1, InvInit, InvNext, PTL DEF Spec

(* priority.py:36-37: what process_next() takes has the highest priority   *)
(* and joined first among its equals, for any priorities and any calls     *)
(* within handlers.                                                        *)
THEOREM TakenInOrder == Spec => PriorityThenFifo
<1>1. ASSUME Inv, [Next]_vars
      PROVE  [ProcessNext =>
                \A i \in 1 .. Len(arrivals) :
                  arrivals[i] = First =>
                    \A j \in 1 .. Len(arrivals) \ {i} :
                      /\ -arrivals[j].key[1] <= -First.key[1]
                      /\ j < i => -arrivals[j].key[1] < -First.key[1]]_vars
  <2> SUFFICES ASSUME ProcessNext, NEW i \in 1 .. Len(arrivals), arrivals[i] = First,
                      NEW j \in 1 .. Len(arrivals) \ {i}
               PROVE  /\ -arrivals[j].key[1] <= -First.key[1]
                      /\ j < i => -arrivals[j].key[1] < -First.key[1]
    OBVIOUS
  <2>0. TypeOK /\ Numbered
    BY <1>1 DEF Inv
  <2>1. First \in heap /\ \A f \in heap \ {First} : Before(First, f)
    BY <2>0, FirstComesFirst DEF ProcessNext
  <2>2. arrivals[j] \in heap
    BY <2>0 DEF Numbered
  <2>3. \A e \in heap : e.key[1] \in Int /\ e.key[2] \in Nat
    BY <2>0 DEF TypeOK, Entries, Keys
  <2>4. Len(arrivals) \in Nat
    BY <2>0 DEF TypeOK
  <2>5. \/ i < j /\ arrivals[i].key[2] < arrivals[j].key[2]
        \/ j < i /\ arrivals[j].key[2] < arrivals[i].key[2]
    <3>1. \A k, l \in 1 .. Len(arrivals) : k < l => arrivals[k].key[2] < arrivals[l].key[2]
      BY <2>0 DEF Numbered
    <3> QED
      BY <3>1, <2>4
  <2>6. Before(First, arrivals[j])
    BY <2>1, <2>2, <2>3, <2>5
  <2> QED
    BY <2>1, <2>2, <2>3, <2>5, <2>6 DEF Before
<1> QED
  BY <1>1, InvInit, InvNext, PTL DEF Spec, PriorityThenFifo

-------------------------------------------------------------------------------

(***************************************************************************)
(* Every copy of a message that callers have enqueued is at most one entry *)
(* of the heap or of the stack, or one dead letter.                        *)
(***************************************************************************)
At(s, T)   == {i \in 1 .. Len(s) : s[i] \in T}
Of(m)      == {e \in Entries : e.msg = m}
InHeap(m)  == Cardinality(heap \cap Of(m))
InHand(m)  == Cardinality(At(stack, Of(m)))
InLetters(m) == Cardinality(At(deadLetters, {m}))

Counted ==
  \A m \in Msgs :
    /\ InHeap(m) + InHand(m) + InLetters(m) <= copies[m]
    /\ attempts[m] = failed[m]
    /\ InLetters(m) = IF attempts[m] < MaxAttempts THEN 0 ELSE attempts[m] - MaxAttempts + 1

(* What happens to a message enqueued at most once. *)
Ends ==
  \A m \in Msgs :
    /\ copies[m] <= Copies[m]
    /\ copies[m] = 0 => fate[m] = "pending"
    /\ copies[m] = 1 /\ fate[m] # "pending" => InHeap(m) + InHand(m) = 0

LEMMA CountType ==
  ASSUME TypeOK, Numbered, NEW m \in Msgs
  PROVE  /\ IsFiniteSet(heap \cap Of(m)) /\ IsFiniteSet(At(stack, Of(m)))
         /\ InHeap(m) \in Nat /\ InHand(m) \in Nat /\ InLetters(m) \in Nat
<1>1. ASSUME NEW S, NEW s \in Seq(S), NEW T
      PROVE  IsFiniteSet(At(s, T)) /\ Cardinality(At(s, T)) \in Nat
  <2>1. Len(s) \in Nat /\ At(s, T) \subseteq 1 .. Len(s)
    BY DEF At
  <2>2. IsFiniteSet(1 .. Len(s))
    BY <2>1, FS_Interval
  <2> QED
    BY <2>1, <2>2, FS_Subset, FS_CardinalityType
<1>2. IsFiniteSet(heap \cap Of(m)) /\ InHeap(m) \in Nat
  <2>1. heap \cap Of(m) \subseteq heap
    OBVIOUS
  <2> QED
    BY <2>1, FS_Subset, FS_CardinalityType DEF Numbered, InHeap
<1> QED
  BY <1>1, <1>2 DEF TypeOK, InHand, InLetters

LEMMA AtAppend ==
  ASSUME NEW S, NEW s \in Seq(S), NEW e \in S, NEW T
  PROVE  Cardinality(At(Append(s, e), T)) = Cardinality(At(s, T)) + (IF e \in T THEN 1 ELSE 0)
<1>1. /\ Len(s) \in Nat /\ Len(Append(s, e)) = Len(s) + 1
      /\ \A i \in 1 .. Len(s) : Append(s, e)[i] = s[i]
      /\ Append(s, e)[Len(s) + 1] = e
  OBVIOUS
<1>2. IsFiniteSet(1 .. Len(s)) /\ At(s, T) \subseteq 1 .. Len(s)
  BY <1>1, FS_Interval DEF At
<1>3. IsFiniteSet(At(s, T)) /\ Cardinality(At(s, T)) \in Nat
  BY <1>2, FS_Subset, FS_CardinalityType
<1>4. CASE e \in T
  <2>1. At(Append(s, e), T) = At(s, T) \cup {Len(s) + 1} /\ Len(s) + 1 \notin At(s, T)
    BY <1>1, <1>4 DEF At
  <2> QED
    BY <1>3, <1>4, <2>1, FS_AddElement
<1>5. CASE e \notin T
  <2>1. At(Append(s, e), T) = At(s, T)
    BY <1>1, <1>5 DEF At
  <2> QED
    BY <1>3, <1>5, <2>1
<1> QED
  BY <1>4, <1>5

LEMMA AtFront ==
  ASSUME NEW S, NEW s \in Seq(S), s # <<>>, NEW T
  PROVE  Cardinality(At(SubSeq(s, 1, Len(s) - 1), T))
           = Cardinality(At(s, T)) - (IF s[Len(s)] \in T THEN 1 ELSE 0)
<1> DEFINE f == SubSeq(s, 1, Len(s) - 1)
<1>1. /\ Len(s) \in Nat \ {0} /\ Len(f) = Len(s) - 1
      /\ \A i \in 1 .. Len(s) - 1 : f[i] = s[i]
  BY AllButLast
<1> HIDE DEF f
<1>2. IsFiniteSet(1 .. Len(s)) /\ At(s, T) \subseteq 1 .. Len(s)
  BY <1>1, FS_Interval DEF At
<1>3. IsFiniteSet(At(s, T)) /\ Cardinality(At(s, T)) \in Nat
  BY <1>2, FS_Subset, FS_CardinalityType
<1>4. CASE s[Len(s)] \in T
  <2>1. At(f, T) = At(s, T) \ {Len(s)} /\ Len(s) \in At(s, T)
    BY <1>1, <1>4 DEF At
  <2> QED
    BY <1>3, <1>4, <2>1, FS_RemoveElement DEF f
<1>5. CASE s[Len(s)] \notin T
  <2>1. At(f, T) = At(s, T)
    BY <1>1, <1>5 DEF At
  <2> QED
    BY <1>3, <1>5, <2>1 DEF f
<1> QED
  BY <1>4, <1>5

(* How the counts change: a push, a pop, an innermost call that is over.   *)
LEMMA PushCounts ==
  ASSUME TypeOK, Numbered, NEW p \in PRIORITY_MIN .. PRIORITY_MAX, NEW n \in Msgs, Push(n, p),
         NEW m \in Msgs
  PROVE  InHeap(m)' = InHeap(m) + (IF m = n THEN 1 ELSE 0)
<1> DEFINE new == [key |-> <<-p, counter>>, msg |-> n]
<1>1. new \notin heap /\ heap' = heap \cup {new} /\ new \in Entries
  BY PushKeepsOrder DEF Push
<1>2. new.msg = n
  OBVIOUS
<1> HIDE DEF new
<1>3. IsFiniteSet(heap \cap Of(m)) /\ InHeap(m) \in Nat
  BY CountType
<1>4. CASE m = n
  <2>1. heap' \cap Of(m) = (heap \cap Of(m)) \cup {new} /\ new \notin heap \cap Of(m)
    BY <1>1, <1>2, <1>4 DEF Of
  <2> QED
    BY <1>3, <1>4, <2>1, FS_AddElement DEF InHeap
<1>5. CASE m # n
  <2>1. heap' \cap Of(m) = heap \cap Of(m)
    BY <1>1, <1>2, <1>5 DEF Of
  <2>2. InHeap(m)' = InHeap(m)
    BY <2>1 DEF InHeap, Of
  <2> QED
    BY <1>3, <1>5, <2>2
<1> QED
  BY <1>4, <1>5

LEMMA PopCounts ==
  ASSUME TypeOK, Numbered, ProcessNext, NEW m \in Msgs
  PROVE  /\ InHeap(m)' = InHeap(m) - (IF m = First.msg THEN 1 ELSE 0)
         /\ InHand(m)' = InHand(m) + (IF m = First.msg THEN 1 ELSE 0)
         /\ m = First.msg => InHeap(m) > 0
<1>1. First \in heap /\ First \in Entries /\ heap' = heap \ {First}
  BY PopKeepsOrder DEF ProcessNext
<1>2. IsFiniteSet(heap \cap Of(m)) /\ InHeap(m) \in Nat
  BY CountType
<1>3. InHand(m)' = InHand(m) + (IF m = First.msg THEN 1 ELSE 0)
  <2>1. stack \in Seq(Entries) /\ stack' = Append(stack, First)
    BY DEF TypeOK, ProcessNext
  <2>2. First \in Of(m) <=> m = First.msg
    BY <1>1 DEF Of
  <2> QED
    BY <1>1, <2>1, <2>2, AtAppend DEF InHand
<1>4. CASE m = First.msg
  <2>1. heap' \cap Of(m) = (heap \cap Of(m)) \ {First} /\ First \in heap \cap Of(m)
    BY <1>1, <1>4 DEF Of
  <2>2. InHeap(m)' = InHeap(m) - 1
    BY <1>2, <2>1, FS_RemoveElement DEF InHeap
  <2>3. InHeap(m) # 0
    BY <1>2, <2>1, FS_EmptySet DEF InHeap
  <2> QED
    BY <1>2, <1>3, <1>4, <2>2, <2>3
<1>5. CASE m # First.msg
  <2>1. heap' \cap Of(m) = heap \cap Of(m)
    BY <1>1, <1>5 DEF Of
  <2>2. InHeap(m)' = InHeap(m)
    BY <2>1 DEF InHeap, Of
  <2> QED
    BY <1>2, <1>3, <1>5, <2>2
<1> QED
  BY <1>4, <1>5

LEMMA LeaveCounts ==
  ASSUME TypeOK, Numbered, Leave, NEW m \in Msgs
  PROVE  /\ InHand(m)' = InHand(m) - (IF m = Current.msg THEN 1 ELSE 0)
         /\ m = Current.msg => InHand(m) > 0
<1>1. /\ stack \in Seq(Entries) /\ stack # <<>> /\ stack' = SubSeq(stack, 1, Len(stack) - 1)
      /\ Current = stack[Len(stack)] /\ Current \in Entries /\ Len(stack) \in Nat \ {0}
  BY Leaving DEF TypeOK, Leave
<1>2. Current \in Of(m) <=> m = Current.msg
  BY <1>1 DEF Of
<1>3. InHand(m)' = InHand(m) - (IF m = Current.msg THEN 1 ELSE 0)
  BY <1>1, <1>2, AtFront DEF InHand
<1>4. ASSUME m = Current.msg PROVE InHand(m) > 0
  <2>1. Len(stack) \in At(stack, Of(m))
    BY <1>1, <1>2, <1>4 DEF At
  <2>2. IsFiniteSet(At(stack, Of(m))) /\ InHand(m) \in Nat
    BY CountType
  <2>3. InHand(m) # 0
    BY <2>1, <2>2, FS_EmptySet DEF InHand
  <2> QED
    BY <2>2, <2>3
<1> QED
  BY <1>3, <1>4

LEMMA CountedInit == Init => Counted /\ Ends
<1> SUFFICES ASSUME Init, NEW m \in Msgs
             PROVE  /\ InHeap(m) = 0 /\ InHand(m) = 0 /\ InLetters(m) = 0
                    /\ copies[m] = 0 /\ attempts[m] = 0 /\ failed[m] = 0 /\ fate[m] = "pending"
  BY PriorityAssumption DEF Counted, Ends
<1>1. heap \cap Of(m) = {} /\ At(stack, Of(m)) = {} /\ At(deadLetters, {m}) = {}
  BY DEF Init, At
<1> QED
  BY <1>1, FS_EmptySet DEF Init, InHeap, InHand, InLetters

LEMMA CountedNext == Inv /\ Counted /\ Ends /\ [Next]_vars => Counted' /\ Ends'
<1> SUFFICES ASSUME Inv, Counted, Ends, [Next]_vars, NEW m \in Msgs
             PROVE  /\ (InHeap(m) + InHand(m) + InLetters(m) <= copies[m])'
                    /\ (attempts[m] = failed[m])'
                    /\ (InLetters(m) = IF attempts[m] < MaxAttempts THEN 0
                                                                 ELSE attempts[m] - MaxAttempts + 1)'
                    /\ (copies[m] <= Copies[m])'
                    /\ (copies[m] = 0 => fate[m] = "pending")'
                    /\ (copies[m] = 1 /\ fate[m] # "pending" => InHeap(m) + InHand(m) = 0)'
  BY DEF Counted, Ends
<1>1. TypeOK /\ Numbered /\ HandledInRange
  BY DEF Inv
<1>2. InHeap(m) \in Nat /\ InHand(m) \in Nat /\ InLetters(m) \in Nat
  BY <1>1, CountType
<1>3. /\ copies[m] \in Nat /\ attempts[m] \in Nat /\ failed[m] \in Nat /\ Copies[m] \in Nat \ {0}
      /\ MaxAttempts \in Nat \ {0}
  BY <1>1, PriorityAssumption DEF TypeOK
<1>4. /\ InHeap(m) + InHand(m) + InLetters(m) <= copies[m]
      /\ attempts[m] = failed[m]
      /\ InLetters(m) = IF attempts[m] < MaxAttempts THEN 0 ELSE attempts[m] - MaxAttempts + 1
  BY DEF Counted
<1>5. /\ copies[m] <= Copies[m]
      /\ copies[m] = 0 => fate[m] = "pending"
      /\ copies[m] = 1 /\ fate[m] # "pending" => InHeap(m) + InHand(m) = 0
  BY DEF Ends
<1>6. ASSUME UNCHANGED deadLetters PROVE InLetters(m)' = InLetters(m)
  BY <1>6 DEF InLetters, At
<1>7. ASSUME UNCHANGED heap PROVE InHeap(m)' = InHeap(m)
  BY <1>7 DEF InHeap, Of
<1>8. ASSUME UNCHANGED stack PROVE InHand(m)' = InHand(m)
  BY <1>8 DEF InHand, At, Of
<1>9. CASE UNCHANGED vars
  BY <1>9, <1>4, <1>5, <1>6, <1>7, <1>8 DEF vars
<1>10. ASSUME NEW n \in Msgs, NEW p \in Int, Enqueue(n, p)
       PROVE  /\ InHeap(m)' = InHeap(m) + (IF m = n THEN 1 ELSE 0)
              /\ InHand(m)' = InHand(m) /\ InLetters(m)' = InLetters(m)
              /\ copies'[m] = copies[m] + (IF m = n THEN 1 ELSE 0) /\ copies'[m] <= Copies[m]
              /\ UNCHANGED <<attempts, failed, fate>>
  <2>1. p \in PRIORITY_MIN .. PRIORITY_MAX /\ Push(n, p) /\ UNCHANGED <<deadLetters, stack>>
    BY <1>10 DEF Enqueue, PRIORITY_MIN, PRIORITY_MAX
  <2>2. InHeap(m)' = InHeap(m) + (IF m = n THEN 1 ELSE 0)
    BY <1>1, <2>1, PushCounts
  <2>3. copies' = [copies EXCEPT ![n] = @ + 1] /\ copies[n] < Copies[n] /\ copies[n] \in Nat
        /\ Copies[n] \in Nat
    BY <1>10, <1>1, PriorityAssumption DEF Enqueue, TypeOK
  <2>4. copies'[m] = copies[m] + (IF m = n THEN 1 ELSE 0) /\ copies'[m] <= Copies[m]
    BY <2>3, <1>1, <1>3, <1>5 DEF TypeOK
  <2> QED
    BY <2>1, <2>2, <2>4, <1>6, <1>8, <1>10 DEF Enqueue
<1>11. ASSUME ProcessNext
       PROVE  /\ InHeap(m)' + InHand(m)' = InHeap(m) + InHand(m) /\ InLetters(m)' = InLetters(m)
              /\ UNCHANGED <<copies, attempts, failed, fate>>
  BY <1>1, <1>2, <1>6, <1>11, PopCounts DEF ProcessNext
<1>12. ASSUME Retry
       PROVE  /\ InHeap(m)' + InHand(m)' = InHeap(m) + InHand(m) /\ InLetters(m)' = InLetters(m)
              /\ attempts'[m] = attempts[m] + (IF m = Current.msg THEN 1 ELSE 0)
              /\ failed'[m] = attempts'[m]
              /\ m = Current.msg => attempts'[m] < MaxAttempts
              /\ UNCHANGED <<copies, fate>>
  <2>1. /\ Leave /\ Push(Current.msg, -Current.key[1]) /\ UNCHANGED <<copies, deadLetters, fate>>
        /\ attempts' = [attempts EXCEPT ![Current.msg] = @ + 1]
        /\ failed' = [failed EXCEPT ![Current.msg] = @ + 1]
        /\ ~ (attempts'[Current.msg] >= MaxAttempts)
    BY <1>12 DEF Retry, CountAttempt, MustGiveUp
  <2>2. /\ Current.msg \in Msgs /\ Len(stack) \in Nat \ {0} /\ Current = stack[Len(stack)]
    BY <1>1, <2>1, Leaving
  <2>3. -Current.key[1] \in PRIORITY_MIN .. PRIORITY_MAX
    <3>1. \A k \in -PRIORITY_MAX .. 0 : -k \in PRIORITY_MIN .. PRIORITY_MAX
      BY DEF PRIORITY_MIN, PRIORITY_MAX
    <3> QED
      BY <1>1, <2>2, <3>1 DEF HandledInRange
  <2>4. /\ InHeap(m)' = InHeap(m) + (IF m = Current.msg THEN 1 ELSE 0)
        /\ InHand(m)' = InHand(m) - (IF m = Current.msg THEN 1 ELSE 0)
    BY <1>1, <2>1, <2>2, <2>3, PushCounts, LeaveCounts
  <2>5. /\ attempts'[m] = attempts[m] + (IF m = Current.msg THEN 1 ELSE 0)
        /\ failed'[m] = failed[m] + (IF m = Current.msg THEN 1 ELSE 0)
    BY <1>1, <1>3, <2>1, <2>2 DEF TypeOK
  <2> QED
    BY <1>2, <1>3, <1>4, <1>6, <2>1, <2>4, <2>5
<1>13. ASSUME GiveUp
       PROVE  /\ InHeap(m)' = InHeap(m)
              /\ InHand(m)' = InHand(m) - (IF m = Current.msg THEN 1 ELSE 0)
              /\ m = Current.msg => InHand(m) > 0 /\ attempts'[m] >= MaxAttempts
              /\ InLetters(m)' = InLetters(m) + (IF m = Current.msg THEN 1 ELSE 0)
              /\ attempts'[m] = attempts[m] + (IF m = Current.msg THEN 1 ELSE 0)
              /\ failed'[m] = attempts'[m]
              /\ m # Current.msg => fate'[m] = fate[m]
              /\ UNCHANGED copies
  <2>1. /\ Leave /\ UNCHANGED <<heap, copies>> /\ deadLetters' = Append(deadLetters, Current.msg)
        /\ attempts' = [attempts EXCEPT ![Current.msg] = @ + 1]
        /\ failed' = [failed EXCEPT ![Current.msg] = @ + 1]
        /\ fate' = [fate EXCEPT ![Current.msg] = "exhausted"]
        /\ attempts'[Current.msg] >= MaxAttempts
    BY <1>13 DEF GiveUp, CountAttempt, MustGiveUp
  <2>2. Current.msg \in Msgs
    BY <1>1, <2>1, Leaving
  <2>3. /\ InHand(m)' = InHand(m) - (IF m = Current.msg THEN 1 ELSE 0)
        /\ m = Current.msg => InHand(m) > 0
    BY <1>1, <2>1, LeaveCounts
  <2>4. InLetters(m)' = InLetters(m) + (IF m = Current.msg THEN 1 ELSE 0)
    <3>1. deadLetters \in Seq(Msgs)
      BY <1>1 DEF TypeOK
    <3>2. Current.msg \in {m} <=> m = Current.msg
      OBVIOUS
    <3> QED
      BY <2>1, <2>2, <3>1, <3>2, AtAppend DEF InLetters
  <2>5. /\ attempts'[m] = attempts[m] + (IF m = Current.msg THEN 1 ELSE 0)
        /\ failed'[m] = failed[m] + (IF m = Current.msg THEN 1 ELSE 0)
    BY <1>1, <1>3, <2>1, <2>2 DEF TypeOK
  <2>6. m # Current.msg => fate'[m] = fate[m]
    BY <1>1, <2>1 DEF TypeOK
  <2> QED
    BY <1>4, <1>7, <2>1, <2>3, <2>4, <2>5, <2>6
<1>14. ASSUME NEW outcome \in {"succeeded", "lost"}, Gone(outcome)
       PROVE  /\ InHeap(m)' = InHeap(m)
              /\ InHand(m)' = InHand(m) - (IF m = Current.msg THEN 1 ELSE 0)
              /\ m = Current.msg => InHand(m) > 0
              /\ InLetters(m)' = InLetters(m)
              /\ m # Current.msg => fate'[m] = fate[m]
              /\ UNCHANGED <<copies, attempts, failed>>
  <2>1. /\ Leave /\ UNCHANGED <<heap, copies, attempts, failed, deadLetters>>
        /\ fate' = [fate EXCEPT ![Current.msg] = outcome]
    BY <1>14 DEF Gone
  <2>2. /\ InHand(m)' = InHand(m) - (IF m = Current.msg THEN 1 ELSE 0)
        /\ m = Current.msg => InHand(m) > 0
    BY <1>1, <2>1, LeaveCounts
  <2>3. m # Current.msg => fate'[m] = fate[m]
    BY <1>1, <2>1 DEF TypeOK
  <2> QED
    BY <1>6, <1>7, <2>1, <2>2, <2>3
<1>15. CASE \E n \in Msgs, p \in Int : Enqueue(n, p)
  <2>1. PICK n \in Msgs, p \in Int : Enqueue(n, p)
    BY <1>15
  <2>2. CASE m = n
    BY <1>2, <1>3, <1>4, <1>5, <1>10, <2>1, <2>2
  <2>3. CASE m # n
    <3>1. /\ InHeap(m)' = InHeap(m) /\ InHand(m)' = InHand(m) /\ InLetters(m)' = InLetters(m)
          /\ copies'[m] = copies[m] /\ UNCHANGED <<attempts, failed, fate>>
      BY <1>2, <1>3, <1>10, <2>1, <2>3
    <3> QED
      BY <3>1, <1>4, <1>5
  <2> QED
    BY <2>2, <2>3
<1>16. CASE ProcessNext
  BY <1>2, <1>3, <1>4, <1>5, <1>11, <1>16
<1>17. CASE Retry
  BY <1>2, <1>3, <1>4, <1>5, <1>12, <1>17
<1>18. CASE GiveUp
  <2>1. CASE m = Current.msg
    <3>1. /\ InHeap(m)' = InHeap(m) /\ InHand(m)' = InHand(m) - 1 /\ InHand(m) > 0
          /\ InLetters(m)' = InLetters(m) + 1 /\ attempts'[m] = attempts[m] + 1
          /\ failed'[m] = attempts'[m] /\ attempts'[m] >= MaxAttempts /\ copies'[m] = copies[m]
      BY <1>13, <1>18, <2>1
    <3> QED
      BY <3>1, <1>2, <1>3, <1>4, <1>5
  <2>2. CASE m # Current.msg
    <3>1. /\ InHeap(m)' = InHeap(m) /\ InHand(m)' = InHand(m) /\ InLetters(m)' = InLetters(m)
          /\ attempts'[m] = attempts[m] /\ failed'[m] = failed[m]
          /\ copies'[m] = copies[m] /\ fate'[m] = fate[m]
      BY <1>2, <1>3, <1>4, <1>13, <1>18, <2>2
    <3> QED
      BY <3>1, <1>4, <1>5
  <2> QED
    BY <2>1, <2>2
<1>19. CASE \E outcome \in {"succeeded", "lost"} : Gone(outcome)
  BY <1>2, <1>3, <1>4, <1>5, <1>14, <1>19
<1> QED
  BY <1>9, <1>15, <1>16, <1>17, <1>18, <1>19, Kinds

(* One count for all copies (priority.py:75-77): a message is dead-lettered *)
(* once per copy at most, and handled fewer than max_attempts times plus   *)
(* one per copy, however its copies and their retries interleave.          *)
THEOREM OneCountForAll == Spec => []AttemptsShared
<1>1. ASSUME Inv, Counted PROVE AttemptsShared
  <2> SUFFICES ASSUME NEW m \in Msgs
               PROVE  /\ attempts[m] = failed[m]
                      /\ attempts[m] < MaxAttempts + copies[m]
                      /\ InLetters(m) <= copies[m]
                      /\ InLetters(m) = IF attempts[m] < MaxAttempts THEN 0
                                                                  ELSE attempts[m] - MaxAttempts + 1
    <3>1. \A m \in Msgs : InLetters(m) = Cardinality({i \in 1 .. Len(deadLetters) : deadLetters[i] = m})
      BY DEF InLetters, At
    <3> QED
      BY <3>1 DEF AttemptsShared
  <2>1. TypeOK /\ Numbered
    BY <1>1 DEF Inv
  <2>2. InHeap(m) \in Nat /\ InHand(m) \in Nat /\ InLetters(m) \in Nat
    BY <2>1, CountType
  <2>3. copies[m] \in Nat /\ attempts[m] \in Nat /\ MaxAttempts \in Nat \ {0}
    BY <2>1, PriorityAssumption DEF TypeOK
  <2> QED
    BY <1>1, <2>2, <2>3 DEF Counted
<1> QED
  BY <1>1, InvInit, InvNext, CountedInit, CountedNext, PTL DEF Spec

-------------------------------------------------------------------------------

LEMMA AnyAt ==
  ASSUME NEW s \in Seq(Entries), NEW m
  PROVE  m \in {s[i].msg : i \in 1 .. Len(s)} <=> Cardinality(At(s, Of(m))) > 0
<1>1. Len(s) \in Nat /\ At(s, Of(m)) \subseteq 1 .. Len(s) /\ IsFiniteSet(1 .. Len(s))
  BY FS_Interval DEF At
<1>2. IsFiniteSet(At(s, Of(m))) /\ Cardinality(At(s, Of(m))) \in Nat
  BY <1>1, FS_Subset, FS_CardinalityType
<1>3. Cardinality(At(s, Of(m))) > 0 <=> At(s, Of(m)) # {}
  BY <1>2, FS_EmptySet
<1>4. \A i \in 1 .. Len(s) : s[i] \in Of(m) <=> s[i].msg = m
  BY DEF Of
<1> QED
  BY <1>3, <1>4 DEF At

(* A message that callers enqueue once, while it waits or is handled. *)
LEMMA OneCopyAlive ==
  ASSUME Inv, Counted, Ends, NEW m \in Single, InHeap(m) + InHand(m) > 0
  PROVE  /\ copies[m] = 1 /\ fate[m] = "pending" /\ attempts[m] < MaxAttempts
         /\ InHeap(m) + InHand(m) = 1
<1>1. TypeOK /\ Numbered /\ m \in Msgs /\ Copies[m] = 1
  BY DEF Inv, Single
<1>2. /\ InHeap(m) \in Nat /\ InHand(m) \in Nat /\ InLetters(m) \in Nat
      /\ copies[m] \in Nat /\ attempts[m] \in Nat /\ MaxAttempts \in Nat
  BY <1>1, CountType, PriorityAssumption DEF TypeOK
<1>3. /\ copies[m] <= 1 /\ InHeap(m) + InHand(m) + InLetters(m) <= copies[m]
      /\ InLetters(m) = IF attempts[m] < MaxAttempts THEN 0 ELSE attempts[m] - MaxAttempts + 1
      /\ copies[m] = 1 /\ fate[m] # "pending" => InHeap(m) + InHand(m) = 0
  BY <1>1 DEF Counted, Ends
<1> QED
  BY <1>2, <1>3

(* Every step is one of RetryPromise's for the message it is about, if     *)
(* callers enqueue that one once, and changes nothing of it otherwise.     *)
LEMMA PromiseStep ==
  ASSUME Inv, Inv', Counted, Ends, [Next]_vars
  PROVE  [Promise!Next]_(Promise!vars)
<1> DEFINE Made    == {m \in Single : copies[m] > 0}
           Running == Handled \cap Single
           Tries   == [m \in Single |-> attempts[m]]
           Fates   == [m \in Single |-> fate[m]]
           Budget  == [m \in Single |-> MaxAttempts]
<1>1. TypeOK /\ Numbered /\ HandledInRange /\ TypeOK'
  BY DEF Inv
<1>2. Single \subseteq Msgs
  BY DEF Single
<1>3. /\ copies \in [Msgs -> Nat] /\ attempts \in [Msgs -> Nat] /\ DOMAIN fate = Msgs
      /\ \A m \in Single : Copies[m] = 1
      /\ \A m \in Msgs : copies[m] <= Copies[m]
      /\ MaxAttempts \in Nat
  BY <1>1, PriorityAssumption DEF TypeOK, Single, Ends
<1>4. ASSUME NEW m \in Msgs
      PROVE  /\ m \in Handled <=> InHand(m) > 0
             /\ m \in Handled' <=> InHand(m)' > 0
             /\ InHeap(m) \in Nat /\ InHand(m) \in Nat
  <2>1. stack \in Seq(Entries) /\ stack' \in Seq(Entries)
    BY <1>1 DEF TypeOK
  <2>2. m \in Handled <=> InHand(m) > 0
    BY <2>1, AnyAt DEF Handled, InHand
  <2>3. m \in Handled' <=> InHand(m)' > 0
    BY <2>1, AnyAt DEF Handled, InHand, Of
  <2> QED
    BY <1>1, <2>2, <2>3, CountType
<1>5. Handled \subseteq Msgs /\ Handled' \subseteq Msgs
  <2>1. \A i \in 1 .. Len(stack) : stack[i] \in Entries
    BY <1>1 DEF TypeOK
  <2>2. \A i \in 1 .. Len(stack') : stack'[i] \in Entries
    BY <1>1 DEF TypeOK
  <2> QED
    BY <2>1, <2>2 DEF Handled, Entries
<1>6. ASSUME UNCHANGED stack PROVE UNCHANGED Running
  BY <1>6 DEF Handled
<1>7. ASSUME Leave
      PROVE  /\ Current.msg \in Msgs
             /\ Current.msg \notin Single => UNCHANGED Running
             /\ Current.msg \in Single =>
                  /\ Running' = Running \ {Current.msg} /\ Current.msg \in Running
                  /\ Current.msg \in Made /\ fate[Current.msg] = "pending"
  <2>1. Current.msg \in Msgs
    BY <1>1, <1>7, Leaving
  <2>2. ASSUME NEW m \in Msgs, m # Current.msg PROVE m \in Handled' <=> m \in Handled
    <3>1. InHand(m)' = InHand(m)
      BY <1>1, <1>4, <1>7, <2>2, LeaveCounts
    <3> QED
      BY <3>1, <1>4
  <2>3. ASSUME Current.msg \in Single
        PROVE  /\ Current.msg \in Handled /\ Current.msg \notin Handled'
               /\ Current.msg \in Made /\ fate[Current.msg] = "pending"
    <3>1. PICK c \in Msgs : c = Current.msg /\ c \in Single
      BY <2>1, <2>3
    <3>2. \A m \in Msgs : m = Current.msg => InHand(m) > 0 /\ InHand(m)' = InHand(m) - 1
      BY <1>1, <1>7, LeaveCounts
    <3>3. InHand(c) > 0 /\ InHand(c)' = InHand(c) - 1
      BY <3>1, <3>2
    <3>4. copies[c] = 1 /\ fate[c] = "pending" /\ InHeap(c) + InHand(c) = 1
      <4>1. InHeap(c) \in Nat /\ InHand(c) \in Nat
        BY <1>4
      <4>2. InHeap(c) + InHand(c) > 0
        BY <3>3, <4>1
      <4> QED
        BY <3>1, <4>2, OneCopyAlive
    <3>5. ~ (InHand(c)' > 0)
      BY <3>1, <3>3, <3>4, <1>4
    <3> QED
      <4>1. c \in Handled
        BY <3>3, <1>4
      <4>2. c \notin Handled'
        BY <3>5, <1>4
      <4>3. c \in Made
        BY <3>1, <3>4
      <4> QED
        BY <3>1, <3>4, <4>1, <4>2, <4>3
  <2> QED
    BY <2>1, <2>2, <2>3, <1>2, <1>5
<1>8. CASE UNCHANGED vars
  BY <1>6, <1>8 DEF vars, Promise!vars
<1>9. ASSUME NEW n \in Msgs, NEW p \in Int, Enqueue(n, p)
      PROVE  [Promise!Next]_(Promise!vars)
  <2>1. /\ copies[n] < Copies[n] /\ copies' = [copies EXCEPT ![n] = @ + 1]
        /\ UNCHANGED <<attempts, stack, fate>>
    BY <1>9 DEF Enqueue
  <2>2. UNCHANGED <<Running, Tries, Fates>>
    BY <2>1, <1>6
  <2>3. CASE n \in Single
    <3>1. n \notin Made /\ Made' = Made \cup {n}
      BY <2>1, <2>3, <1>2, <1>3
    <3> QED
      BY <2>2, <2>3, <3>1 DEF Promise!Make, Promise!Next
  <2>4. CASE n \notin Single
    <3>1. Made' = Made
      BY <2>1, <2>4, <1>2, <1>3
    <3> QED
      BY <2>2, <3>1 DEF Promise!vars
  <2> QED
    BY <2>3, <2>4
<1>10. CASE ProcessNext
  <2>1. UNCHANGED <<attempts, copies, fate>>
    BY <1>10 DEF ProcessNext
  <2>2. UNCHANGED <<Made, Tries, Fates>>
    BY <2>1
  <2> DEFINE n == First.msg
  <2>3. n \in Msgs
    BY <1>1, <1>10, PopKeepsOrder
  <2> HIDE DEF n
  <2>4. ASSUME NEW m \in Msgs
        PROVE  /\ InHeap(m)' = InHeap(m) - (IF m = n THEN 1 ELSE 0)
               /\ InHand(m)' = InHand(m) + (IF m = n THEN 1 ELSE 0)
               /\ m = n => InHeap(m) > 0
    BY <1>1, <1>10, PopCounts DEF n
  <2>5. ASSUME NEW m \in Msgs PROVE m \in Handled' <=> m \in Handled \/ m = n
    BY <2>4, <1>4
  <2>6. CASE n \in Single
    <3>1. /\ copies[n] = 1 /\ fate[n] = "pending" /\ attempts[n] < MaxAttempts
          /\ InHeap(n) + InHand(n) = 1
      BY <2>3, <2>4, <2>6, <1>4, OneCopyAlive
    <3>2. n \in Made \ Running
      <4>1. n \in Made
        BY <2>6, <3>1
      <4>2. InHand(n) = 0
        BY <2>3, <2>4, <3>1, <1>4
      <4>3. n \notin Handled
        BY <2>3, <4>2, <1>4
      <4> QED
        BY <4>1, <4>3
    <3>3. Running' = Running \cup {n}
      BY <2>5, <2>6, <1>2, <1>5
    <3>4. ~Promise!Spent(n, Tries[n])
      BY <2>3, <2>6, <3>1, <1>3 DEF Promise!Spent
    <3> QED
      BY <2>2, <2>6, <3>1, <3>2, <3>3, <3>4 DEF Promise!Start, Promise!Next
  <2>7. CASE n \notin Single
    <3>1. Running' = Running
      BY <2>5, <2>7, <1>2, <1>5
    <3> QED
      BY <2>2, <3>1 DEF Promise!vars
  <2> QED
    BY <2>6, <2>7
<1>11. CASE Retry
  <2>1. /\ Leave /\ UNCHANGED <<copies, fate>>
        /\ attempts' = [attempts EXCEPT ![Current.msg] = @ + 1]
    BY <1>11 DEF Retry, CountAttempt
  <2>2. UNCHANGED <<Made, Fates>>
    BY <2>1
  <2>3. CASE Current.msg \in Single
    <3>1. Tries' = [Tries EXCEPT ![Current.msg] = @ + 1]
      BY <2>1, <2>3, <1>2, <1>3
    <3> QED
      BY <2>1, <2>2, <2>3, <3>1, <1>7 DEF Promise!Fail, Promise!Next
  <2>4. CASE Current.msg \notin Single
    <3>1. Tries' = Tries
      BY <2>1, <2>4, <1>2, <1>3
    <3> QED
      BY <2>1, <2>2, <2>4, <3>1, <1>7 DEF Promise!vars
  <2> QED
    BY <2>3, <2>4
<1>12. CASE GiveUp
  <2>1. /\ Leave /\ UNCHANGED copies
        /\ attempts' = [attempts EXCEPT ![Current.msg] = @ + 1]
        /\ fate' = [fate EXCEPT ![Current.msg] = "exhausted"]
        /\ attempts'[Current.msg] >= MaxAttempts
    BY <1>12 DEF GiveUp, CountAttempt, MustGiveUp
  <2>2. UNCHANGED Made
    BY <2>1
  <2>3. CASE Current.msg \in Single
    <3>1. /\ Tries' = [Tries EXCEPT ![Current.msg] = @ + 1]
          /\ Fates' = [Fates EXCEPT ![Current.msg] = "exhausted"]
      BY <2>1, <2>3, <1>2, <1>3
    <3>2. Promise!Spent(Current.msg, Tries'[Current.msg])
      BY <2>1, <2>3, <1>3 DEF Promise!Spent
    <3> QED
      BY <2>1, <2>2, <2>3, <3>1, <3>2, <1>7 DEF Promise!Fail, Promise!Next
  <2>4. CASE Current.msg \notin Single
    <3>1. Tries' = Tries /\ Fates' = Fates
      BY <2>1, <2>4, <1>2, <1>3
    <3> QED
      BY <2>1, <2>2, <2>4, <3>1, <1>7 DEF Promise!vars
  <2> QED
    BY <2>3, <2>4
<1>13. ASSUME NEW outcome \in {"succeeded", "lost"}, Gone(outcome)
       PROVE  [Promise!Next]_(Promise!vars)
  <2>1. /\ Leave /\ UNCHANGED <<copies, attempts>>
        /\ fate' = [fate EXCEPT ![Current.msg] = outcome]
    BY <1>13 DEF Gone
  <2>2. UNCHANGED <<Made, Tries>>
    BY <2>1
  <2>3. CASE Current.msg \in Single
    <3>1. Fates' = [Fates EXCEPT ![Current.msg] = outcome]
      BY <2>1, <2>3, <1>2, <1>3
    <3>2. Fates[Current.msg] = "pending"
      BY <2>1, <2>3, <1>7
    <3>3. CASE outcome = "succeeded"
      BY <2>1, <2>2, <2>3, <3>1, <3>3, <1>7 DEF Promise!Succeed, Promise!Next
    <3>4. CASE outcome = "lost"
      BY <2>1, <2>2, <2>3, <3>1, <3>2, <3>4, <1>7 DEF Promise!Lose, Promise!Next
    <3> QED
      BY <3>3, <3>4
  <2>4. CASE Current.msg \notin Single
    <3>1. Fates' = Fates
      BY <2>1, <2>4, <1>2, <1>3
    <3> QED
      BY <2>1, <2>2, <2>4, <3>1, <1>7 DEF Promise!vars
  <2> QED
    BY <2>3, <2>4
<1> QED
  BY <1>8, <1>9, <1>10, <1>11, <1>12, <1>13, Kinds

(* For the messages enqueued once the priority queue implements            *)
(* RetryPromise, plain or wrapped by a runner (priority.py:55-82).         *)
THEOREM ImplementsPromise == Spec => KeepsPromise
<1>1. Init => Promise!Init
  <2> SUFFICES ASSUME Init PROVE Promise!Init
    OBVIOUS
  <2>1. stack = <<>> /\ Handled = {}
    BY DEF Init, Handled
  <2>2. {m \in Single : copies[m] > 0} = {}
    BY DEF Init, Single
  <2>3. \A m \in Single : attempts[m] = 0 /\ fate[m] = "pending"
    BY DEF Init, Single
  <2> QED
    BY <2>1, <2>2, <2>3 DEF Promise!Init
<1> QED
  BY <1>1, InvInit, InvNext, CountedInit, CountedNext, PromiseStep, PTL DEF Spec, KeepsPromise, Promise!Spec

-------------------------------------------------------------------------------
(* Redelivery: the theorems of RedeliveryProofs. *)

RedeliveryProven == INSTANCE RedeliveryProofs WITH Msgs <- Letters, MaxAttempts <- Attempts

LEMMA SameSize == \A S : Redelivered!Cardinality(S) = RedeliveryProven!Cardinality(S)
BY DEF Redelivered!Cardinality, RedeliveryProven!Cardinality

LEMMA SameOrders == \A S : Redelivered!SetToSeqs(S) = RedeliveryProven!SetToSeqs(S)
BY SameSize DEF Redelivered!SetToSeqs, RedeliveryProven!SetToSeqs

(* The two instances of Redelivery say the same.                           *)
LEMMA SameStart ==
  /\ RedeliveryProven!RedeliveryAssumption
  /\ Redelivered!Init <=> RedeliveryProven!Init
  /\ Redelivered!vars = RedeliveryProven!vars
<1>1. RedeliveryProven!RedeliveryAssumption
  BY RequeueAssumption
     DEF Redelivered!RedeliveryAssumption, RedeliveryProven!RedeliveryAssumption,
         Redelivered!IsFiniteSet, RedeliveryProven!IsFiniteSet
<1>2. Redelivered!Init <=> RedeliveryProven!Init
  BY DEF Redelivered!Init, RedeliveryProven!Init, Redelivered!Idle, RedeliveryProven!Idle
<1>3. Redelivered!vars = RedeliveryProven!vars
  BY DEF Redelivered!vars, RedeliveryProven!vars, Redelivered!list, RedeliveryProven!list,
         Redelivered!target, RedeliveryProven!target, Redelivered!letters,
         RedeliveryProven!letters
<1> QED
  BY <1>1, <1>2, <1>3

LEMMA SameSteps == Redelivered!Next <=> RedeliveryProven!Next
<1>1. Redelivered!Tick <=> RedeliveryProven!Tick
  BY DEF Redelivered!Tick, RedeliveryProven!Tick, Redelivered!list, RedeliveryProven!list,
         Redelivered!target, RedeliveryProven!target, Redelivered!letters,
         RedeliveryProven!letters
<1>2. Redelivered!Succeed <=> RedeliveryProven!Succeed
  BY DEF Redelivered!Succeed, RedeliveryProven!Succeed, Redelivered!Handles,
         RedeliveryProven!Handles, Redelivered!Spent, RedeliveryProven!Spent, Redelivered!list,
         RedeliveryProven!list
<1>3. Redelivered!Fail <=> RedeliveryProven!Fail
  BY DEF Redelivered!Fail, RedeliveryProven!Fail, Redelivered!Handles, RedeliveryProven!Handles,
         Redelivered!Spent, RedeliveryProven!Spent, Redelivered!list, RedeliveryProven!list
<1>4. Redelivered!GiveUp <=> RedeliveryProven!GiveUp
  BY DEF Redelivered!GiveUp, RedeliveryProven!GiveUp, Redelivered!Handles,
         RedeliveryProven!Handles, Redelivered!Spent, RedeliveryProven!Spent, Redelivered!list,
         RedeliveryProven!list
<1>5. \A x : Redelivered!Schedule(x) <=> RedeliveryProven!Schedule(x)
  BY DEF Redelivered!Schedule, RedeliveryProven!Schedule, Redelivered!Delays,
         RedeliveryProven!Delays, Redelivered!AtMost, RedeliveryProven!AtMost, Redelivered!target,
         RedeliveryProven!target
<1>6. \A x : Redelivered!FlushDue(x) <=> RedeliveryProven!FlushDue(x)
  BY DEF Redelivered!FlushDue, RedeliveryProven!FlushDue, Redelivered!At, RedeliveryProven!At,
         Redelivered!Goto, RedeliveryProven!Goto, Redelivered!list, RedeliveryProven!list,
         Redelivered!target, RedeliveryProven!target, Redelivered!letters,
         RedeliveryProven!letters
<1>7. \A x : Redelivered!Scan(x) <=> RedeliveryProven!Scan(x)
  BY DEF Redelivered!Scan, RedeliveryProven!Scan, Redelivered!At, RedeliveryProven!At,
         Redelivered!Goto, RedeliveryProven!Goto, Redelivered!Loop, RedeliveryProven!Loop,
         Redelivered!Idle, RedeliveryProven!Idle, Redelivered!IsDue, RedeliveryProven!IsDue,
         Redelivered!list, RedeliveryProven!list, Redelivered!target, RedeliveryProven!target,
         Redelivered!letters, RedeliveryProven!letters
<1>8. \A x : Redelivered!TakeOut(x) <=> RedeliveryProven!TakeOut(x)
  BY DEF Redelivered!TakeOut, RedeliveryProven!TakeOut, Redelivered!At, RedeliveryProven!At,
         Redelivered!Goto, RedeliveryProven!Goto, Redelivered!RemoveAt, RedeliveryProven!RemoveAt,
         Redelivered!target, RedeliveryProven!target, Redelivered!letters,
         RedeliveryProven!letters
<1>9. \A x : Redelivered!TakenOut(x) <=> RedeliveryProven!TakenOut(x)
  BY DEF Redelivered!TakenOut, RedeliveryProven!TakenOut, Redelivered!At, RedeliveryProven!At,
         Redelivered!Goto, RedeliveryProven!Goto, Redelivered!Contains, RedeliveryProven!Contains,
         Redelivered!Idle, RedeliveryProven!Idle, Redelivered!list, RedeliveryProven!list,
         Redelivered!target, RedeliveryProven!target, Redelivered!letters,
         RedeliveryProven!letters
<1>10. \A x : Redelivered!EnqueueEntry(x) <=> RedeliveryProven!EnqueueEntry(x)
  BY DEF Redelivered!EnqueueEntry, RedeliveryProven!EnqueueEntry, Redelivered!At,
         RedeliveryProven!At, Redelivered!Goto, RedeliveryProven!Goto, Redelivered!Enqueue,
         RedeliveryProven!Enqueue, Redelivered!Loop, RedeliveryProven!Loop, Redelivered!Idle,
         RedeliveryProven!Idle, Redelivered!list, RedeliveryProven!list, Redelivered!letters,
         RedeliveryProven!letters
<1>11. \A x : Redelivered!Replay(x) <=> RedeliveryProven!Replay(x)
  BY SameOrders
     DEF Redelivered!Replay, RedeliveryProven!Replay, Redelivered!At, RedeliveryProven!At,
         Redelivered!Goto, RedeliveryProven!Goto, Redelivered!list, RedeliveryProven!list,
         Redelivered!target, RedeliveryProven!target
<1>12. \A x : Redelivered!ReplayMessage(x) <=> RedeliveryProven!ReplayMessage(x)
  BY DEF Redelivered!ReplayMessage, RedeliveryProven!ReplayMessage, Redelivered!At,
         RedeliveryProven!At, Redelivered!Goto, RedeliveryProven!Goto, Redelivered!Enqueue,
         RedeliveryProven!Enqueue, Redelivered!list, RedeliveryProven!list, Redelivered!letters,
         RedeliveryProven!letters
<1>13. \A x : Redelivered!SkipMessage(x) <=> RedeliveryProven!SkipMessage(x)
  BY DEF Redelivered!SkipMessage, RedeliveryProven!SkipMessage, Redelivered!At,
         RedeliveryProven!At, Redelivered!Goto, RedeliveryProven!Goto, Redelivered!list,
         RedeliveryProven!list, Redelivered!target, RedeliveryProven!target, Redelivered!letters,
         RedeliveryProven!letters
<1>14. \A x : Redelivered!ReplayEnds(x) <=> RedeliveryProven!ReplayEnds(x)
  BY DEF Redelivered!ReplayEnds, RedeliveryProven!ReplayEnds, Redelivered!At, RedeliveryProven!At,
         Redelivered!Goto, RedeliveryProven!Goto, Redelivered!Idle, RedeliveryProven!Idle,
         Redelivered!list, RedeliveryProven!list, Redelivered!target, RedeliveryProven!target
<1>15. \A x : Redelivered!ReplayRaises(x) <=> RedeliveryProven!ReplayRaises(x)
  BY DEF Redelivered!ReplayRaises, RedeliveryProven!ReplayRaises, Redelivered!At,
         RedeliveryProven!At, Redelivered!Goto, RedeliveryProven!Goto, Redelivered!Idle,
         RedeliveryProven!Idle, Redelivered!list, RedeliveryProven!list, Redelivered!target,
         RedeliveryProven!target
<1>16. \A x : Redelivered!Flush(x) <=> RedeliveryProven!Flush(x)
  BY <1>6, <1>7, <1>8, <1>9, <1>10 DEF Redelivered!Flush, RedeliveryProven!Flush
<1>17. \A x : Redelivered!Handle(x) <=> RedeliveryProven!Handle(x)
  BY <1>12, <1>13, <1>14, <1>15 DEF Redelivered!Handle, RedeliveryProven!Handle
<1> QED
  BY <1>1, <1>2, <1>3, <1>4, <1>5, <1>11, <1>16, <1>17 DEF Redelivered!Next, RedeliveryProven!Next

LEMMA SameBehaviours == Redelivered!Spec => RedeliveryProven!Spec
<1>1. [Redelivered!Next]_(Redelivered!vars) => [RedeliveryProven!Next]_(RedeliveryProven!vars)
  BY SameStart, SameSteps
     DEF Redelivered!vars, RedeliveryProven!vars, Redelivered!list, RedeliveryProven!list,
         Redelivered!target, RedeliveryProven!target, Redelivered!letters,
         RedeliveryProven!letters
<1> QED
  BY <1>1, SameStart, PTL DEF Redelivered!Spec, RedeliveryProven!Spec

(* However flushes, replays, scheduling and processing overlap, a message  *)
(* is never lost and is in one place only, unless a replay that enqueued   *)
(* it raised (scheduler.py:52, replay.py:79).                              *)
THEOREM NothingLostOrRepeated == Redelivered!Spec => []OneCopy
<1>1. RedeliveryProven!Spec => []RedeliveryProven!OneCopy
  BY SameStart, RedeliveryProven!NothingLostOrRepeated
<1>2. RedeliveryProven!OneCopy => OneCopy
  <2>1. \A m : Redelivered!Presence(m) = RedeliveryProven!Presence(m)
    BY SameSize DEF Redelivered!Presence, RedeliveryProven!Presence
  <2> QED
    BY <2>1 DEF OneCopy, Redelivered!OneCopy, RedeliveryProven!OneCopy
<1> QED
  BY <1>1, <1>2, SameBehaviours, PTL

(* No flush releases an entry before its time (scheduler.py:49-53).        *)
THEOREM NothingEarly == Redelivered!Spec => []NotEarly
<1>1. RedeliveryProven!Spec => []RedeliveryProven!NotEarly
  BY SameStart, RedeliveryProven!NothingEarly
<1>2. RedeliveryProven!NotEarly => NotEarly
  BY DEF NotEarly, Redelivered!NotEarly, RedeliveryProven!NotEarly, Redelivered!At, RedeliveryProven!At
<1> QED
  BY <1>1, <1>2, SameBehaviours, PTL

(* Whoever sends a message back, it gets max_attempts tries at most for    *)
(* each time it joined the queue (queue.py:46-50 and 76-83).               *)
THEOREM BudgetsBounded == Redelivered!Spec => []AttemptsBounded
<1>1. RedeliveryProven!Spec => []RedeliveryProven!AttemptsBounded
  BY SameStart, RedeliveryProven!BudgetsBounded
<1>2. RedeliveryProven!AttemptsBounded => AttemptsBounded
  BY SameSize DEF AttemptsBounded, Redelivered!AttemptsBounded, RedeliveryProven!AttemptsBounded
<1> QED
  BY <1>1, <1>2, SameBehaviours, PTL

(* What MCRequeue runs is a behaviour of either module, so that what is    *)
(* proved of them holds there.                                             *)
THEOREM RunOfBoth == RequeueSpec => Spec /\ Redelivered!Spec
<1>1. RequeueInit => Init /\ Redelivered!Init
  BY DEF RequeueInit
<1>2. [RequeueNext]_requeueVars => [Next]_vars
  BY DEF RequeueNext, requeueVars
<1>3. [RequeueNext]_requeueVars => [Redelivered!Next]_(Redelivered!vars)
  BY DEF RequeueNext, requeueVars, returning, Redelivered!vars, Redelivered!list,
         Redelivered!target, Redelivered!letters
<1> QED
  BY <1>1, <1>2, <1>3, PTL DEF RequeueSpec, Spec, Redelivered!Spec

===============================================================================
