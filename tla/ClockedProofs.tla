----------------------------- MODULE ClockedProofs -----------------------------
(***************************************************************************)
(* Proofs about the components of MCClocked, for every value of their      *)
(* constants: what RateLimiter and TokenBucket let through, for one thread *)
(* at a time; what SlidingWindow counts, for any threads whose calls do    *)
(* not overlap; from TimeoutPolicyProofs, whom TimeoutPolicy's alarms hit; *)
(* and, from CircuitBreakerProofs, how a CircuitBreaker stays in step.     *)
(* Those of its threads are CircuitBreakerThreadsProofs.                   *)
(***************************************************************************)
EXTENDS MCClocked, FiniteSetTheorems, SequenceTheorems, WellFoundedInduction, TLAPS

(* One thread uses the limiter, or the bucket: neither has a lock.         *)
Serial == \A t, u \in Callers : t = u

Ordered(s) == \A i, k \in 1 .. Len(s) : i <= k => s[i] <= s[k]

-------------------------------------------------------------------------------
(* RateLimiter. *)

(* Any set of natural numbers has a smallest. *)
LEMMA SmallestExists ==
  ASSUME NEW S \in SUBSET Nat, S # {}
  PROVE  \E x \in S : \A y \in S : x <= y
<1> DEFINE R == {p \in Nat \X Nat : p[1] < p[2]}
<1>1. IsWellFoundedOn(R, Nat)
  BY NatLessThanWellFounded DEF OpToRel
<1>2. PICK x \in S : \A y \in S : ~ (<<y, x>> \in R)
  BY <1>1, WFMin
<1>3. ASSUME NEW y \in S PROVE x <= y
  <2>1. <<y, x>> \in Nat \X Nat /\ <<y, x>>[1] = y /\ <<y, x>>[2] = x
    OBVIOUS
  <2>2. ~ (y < x)
    BY <1>2, <2>1
  <2> QED
    BY <2>2
<1> QED
  BY <1>3

(* In an ordered sequence what is above a bound is what comes after some   *)
(* place.                                                                  *)
LEMMA TailAbove ==
  ASSUME NEW s \in Seq(Int), Ordered(s), NEW c \in Int
  PROVE  \E a \in 0 .. Len(s) : \A i \in 1 .. Len(s) : s[i] > c <=> i > a
<1> DEFINE Above == {i \in 1 .. Len(s) : s[i] > c}
<1>1. CASE Above = {}
  <2>1. Len(s) \in 0 .. Len(s) /\ \A i \in 1 .. Len(s) : ~(s[i] > c)
    BY <1>1
  <2>2. \A i \in 1 .. Len(s) : ~(i > Len(s))
    OBVIOUS
  <2> QED
    BY <2>1, <2>2
<1>2. CASE Above # {}
  <2>1. Above \subseteq Nat
    OBVIOUS
  <2>2. PICK a \in Above : \A n \in Above : a <= n
    BY <1>2, <2>1, SmallestExists
  <2>3. \A n \in Above : ~(n < a)
    BY <2>1, <2>2
  <2>4. a \in 1 .. Len(s) /\ s[a] > c /\ a - 1 \in 0 .. Len(s)
    OBVIOUS
  <2>5. \A i \in 1 .. Len(s) : s[i] > c <=> i > a - 1
    <3> TAKE i \in 1 .. Len(s)
    <3>1. CASE i > a - 1
      <4>1. s[a] <= s[i] /\ s[a] \in Int /\ s[i] \in Int
        BY <3>1, <2>4 DEF Ordered
      <4> QED
        BY <4>1, <3>1, <2>4
    <3>2. CASE ~(i > a - 1)
      <4>1. i < a
        BY <3>2, <2>4
      <4> QED
        BY <4>1, <3>2, <2>3
    <3> QED
      BY <3>1, <3>2
  <2> QED
    BY <2>4, <2>5
<1> QED
  BY <1>1, <1>2

(* The cardinality the limiter counts with is the library's.               *)
LEMMA SameCardinality == \A S : Limiter!Cardinality(S) = Cardinality(S)
  BY DEF Limiter!Cardinality, Cardinality

(* Then _evict_expired() keeps what comes after that place.                *)
LEMMA ChosenTail ==
  ASSUME timestamps \in Seq(Int), NEW a \in 0 .. Len(timestamps),
         NEW positions, positions = {i \in 1 .. Len(timestamps) : i > a}
  PROVE  /\ Limiter!Chosen(positions) \in Seq(Int)
         /\ Len(Limiter!Chosen(positions)) = Len(timestamps) - a
         /\ \A n \in 1 .. Len(timestamps) - a : Limiter!Chosen(positions)[n] = timestamps[a + n]
<1> DEFINE L == Len(timestamps)
           before(i) == {k \in positions : k < i}
<1>1. L \in Nat /\ a \in Nat /\ a <= L /\ positions = (a + 1) .. L
  OBVIOUS
<1>2. \A x, y \in Int : Cardinality(x .. y) = IF x > y THEN 0 ELSE y - x + 1
  BY FS_Interval
<1> HIDE DEF L
<1>3. Limiter!Cardinality(positions) = L - a
  <2>1. a + 1 \in Int /\ L \in Int
    BY <1>1
  <2>2. Cardinality((a + 1) .. L) = IF a + 1 > L THEN 0 ELSE L - (a + 1) + 1
    BY <1>2, <2>1
  <2>3. (IF a + 1 > L THEN 0 ELSE L - (a + 1) + 1) = L - a
    BY <1>1
  <2>4. positions = (a + 1) .. L
    BY <1>1
  <2> QED
    BY <2>2, <2>3, <2>4, SameCardinality, Zenon
<1>4. ASSUME NEW i \in positions PROVE Limiter!Cardinality(before(i)) = i - 1 - a
  <2>1. i \in Int /\ i - 1 \in Int /\ a + 1 \in Int /\ i > a /\ i <= L
    BY <1>1
  <2>2. before(i) = (a + 1) .. (i - 1)
    BY <1>1, <2>1
  <2>3. Cardinality((a + 1) .. (i - 1)) = IF a + 1 > i - 1 THEN 0 ELSE (i - 1) - (a + 1) + 1
    BY <1>2, <2>1
  <2>4. (IF a + 1 > i - 1 THEN 0 ELSE (i - 1) - (a + 1) + 1) = i - 1 - a
    BY <1>1, <2>1
  <2> QED
    BY <2>2, <2>3, <2>4, SameCardinality, Zenon
<1>5. ASSUME NEW n \in 1 .. L - a
      PROVE  (CHOOSE i \in positions : Limiter!Cardinality(before(i)) = n - 1) = a + n
  <2>1. a + n \in positions
    BY <1>1
  <2>2. Limiter!Cardinality(before(a + n)) = n - 1
    BY <1>1, <1>4, <2>1
  <2>3. \A i \in positions : Limiter!Cardinality(before(i)) = n - 1 => i = a + n
    BY <1>1, <1>4
  <2> QED
    BY <2>1, <2>2, <2>3
<1>6. Limiter!Chosen(positions) = [n \in 1 .. L - a |-> timestamps[a + n]]
  <2>1. Limiter!Chosen(positions)
          = [n \in 1 .. Limiter!Cardinality(positions) |->
               timestamps[CHOOSE i \in positions : Limiter!Cardinality(before(i)) = n - 1]]
    BY DEF Limiter!Chosen
  <2>2. \A n \in 1 .. L - a :
          timestamps[CHOOSE i \in positions : Limiter!Cardinality(before(i)) = n - 1] = timestamps[a + n]
    BY <1>5, Zenon
  <2> HIDE DEF before
  <2> QED
    BY <2>1, <2>2, <1>3
<1>7. \A n \in 1 .. L - a : timestamps[a + n] \in Int
  BY <1>1 DEF L
<1>8. PICK r : r = Limiter!Chosen(positions)
  OBVIOUS
<1>9. /\ r \in Seq(Int) /\ Len(r) = L - a
      /\ \A n \in 1 .. L - a : r[n] = timestamps[a + n]
  BY <1>1, <1>6, <1>7, <1>8
<1> QED
  BY <1>8, <1>9, Zenon DEF L

-------------------------------------------------------------------------------

(* How many of the granted slots are no longer in the list. *)
Forgotten == Len(grants) - Len(timestamps)

(* The list holds the last of the grants; the others have expired. *)
Recent ==
  /\ Len(timestamps) <= Len(grants)
  /\ \A k \in 1 .. Len(timestamps) : timestamps[k] = grants[Forgotten + k]
  /\ \A i \in 1 .. Forgotten : grants[i] <= clock - Window

(* The list that a thread has built is what has not expired of the other. *)
Evicted(t) ==
  LET gone == Len(timestamps) - Len(kept[t])
  IN  /\ gone >= 0
      /\ \A k \in 1 .. gone : timestamps[k] <= now[t] - Window
      /\ \A k \in 1 .. Len(kept[t]) : /\ kept[t][k] = timestamps[gone + k]
                                      /\ kept[t][k] > now[t] - Window

(* What a thread can rely on in a call, when no other is in one. *)
Asks(t) ==
  /\ now[t] <= clock
  /\ lPc[t] # "idle" => /\ \A i \in 1 .. Len(grants) : grants[i] <= now[t]
                       /\ \A i \in 1 .. Forgotten : grants[i] <= now[t] - Window
  /\ lPc[t] = "store" => Evicted(t)
  /\ lPc[t] \in {"count", "append"} =>
       \A k \in 1 .. Len(timestamps) : timestamps[k] > now[t] - Window
  /\ lPc[t] = "append" => Len(timestamps) < Limit

LimiterInv ==
  /\ Limiter!TypeOK
  /\ Ordered(grants) /\ \A i \in 1 .. Len(grants) : grants[i] <= clock
  /\ Recent
  /\ \A t \in Callers : Asks(t)
  /\ LimitHeld

LEMMA LimiterInit == Limiter!Init => LimiterInv
<1> SUFFICES ASSUME Limiter!Init PROVE LimiterInv
  OBVIOUS
<1> USE ClockedAssumption DEF Limiter!LimiterAssumption, Limiter!Init
<1>1. Limiter!TypeOK
  BY DEF Limiter!TypeOK, Limiter!Times, Limiter!Places
<1>2. Len(grants) = 0 /\ Len(timestamps) = 0
  OBVIOUS
<1> QED
  BY <1>1, <1>2 DEF LimiterInv, Ordered, Recent, Forgotten, Asks, LimitHeld, Limiter!LimitHeld

LEMMA LimiterNext == Serial /\ LimiterInv /\ [Limiter!Next]_(Limiter!vars) => LimiterInv'
<1> SUFFICES ASSUME Serial, LimiterInv, [Limiter!Next]_(Limiter!vars) PROVE LimiterInv'
  OBVIOUS
<1>0. Limit \in Nat \ {0} /\ Window \in Nat \ {0} /\ MaxTime \in Nat
  BY ClockedAssumption DEF Limiter!LimiterAssumption
<1>t. Limiter!TypeOK /\ Ordered(grants) /\ (\A i \in 1 .. Len(grants) : grants[i] <= clock)
      /\ Recent /\ (\A t \in Callers : Asks(t)) /\ LimitHeld
  BY DEF LimiterInv
<1>s. /\ grants \in Seq(Nat) /\ Len(grants) \in Nat /\ timestamps \in Seq(Nat)
      /\ Len(timestamps) \in Nat /\ clock \in Nat
      /\ \A i \in 1 .. Len(grants) : grants[i] \in Nat
      /\ \A i \in 1 .. Len(timestamps) : timestamps[i] \in Nat
      /\ \A t \in Callers : now[t] \in Nat
  BY <1>0, <1>t DEF Limiter!TypeOK, Limiter!Times
<1> USE <1>0, <1>s
<1>1. CASE UNCHANGED Limiter!vars
  BY <1>1, <1>t
     DEF Limiter!vars, Limiter!locals, LimiterInv, Limiter!TypeOK, Ordered, Recent, Forgotten,
         Asks, Evicted, LimitHeld, Limiter!LimitHeld
<1>2. CASE Limiter!Tick
  <2>1. /\ clock' = clock + 1 /\ clock' \in Limiter!Times
        /\ UNCHANGED <<timestamps, lPc, asking, now, kept, grants>>
    BY <1>2 DEF Limiter!Tick, Limiter!locals, Limiter!Times
  <2>2. Limiter!TypeOK'
    BY <2>1, <1>t DEF Limiter!TypeOK
  <2>3. Ordered(grants)' /\ \A i \in 1 .. Len(grants') : grants'[i] <= clock'
    BY <2>1, <1>t DEF Ordered
  <2>4. Recent' /\ LimitHeld'
    BY <2>1, <1>t DEF Recent, Forgotten, LimitHeld, Limiter!LimitHeld
  <2>5. ASSUME NEW t \in Callers PROVE Asks(t)'
    <3>1. Asks(t)
      BY <1>t
    <3>2. now[t] <= clock
      BY <3>1 DEF Asks
    <3>3. now'[t] <= clock'
      BY <2>1, <3>2
    <3> QED
      BY <2>1, <3>1, <3>3 DEF Asks, Evicted, Forgotten
  <2> QED
    BY <2>2, <2>3, <2>4, <2>5 DEF LimiterInv
<1>3. ASSUME NEW t \in Callers, NEW ask \in BOOLEAN, Limiter!Call(t, ask) PROVE LimiterInv'
  <2>0. \A u \in Callers : u = t
    BY DEF Serial
  <2>1. Limiter!TypeOK'
    BY <1>3, <1>t DEF Limiter!Call, Limiter!Step, Limiter!TypeOK, Limiter!Times, Limiter!Places
  <2>2. Ordered(grants)' /\ (\A i \in 1 .. Len(grants') : grants'[i] <= clock') /\ Recent' /\ LimitHeld'
    BY <1>3, <1>t DEF Limiter!Call, Ordered, Recent, Forgotten, LimitHeld, Limiter!LimitHeld
  <2>3. /\ lPc' = [lPc EXCEPT ![t] = "evict"] /\ now' = [now EXCEPT ![t] = clock]
        /\ UNCHANGED <<clock, timestamps, kept, grants>>
        /\ lPc \in [Callers -> Limiter!Places] /\ now \in [Callers -> Limiter!Times]
    BY <1>3, <1>t DEF Limiter!Call, Limiter!Step, Limiter!TypeOK
  <2>4. Asks(t)'
    BY <2>3, <1>t DEF Asks, Recent, Forgotten
  <2> QED
    BY <2>0, <2>1, <2>2, <2>4 DEF LimiterInv
<1>4. ASSUME NEW t \in Callers, Limiter!Reset(t) PROVE LimiterInv'
  <2>0. \A u \in Callers : u = t
    BY DEF Serial
  <2>1. /\ lPc[t] = "idle" /\ timestamps' = <<>> /\ grants' = <<>>
        /\ UNCHANGED <<clock, lPc, asking, now, kept>>
        /\ Len(timestamps') = 0 /\ Len(grants') = 0
    BY <1>4 DEF Limiter!Reset, Limiter!locals
  <2>2. Limiter!TypeOK'
    BY <2>1, <1>t DEF Limiter!TypeOK
  <2>3. Ordered(grants)' /\ (\A i \in 1 .. Len(grants') : grants'[i] <= clock') /\ Recent' /\ LimitHeld'
    BY <2>1 DEF Ordered, Recent, Forgotten, LimitHeld, Limiter!LimitHeld
  <2>4. Asks(t)'
    BY <2>1, <1>t DEF Asks
  <2> QED
    BY <2>0, <2>2, <2>3, <2>4 DEF LimiterInv
<1>5. ASSUME NEW t \in Callers, Limiter!Evict(t) PROVE LimiterInv'
  <2>0. \A u \in Callers : u = t
    BY DEF Serial
  <2>1. /\ lPc[t] = "evict" /\ lPc' = [lPc EXCEPT ![t] = "store"]
        /\ kept' = [kept EXCEPT ![t] = Limiter!Kept(now[t])]
        /\ UNCHANGED <<clock, timestamps, asking, now, grants>>
        /\ lPc \in [Callers -> Limiter!Places]
    BY <1>5, <1>t DEF Limiter!Evict, Limiter!Step, Limiter!TypeOK
  <2>2. PICK n : n = now[t]
    OBVIOUS
  <2>3. n \in Nat /\ kept \in [Callers -> Seq(Limiter!Times)] /\ timestamps \in Seq(Limiter!Times)
    BY <2>2, <1>t DEF Limiter!TypeOK
  <2>4. Ordered(timestamps)
    <3> SUFFICES ASSUME NEW i \in 1 .. Len(timestamps), NEW k \in 1 .. Len(timestamps), i <= k
                 PROVE  timestamps[i] <= timestamps[k]
      BY DEF Ordered
    <3>1. Forgotten \in Nat /\ Len(grants) = Forgotten + Len(timestamps)
      BY <1>t DEF Forgotten, Recent
    <3>2. timestamps[i] = grants[Forgotten + i] /\ timestamps[k] = grants[Forgotten + k]
      BY <1>t DEF Recent
    <3>3. Forgotten + i \in 1 .. Len(grants) /\ Forgotten + k \in 1 .. Len(grants)
      BY <3>1
    <3>4. Forgotten + i <= Forgotten + k
      BY <3>1
    <3> QED
      BY <3>2, <3>3, <3>4, <1>t DEF Ordered
  <2>5. PICK a \in 0 .. Len(timestamps) :
          \A i \in 1 .. Len(timestamps) : timestamps[i] > n - Window <=> i > a
    <3>1. timestamps \in Seq(Int) /\ n - Window \in Int
      BY <2>3
    <3> QED
      BY <2>4, <3>1, TailAbove
  <2>6. PICK r : r = Limiter!Kept(n)
    OBVIOUS
  <2>7. /\ r \in Seq(Int) /\ Len(r) = Len(timestamps) - a
        /\ \A k \in 1 .. Len(timestamps) - a : r[k] = timestamps[a + k]
    <3>1. PICK P : P = {i \in DOMAIN timestamps : timestamps[i] > n - Window}
      OBVIOUS
    <3>2. P = {i \in 1 .. Len(timestamps) : i > a}
      <4>1. DOMAIN timestamps = 1 .. Len(timestamps)
        BY <2>3
      <4> QED
        BY <2>5, <3>1, <4>1
    <3>4. timestamps \in Seq(Int)
      BY <2>3
    <3>3. r = Limiter!Chosen(P)
      BY <2>6, <3>1 DEF Limiter!Kept
    <3> QED
      BY <3>2, <3>3, <3>4, ChosenTail
  <2>8. PICK l : l = Len(timestamps)
    OBVIOUS
  <2>9. /\ l \in Nat /\ a \in Nat /\ a <= l
        /\ \A k \in 1 .. l : timestamps[k] \in Limiter!Times /\ timestamps[k] \in Nat
    <3>1. \A k \in 1 .. l : timestamps[k] \in Limiter!Times
      BY <2>3, <2>8
    <3> QED
      BY <2>5, <2>8, <3>1
  <2>10. r \in Seq(Limiter!Times) /\ kept' = [kept EXCEPT ![t] = r] /\ kept'[t] = r
    <3>1. ASSUME NEW k \in 1 .. l - a PROVE r[k] \in Limiter!Times
      <4>1. a + k \in 1 .. l
        BY <2>9
      <4>2. r[k] = timestamps[a + k]
        BY <2>7, <2>8
      <4>3. timestamps[a + k] \in Limiter!Times
        BY <2>9, <4>1
      <4> QED
        BY <4>2, <4>3
    <3>2. Len(r) = l - a /\ r \in Seq(Int)
      BY <2>7, <2>8
    <3>3. r = [k \in 1 .. l - a |-> r[k]] /\ l - a \in Nat
      BY <2>9, <3>2
    <3>4. r \in Seq(Limiter!Times)
      <4>1. [k \in 1 .. l - a |-> r[k]] \in [1 .. l - a -> Limiter!Times]
        BY <3>1
      <4>2. \A m \in Nat : [1 .. m -> Limiter!Times] \subseteq Seq(Limiter!Times)
        OBVIOUS
      <4> QED
        BY <3>3, <4>1, <4>2
    <3> QED
      BY <2>1, <2>2, <2>3, <2>6, <3>4
  <2>11. Limiter!TypeOK'
    BY <2>1, <2>3, <2>10, <1>t DEF Limiter!TypeOK, Limiter!Places
  <2>12. Evicted(t)'
    <3>1. Len(timestamps') - Len(kept'[t]) = a /\ now'[t] = n
      <4>1. Len(kept'[t]) = l - a
        BY <2>7, <2>8, <2>10
      <4>2. Len(timestamps') = l /\ now'[t] = n
        BY <2>1, <2>2, <2>8
      <4>3. l - (l - a) = a
        BY <2>9
      <4> QED
        BY <4>1, <4>2, <4>3
    <3>2. \A k \in 1 .. a : timestamps'[k] <= n - Window
      BY <2>1, <2>3, <2>5
    <3>3. ASSUME NEW k \in 1 .. Len(kept'[t])
          PROVE  kept'[t][k] = timestamps'[a + k] /\ kept'[t][k] > n - Window
      <4>1. k \in 1 .. l - a
        BY <2>7, <2>8, <2>10
      <4>2. r[k] = timestamps[a + k] /\ a + k \in 1 .. l /\ a + k > a
        BY <2>7, <2>8, <2>9, <4>1
      <4>3. timestamps[a + k] > n - Window
        BY <2>5, <2>8, <4>2
      <4> QED
        BY <2>1, <2>10, <4>2, <4>3
    <3>4. PICK f : f = kept'[t]
      OBVIOUS
    <3>5. Len(timestamps') - Len(f) = a /\ now'[t] = n /\ a >= 0
      BY <2>9, <3>1, <3>4
    <3>6. \A k \in 1 .. Len(f) : f[k] = timestamps'[a + k] /\ f[k] > n - Window
      BY <3>3, <3>4
    <3> QED
      BY <3>2, <3>4, <3>5, <3>6 DEF Evicted
  <2>13. Asks(t)'
    BY <2>1, <2>12, <1>t DEF Asks, Forgotten
  <2>14. Ordered(grants)' /\ (\A i \in 1 .. Len(grants') : grants'[i] <= clock') /\ Recent' /\ LimitHeld'
    BY <2>1, <1>t DEF Ordered, Recent, Forgotten, LimitHeld, Limiter!LimitHeld
  <2> QED
    BY <2>0, <2>11, <2>13, <2>14 DEF LimiterInv
<1>6. ASSUME NEW t \in Callers, Limiter!Store(t) PROVE LimiterInv'
  <2>0. \A u \in Callers : u = t
    BY DEF Serial
  <2>1. /\ lPc[t] = "store" /\ lPc' = [lPc EXCEPT ![t] = IF asking[t] THEN "count" ELSE "idle"]
        /\ timestamps' = kept[t] /\ kept' = [kept EXCEPT ![t] = <<>>]
        /\ UNCHANGED <<clock, asking, now, grants>>
        /\ lPc \in [Callers -> Limiter!Places] /\ kept \in [Callers -> Seq(Limiter!Times)]
    BY <1>6, <1>t DEF Limiter!Store, Limiter!Step, Limiter!TypeOK
  <2>2. PICK a : a = Len(timestamps) - Len(kept[t])
    OBVIOUS
  <2>3. timestamps' \in Seq(Limiter!Times) /\ Len(timestamps') \in Nat
    BY <2>1
  <2>4. /\ a \in Nat /\ Len(timestamps') = Len(timestamps) - a
        /\ \A k \in 1 .. a : timestamps[k] <= now[t] - Window
        /\ \A k \in 1 .. Len(timestamps') : /\ timestamps'[k] = timestamps[a + k]
                                            /\ timestamps'[k] > now[t] - Window
    <3>1. Evicted(t)
      BY <2>1, <1>t DEF Asks
    <3>2. /\ a >= 0 /\ \A k \in 1 .. a : timestamps[k] <= now[t] - Window
          /\ \A k \in 1 .. Len(kept[t]) : /\ kept[t][k] = timestamps[a + k]
                                          /\ kept[t][k] > now[t] - Window
      BY <2>2, <3>1 DEF Evicted
    <3>3. Len(kept[t]) \in Nat /\ Len(timestamps) \in Nat
      BY <2>1, <2>3
    <3>4. a \in Nat /\ Len(kept[t]) = Len(timestamps) - a
      BY <2>2, <3>2, <3>3
    <3> QED
      BY <2>1, <3>2, <3>4
  <2>5. Limiter!TypeOK'
    <3>1. Len(timestamps') <= Limit
      BY <2>3, <2>4, <1>t DEF Limiter!TypeOK
    <3>2. lPc' \in [Callers -> Limiter!Places]
      BY <2>1 DEF Limiter!Places
    <3>3. kept' \in [Callers -> Seq(Limiter!Times)]
      BY <2>1
    <3> QED
      BY <2>1, <2>3, <3>1, <3>2, <3>3, <1>t DEF Limiter!TypeOK
  <2>6. Forgotten' = Forgotten + a /\ Forgotten \in Nat /\ Forgotten' \in Nat
    BY <2>1, <2>3, <2>4, <1>t DEF Forgotten, Recent
  <2>7. \A i \in 1 .. Forgotten' : grants'[i] <= now[t] - Window
    <3> SUFFICES ASSUME NEW i \in 1 .. Forgotten + a PROVE grants[i] <= now[t] - Window
      BY <2>1, <2>6
    <3>1. CASE i \in 1 .. Forgotten
      BY <2>1, <3>1, <1>t DEF Asks
    <3>2. CASE i \notin 1 .. Forgotten
      <4>1. i - Forgotten \in 1 .. a /\ i - Forgotten \in 1 .. Len(timestamps)
        BY <2>3, <2>4, <2>6, <3>2
      <4>2. timestamps[i - Forgotten] = grants[Forgotten + (i - Forgotten)]
        BY <4>1, <1>t DEF Recent
      <4>3. Forgotten + (i - Forgotten) = i
        BY <2>6
      <4> QED
        BY <2>4, <4>1, <4>2, <4>3
    <3> QED
      BY <3>1, <3>2
  <2>8. now[t] <= clock
    BY <1>t DEF Asks
  <2>9. Recent'
    <3>1. Len(timestamps') <= Len(grants')
      BY <2>1, <2>3, <2>4, <1>t DEF Recent
    <3>2. ASSUME NEW k \in 1 .. Len(timestamps') PROVE timestamps'[k] = grants'[Forgotten' + k]
      <4>1. timestamps'[k] = timestamps[a + k] /\ a + k \in 1 .. Len(timestamps)
        BY <2>3, <2>4
      <4>2. timestamps[a + k] = grants[Forgotten + (a + k)]
        BY <4>1, <1>t DEF Recent
      <4>3. Forgotten + (a + k) = Forgotten' + k
        BY <2>3, <2>4, <2>6
      <4> QED
        BY <2>1, <4>1, <4>2, <4>3
    <3>3. \A i \in 1 .. Forgotten' : grants'[i] <= clock' - Window
      <4> TAKE i \in 1 .. Forgotten'
      <4>1. grants'[i] <= now[t] - Window
        BY <2>7
      <4>2. grants'[i] \in Nat
        BY <2>1, <2>3, <2>6 DEF Forgotten
      <4> QED
        BY <2>1, <2>8, <4>1, <4>2
    <3> QED
      BY <3>1, <3>2, <3>3 DEF Recent
  <2>10. Ordered(grants)' /\ (\A i \in 1 .. Len(grants') : grants'[i] <= clock') /\ LimitHeld'
    BY <2>1, <1>t DEF Ordered, LimitHeld, Limiter!LimitHeld
  <2>11. Asks(t)'
    BY <2>1, <2>4, <2>7, <1>t DEF Asks
  <2> QED
    BY <2>0, <2>5, <2>9, <2>10, <2>11 DEF LimiterInv
<1>7. ASSUME NEW t \in Callers, Limiter!Allow(t) \/ Limiter!Refuse(t) PROVE LimiterInv'
  <2>0. \A u \in Callers : u = t
    BY DEF Serial
  <2>1. Limiter!TypeOK'
    BY <1>7, <1>t DEF Limiter!Allow, Limiter!Refuse, Limiter!Step, Limiter!TypeOK, Limiter!Places
  <2>2. Ordered(grants)' /\ (\A i \in 1 .. Len(grants') : grants'[i] <= clock') /\ Recent' /\ LimitHeld'
    BY <1>7, <1>t DEF Limiter!Allow, Limiter!Refuse, Ordered, Recent, Forgotten, LimitHeld,
                      Limiter!LimitHeld
  <2>3. Asks(t)'
    BY <1>7, <1>t DEF Limiter!Allow, Limiter!Refuse, Limiter!Step, Limiter!HasSlot,
                      Limiter!TypeOK, Asks, Forgotten
  <2> QED
    BY <2>0, <2>1, <2>2, <2>3 DEF LimiterInv
<1>8. ASSUME NEW t \in Callers, Limiter!Grant(t) PROVE LimiterInv'
  <2>0. \A u \in Callers : u = t
    BY DEF Serial
  <2>1. /\ lPc[t] = "append" /\ lPc' = [lPc EXCEPT ![t] = "idle"]
        /\ timestamps' = Append(timestamps, now[t]) /\ grants' = Append(grants, now[t])
        /\ UNCHANGED <<clock, asking, now, kept>>
        /\ lPc \in [Callers -> Limiter!Places] /\ now[t] \in Limiter!Times
        /\ timestamps \in Seq(Limiter!Times) /\ grants \in Seq(Limiter!Times)
    BY <1>8, <1>t DEF Limiter!Grant, Limiter!Step, Limiter!TypeOK
  <2>2. PICK n : n = Len(grants)
    OBVIOUS
  <2>3. PICK l : l = Len(timestamps)
    OBVIOUS
  <2>4. /\ n \in Nat /\ grants' \in Seq(Limiter!Times) /\ Len(grants') = n + 1 /\ grants'[n + 1] = now[t]
        /\ \A i \in 1 .. n : grants'[i] = grants[i]
        /\ l \in Nat /\ timestamps' \in Seq(Limiter!Times) /\ Len(timestamps') = l + 1
        /\ timestamps'[l + 1] = now[t]
        /\ \A i \in 1 .. l : timestamps'[i] = timestamps[i]
    BY <2>1, <2>2, <2>3
  <2>5. l < Limit /\ now[t] <= clock /\ (\A i \in 1 .. n : grants[i] <= now[t])
        /\ \A i \in 1 .. n - l : grants[i] <= now[t] - Window
    BY <2>1, <2>2, <2>3, <1>t DEF Asks, Forgotten
  <2>6. l <= n /\ (\A k \in 1 .. l : timestamps[k] = grants[n - l + k])
        /\ \A i \in 1 .. n - l : grants[i] <= clock - Window
    BY <2>2, <2>3, <1>t DEF Recent, Forgotten
  <2>7. Limiter!TypeOK'
    BY <2>1, <2>4, <2>5, <1>t DEF Limiter!TypeOK, Limiter!Places
  <2>8. Ordered(grants)' /\ \A i \in 1 .. Len(grants') : grants'[i] <= clock'
    <3>1. \A i, k \in 1 .. n : i <= k => grants[i] <= grants[k]
      BY <2>2, <1>t DEF Ordered
    <3>2. \A i \in 1 .. n : grants[i] <= clock
      BY <2>2, <1>t
    <3>3. Ordered(grants)'
      <4> SUFFICES ASSUME NEW i \in 1 .. n + 1, NEW k \in 1 .. n + 1, i <= k
                   PROVE  grants'[i] <= grants'[k]
        BY <2>4 DEF Ordered
      <4>1. now[t] <= now[t]
        OBVIOUS
      <4>2. CASE k = n + 1
        BY <2>4, <2>5, <4>1, <4>2
      <4>3. CASE k \in 1 .. n /\ i \in 1 .. n
        BY <2>4, <3>1, <4>3
      <4> QED
        BY <2>4, <4>2, <4>3
    <3>4. ASSUME NEW i \in 1 .. n + 1 PROVE grants'[i] <= clock
      <4>1. CASE i = n + 1
        BY <2>4, <2>5, <4>1
      <4>2. CASE i \in 1 .. n
        BY <2>4, <3>2, <4>2
      <4> QED
        BY <2>4, <4>1, <4>2
    <3> QED
      BY <2>1, <2>4, <3>3, <3>4
  <2>9. Recent'
    <3>1. Forgotten' = n - l /\ n - l \in Nat /\ Len(timestamps') <= Len(grants')
      BY <2>4, <2>6 DEF Forgotten
    <3>2. ASSUME NEW k \in 1 .. l + 1 PROVE timestamps'[k] = grants'[n - l + k]
      <4>1. CASE k = l + 1
        <5>1. n - l + k = n + 1
          BY <2>4, <4>1
        <5> QED
          BY <2>4, <4>1, <5>1
      <4>2. CASE k \in 1 .. l
        <5>1. n - l + k \in 1 .. n
          BY <2>4, <2>6, <4>2
        <5> QED
          BY <2>4, <2>6, <4>2, <5>1
      <4> QED
        BY <2>4, <4>1, <4>2
    <3>3. ASSUME NEW i \in 1 .. n - l PROVE grants'[i] <= clock' - Window
      <4>1. i \in 1 .. n
        BY <2>4, <2>6
      <4> QED
        BY <2>1, <2>4, <2>6, <4>1
    <3> QED
      BY <2>4, <3>1, <3>2, <3>3 DEF Recent
  <2>10. LimitHeld'
    <3> SUFFICES ASSUME NEW i \in 1 .. n + 1 - Limit PROVE grants'[i + Limit] - grants'[i] >= Window
      BY <2>4 DEF LimitHeld, Limiter!LimitHeld
    <3>1. CASE i = n + 1 - Limit
      <4>1. i \in 1 .. n - l /\ i \in 1 .. n /\ i + Limit = n + 1
        BY <2>4, <2>5, <2>6, <3>1
      <4>2. grants[i] <= now[t] - Window /\ grants'[i] = grants[i] /\ grants[i] \in Nat
        BY <2>2, <2>4, <2>5, <4>1
      <4>3. grants'[i + Limit] = now[t]
        BY <2>4, <4>1
      <4> QED
        BY <4>2, <4>3
    <3>2. CASE i # n + 1 - Limit
      <4>1. i \in 1 .. n - Limit /\ i \in 1 .. n /\ i + Limit \in 1 .. n
        BY <2>4, <3>2
      <4>2. grants[i + Limit] - grants[i] >= Window
        BY <2>2, <4>1, <1>t DEF LimitHeld, Limiter!LimitHeld
      <4> QED
        BY <2>4, <4>1, <4>2
    <3> QED
      BY <3>1, <3>2
  <2>11. Asks(t)'
    BY <2>1, <2>5 DEF Asks
  <2> QED
    BY <2>0, <2>7, <2>8, <2>9, <2>10, <2>11 DEF LimiterInv
<1> QED
  BY <1>1, <1>2, <1>3, <1>4, <1>5, <1>6, <1>7, <1>8 DEF Limiter!Next

(* Of any Limit + 1 slots granted one after the other the last comes a     *)
(* window after the first (ratelimit.py:22), for any limit and window, as  *)
(* long as the limiter is used by one thread at a time.                    *)
THEOREM LimitKept == ASSUME Serial PROVE Limiter!Spec => []LimitHeld
<1>1. LimiterInv => LimitHeld
  BY DEF LimiterInv
<1>2. LimiterInv /\ [Limiter!Next]_(Limiter!vars) => LimiterInv'
  BY LimiterNext
<1> QED
  BY <1>1, <1>2, LimiterInit, PTL DEF Limiter!Spec

(* A slot is refused only when the window that ends now is full            *)
(* (ratelimit.py:44-45 and 58).                                            *)
THEOREM RefusedWhenFull == ASSUME Serial PROVE Limiter!Spec => RefusesOnlyWhenFull
<1>1. ASSUME LimiterInv, NEW t \in Callers, Limiter!Refuse(t)
      PROVE  Limiter!Cardinality({i \in 1 .. Len(grants) : grants[i] > now[t] - Window}) >= Limit
  <2>1. lPc[t] = "count" /\ ~(Len(timestamps) < Limit)
    BY <1>1 DEF Limiter!Refuse, Limiter!Step, Limiter!HasSlot
  <2>2. PICK n, l : n = Len(grants) /\ l = Len(timestamps)
    OBVIOUS
  <2>3. n \in Nat /\ l \in Nat /\ Limit \in Nat
    BY <1>1, <2>2, ClockedAssumption DEF Limiter!LimiterAssumption, LimiterInv, Limiter!TypeOK
  <2>4. /\ l <= n /\ Limit <= l
        /\ \A k \in 1 .. l : timestamps[k] = grants[n - l + k] /\ timestamps[k] > now[t] - Window
    BY <1>1, <2>1, <2>2, <2>3 DEF LimiterInv, Recent, Forgotten, Asks
  <2>5. PICK F : F = {i \in 1 .. n : grants[i] > now[t] - Window}
    OBVIOUS
  <2>6. (n - l + 1) .. n \subseteq F
    <3> SUFFICES ASSUME NEW i \in (n - l + 1) .. n PROVE grants[i] > now[t] - Window
      BY <2>3, <2>4, <2>5
    <3>1. i - (n - l) \in 1 .. l /\ n - l + (i - (n - l)) = i
      BY <2>3, <2>4
    <3> QED
      BY <2>4, <3>1
  <2>7. IsFiniteSet(1 .. n) /\ F \subseteq 1 .. n
    BY <2>3, <2>5, FS_Interval
  <2>8. IsFiniteSet(F)
    BY <2>7, FS_Subset
  <2>9. Cardinality((n - l + 1) .. n) <= Cardinality(F)
    BY <2>6, <2>8, FS_Subset
  <2>10. Cardinality((n - l + 1) .. n) = IF n - l + 1 > n THEN 0 ELSE n - (n - l + 1) + 1
    <3>1. n - l + 1 \in Int /\ n \in Int
      BY <2>3
    <3> QED
      BY <3>1, FS_Interval
  <2>11. (IF n - l + 1 > n THEN 0 ELSE n - (n - l + 1) + 1) = l
    BY <2>3, <2>4
  <2>12. Cardinality(F) \in Nat /\ l <= Cardinality(F)
    <3>1. l <= Cardinality(F)
      BY <2>9, <2>10, <2>11
    <3> QED
      BY <2>8, <3>1, FS_CardinalityType
  <2>13. Cardinality(F) >= Limit
    BY <2>3, <2>4, <2>12
  <2>14. Limiter!Cardinality(F) >= Limit
    BY <2>13, SameCardinality
  <2> QED
    BY <2>2, <2>5, <2>14
<1>2. LimiterInv /\ [Limiter!Next]_(Limiter!vars) =>
        [\A t \in Callers :
           Limiter!Refuse(t) =>
             Limiter!Cardinality({i \in 1 .. Len(grants) : grants[i] > now[t] - Window}) >= Limit]_(Limiter!vars)
  BY <1>1
<1>3. LimiterInv /\ [Limiter!Next]_(Limiter!vars) => LimiterInv'
  BY LimiterNext
<1> QED
  BY <1>2, <1>3, LimiterInit, PTL DEF Limiter!Spec, RefusesOnlyWhenFull, Limiter!RefusesOnlyWhenFull

-------------------------------------------------------------------------------
(* TokenBucket. *)

(* What flows in adds up. *)
LEMMA Flow ==
  ASSUME NEW a \in Int, NEW b \in Int, Rate \in Nat
  PROVE  /\ Rate * (a - b) \in Int /\ (a - b) * Rate = Rate * (a - b)
         /\ a >= b => Rate * (a - b) >= 0
         /\ \A c \in Int : Rate * (a - b) + Rate * (b - c) = Rate * (a - c)
<1>1. Rate * (a - b) \in Int /\ (a - b) * Rate = Rate * (a - b)
  OBVIOUS
<1>2. a >= b => Rate * (a - b) >= 0
  OBVIOUS
<1>3. \A c \in Int : Rate * (a - b) + Rate * (b - c) = Rate * (a - c)
  OBVIOUS
<1> QED
  BY <1>1, <1>2, <1>3

(* What the bucket would hold had no withdrawal since the i-th, itself     *)
(* included, and no overflow taken anything away: the capacity before it   *)
(* and what has flowed in up to r.                                         *)
Spent(i)   == Bucket!Total - taken[i].total + taken[i].units
Bounded(r) == \A i \in 1 .. Len(taken) : Spent(i) + tokens <= Capacity + Rate * (r - taken[i].at)
Reached(r)   == \/ tokens = Capacity
              \/ \E i \in 1 .. Len(taken) : Spent(i) + tokens = Capacity + Rate * (r - taken[i].at)
Level(r)   == Bounded(r) /\ Reached(r)

(* The level is that of the last refill, or of the time a thread is about  *)
(* to stamp the refill with.                                               *)
Levels ==
  /\ \A t \in Callers : bPc[t] = "stamp" => Level(bNow[t])
  /\ (\A t \in Callers : bPc[t] # "stamp") => Level(lastRefill)

(* What a thread can rely on in a call, when no other is in one. *)
InHand(t) ==
  /\ bNow[t] <= clock
  /\ bPc[t] # "idle" => lastRefill <= bNow[t]
  /\ bPc[t] = "refill" => sum[t] = Bucket!Refilled(bNow[t])
  /\ bPc[t] \in {"compare", "take", "write"} => lastRefill = bNow[t] /\ asked[t] \in Amounts
  /\ bPc[t] \in {"take", "write"} => asked[t] <= tokens
  /\ bPc[t] = "write" => sum[t] = tokens - asked[t]

BucketInv ==
  /\ Bucket!TypeOK
  /\ lastRefill <= clock /\ \A t \in Callers : InHand(t)
  /\ Levels
  /\ ThrottleHeld

LEMMA BucketInit == Bucket!Init => BucketInv
<1> SUFFICES ASSUME Bucket!Init PROVE BucketInv
  OBVIOUS
<1> USE ClockedAssumption DEF Bucket!BucketAssumption, Bucket!Init
<1>1. Bucket!TypeOK
  BY DEF Bucket!TypeOK, Bucket!Times, Bucket!Places
<1>2. Len(taken) = 0
  OBVIOUS
<1>3. Levels
  BY <1>2 DEF Levels, Level, Bounded, Reached
<1>4. ThrottleHeld
  BY <1>2 DEF ThrottleHeld, Bucket!ThrottleHeld
<1> QED
  BY <1>1, <1>3, <1>4 DEF BucketInv, InHand

LEMMA SpentIs ==
  ASSUME Bucket!TypeOK
  PROVE  /\ Bucket!Total \in Nat
         /\ \A i \in 1 .. Len(taken) : /\ taken[i].at \in Nat /\ taken[i].units \in Nat
                                      /\ taken[i].total \in Nat /\ Spent(i) \in Int
<1> DEFINE Withdrawals == [at : Bucket!Times, units : Amounts, total : Nat]
<1>1. taken \in Seq(Withdrawals)
  BY DEF Bucket!TypeOK
<1>2. Amounts \subseteq Nat /\ Bucket!Times \subseteq Nat
  BY ClockedAssumption DEF Bucket!BucketAssumption, Bucket!Times
<1>3. \A w \in Withdrawals : w.at \in Nat /\ w.units \in Nat /\ w.total \in Nat
  BY <1>2
<1> HIDE DEF Withdrawals
<1>4. \A i \in 1 .. Len(taken) : taken[i] \in Withdrawals
  BY <1>1
<1>5. taken # <<>> => Len(taken) \in 1 .. Len(taken)
  BY <1>1
<1>6. Bucket!Total \in Nat
  BY <1>3, <1>4, <1>5 DEF Bucket!Total
<1> QED
  BY <1>3, <1>4, <1>6 DEF Spent

(* A refill fills up the bucket or adds all that has flowed in.            *)
LEMMA RefilledLevel ==
  ASSUME Bucket!TypeOK, NEW n \in Nat, lastRefill <= n
  PROVE  /\ Bucket!Refilled(n) \in 0 .. Capacity
         /\ \/ Bucket!Refilled(n) = tokens + Rate * (n - lastRefill)
            \/ /\ Bucket!Refilled(n) = Capacity
               /\ Capacity <= tokens + Rate * (n - lastRefill)
<1>1. /\ Capacity \in Nat \ {0} /\ Rate \in Nat /\ lastRefill \in Int
      /\ tokens \in 0 .. Capacity
  BY ClockedAssumption DEF Bucket!BucketAssumption, Bucket!TypeOK, Bucket!Times
<1> DEFINE in == Rate * (n - lastRefill)
<1>2. in \in Int /\ in >= 0 /\ (n - lastRefill) * Rate = in
  BY <1>1, Flow
<1>3. Bucket!Refilled(n) = IF Capacity < tokens + in THEN Capacity ELSE tokens + in
  BY <1>2 DEF Bucket!Refilled, Bucket!AtMost
<1> HIDE DEF in
<1>4. /\ Bucket!Refilled(n) \in 0 .. Capacity
      /\ \/ Bucket!Refilled(n) = tokens + in
         \/ Bucket!Refilled(n) = Capacity /\ Capacity <= tokens + in
  BY <1>1, <1>2, <1>3
<1> QED
  BY <1>4 DEF in

LEMMA BucketNext == Serial /\ BucketInv /\ [Bucket!Next]_(Bucket!vars) => BucketInv'
<1> SUFFICES ASSUME Serial, BucketInv, [Bucket!Next]_(Bucket!vars) PROVE BucketInv'
  OBVIOUS
<1>0. /\ Capacity \in Nat \ {0} /\ Rate \in Nat \ {0} /\ Amounts \subseteq Nat \ {0}
      /\ BucketTime \in Nat
  BY ClockedAssumption DEF Bucket!BucketAssumption
<1>r. \A n : n \in Amounts => n \in Nat /\ n # 0
  BY <1>0, Zenon
<1>t. Bucket!TypeOK /\ lastRefill <= clock /\ (\A t \in Callers : InHand(t)) /\ Levels /\ ThrottleHeld
  BY DEF BucketInv
<1>1. CASE UNCHANGED Bucket!vars
  BY <1>1, <1>t DEF Bucket!vars, Bucket!locals, BucketInv, Bucket!TypeOK, InHand, Levels, Level,
     Bounded, Reached, Spent, Bucket!Total, Bucket!Refilled, ThrottleHeld, Bucket!ThrottleHeld, Bucket!Taken
<1>2. CASE Bucket!Tick
  <2>1. Bucket!TypeOK' /\ clock' = clock + 1 /\ clock \in Nat /\ lastRefill \in Nat
    BY <1>2, <1>t, <1>0 DEF Bucket!Tick, Bucket!locals, Bucket!TypeOK, Bucket!Times
  <2>2. lastRefill' <= clock' /\ \A t \in Callers : InHand(t)'
    BY <1>2, <1>t, <1>0, <2>1 DEF Bucket!Tick, Bucket!locals, Bucket!TypeOK, Bucket!Times,
       InHand, Bucket!Refilled
  <2>3. Levels' /\ ThrottleHeld'
    BY <1>2, <1>t DEF Bucket!Tick, Bucket!locals, Levels, Level, Bounded, Reached, Spent,
       Bucket!Total,
       ThrottleHeld, Bucket!ThrottleHeld, Bucket!Taken
  <2> QED
    BY <2>1, <2>2, <2>3 DEF BucketInv
<1>3. ASSUME NEW t \in Callers, NEW n \in Amounts \cup {0}, Bucket!Call(t, n) PROVE BucketInv'
  <2>0. Bucket!TypeOK /\ \A u \in Callers : u = t
    BY <1>t DEF Serial
  <2> USE <1>0, <2>0
  <2>1. Bucket!TypeOK'
    BY <1>3 DEF Bucket!Call, Bucket!Step, Bucket!locals, Bucket!TypeOK, Bucket!Times, Bucket!Places
  <2>2. lastRefill' <= clock' /\ \A u \in Callers : InHand(u)'
    BY <1>3, <1>t DEF Bucket!Call, Bucket!Step, Bucket!TypeOK, Bucket!Times, InHand, Bucket!Refilled
  <2>3. Levels'
    BY <1>3, <1>t DEF Bucket!Call, Bucket!Step, Bucket!TypeOK, Levels, Level, Bounded, Reached,
       Spent, Bucket!Total
  <2>4. ThrottleHeld'
    BY <1>3, <1>t DEF Bucket!Call, ThrottleHeld, Bucket!ThrottleHeld, Bucket!Taken
  <2> QED
    BY <2>1, <2>2, <2>3, <2>4 DEF BucketInv
<1>4. ASSUME NEW t \in Callers, Bucket!Elapse(t) PROVE BucketInv'
  <2>0. Bucket!TypeOK /\ \A u \in Callers : u = t
    BY <1>t DEF Serial
  <2> USE <1>0, <2>0
  <2>1. Bucket!TypeOK'
    <3>1. bNow[t] \in Nat /\ lastRefill <= bNow[t]
      BY <1>4, <1>t DEF Bucket!Elapse, Bucket!Step, Bucket!TypeOK, Bucket!Times, InHand
    <3>2. Bucket!Refilled(bNow[t]) \in Int
      BY <3>1, RefilledLevel
    <3> QED
      BY <1>4, <3>2 DEF Bucket!Elapse, Bucket!Step, Bucket!TypeOK, Bucket!Times, Bucket!Places
  <2>2. lastRefill' <= clock' /\ \A u \in Callers : InHand(u)'
    BY <1>4, <1>t DEF Bucket!Elapse, Bucket!Step, Bucket!TypeOK, Bucket!Times, InHand,
       Bucket!Refilled
  <2>3. Levels'
    BY <1>4, <1>t DEF Bucket!Elapse, Bucket!Step, Bucket!TypeOK, Levels, Level, Bounded, Reached,
       Spent, Bucket!Total
  <2>4. ThrottleHeld'
    BY <1>4, <1>t DEF Bucket!Elapse, ThrottleHeld, Bucket!ThrottleHeld, Bucket!Taken
  <2> QED
    BY <2>1, <2>2, <2>3, <2>4 DEF BucketInv
<1>5. ASSUME NEW t \in Callers, Bucket!Refill(t) PROVE BucketInv'
  <2>0. Bucket!TypeOK /\ \A u \in Callers : u = t
    BY <1>t DEF Serial
  <2> USE <1>0, <2>0
  <2>1. /\ bPc[t] = "refill" /\ bPc' = [bPc EXCEPT ![t] = "stamp"] /\ tokens' = sum[t]
        /\ UNCHANGED <<clock, lastRefill, asked, bNow, sum, taken>>
        /\ bNow[t] \in Nat /\ lastRefill \in Nat /\ lastRefill <= bNow[t]
        /\ sum[t] = Bucket!Refilled(bNow[t])
    BY <1>5, <1>t DEF Bucket!Refill, Bucket!Step, Bucket!TypeOK, Bucket!Times, InHand
  <2> DEFINE in == Rate * (bNow[t] - lastRefill)
  <2>2. /\ tokens' \in 0 .. Capacity
        /\ \/ tokens' = tokens + in
           \/ tokens' = Capacity /\ Capacity <= tokens + in
    BY <2>1, RefilledLevel
  <2>3. Bucket!TypeOK'
    BY <2>1, <2>2 DEF Bucket!TypeOK, Bucket!Times, Bucket!Places
  <2>4. lastRefill' <= clock' /\ \A u \in Callers : InHand(u)'
    BY <2>1, <1>t DEF InHand, Bucket!TypeOK
  <2>5. Bounded(lastRefill) /\ Reached(lastRefill)
    BY <2>1, <1>t DEF Levels, Level
  <2>6. ASSUME NEW i \in 1 .. Len(taken)
        PROVE  /\ Spent(i)' = Spent(i) /\ Spent(i) \in Int
               /\ Rate * (lastRefill - taken[i].at) \in Int
               /\ in + Rate * (lastRefill - taken[i].at) = Rate * (bNow[t] - taken[i].at)
    <3>1. taken[i].at \in Int /\ Spent(i) \in Int
      BY SpentIs
    <3>2. Spent(i)' = Spent(i)
      BY <2>1 DEF Spent, Bucket!Total
    <3> QED
      BY <2>1, <3>1, <3>2, Flow
  <2>7. in \in Int /\ in >= 0 /\ tokens \in Int
    BY <2>1, Flow DEF Bucket!TypeOK
  <2> HIDE DEF in
  <2>8. Bounded(bNow[t])'
    <3> SUFFICES ASSUME NEW i \in 1 .. Len(taken)
                 PROVE  Spent(i)' + tokens' <= Capacity + Rate * (bNow[t] - taken[i].at)
      BY <2>1 DEF Bounded
    <3>1. Spent(i) + tokens <= Capacity + Rate * (lastRefill - taken[i].at)
      BY <2>5 DEF Bounded
    <3> DEFINE flown == Rate * (lastRefill - taken[i].at)
               full  == Rate * (bNow[t] - taken[i].at)
    <3>2. Spent(i)' = Spent(i) /\ Spent(i) \in Int /\ flown \in Int /\ in + flown = full
      BY <2>6
    <3>3. Spent(i) + tokens <= Capacity + flown
      BY <3>1
    <3> HIDE DEF flown, full
    <3>4. Spent(i)' + tokens' <= Capacity + full
      BY <2>2, <2>7, <3>2, <3>3
    <3> QED
      BY <3>4 DEF full
  <2>9. Reached(bNow[t])'
    <3>1. CASE tokens' = Capacity
      BY <3>1, <2>1 DEF Reached
    <3>2. CASE tokens' = tokens + in /\ tokens' # Capacity
      <4>1. tokens # Capacity
        BY <3>2, <2>2, <2>7
      <4>2. PICK i \in 1 .. Len(taken) :
              Spent(i) + tokens = Capacity + Rate * (lastRefill - taken[i].at)
        BY <4>1, <2>5 DEF Reached
      <4> DEFINE flown == Rate * (lastRefill - taken[i].at)
                 full  == Rate * (bNow[t] - taken[i].at)
      <4>3. Spent(i)' = Spent(i) /\ Spent(i) \in Int /\ flown \in Int /\ in + flown = full
        BY <2>6
      <4>4. Spent(i) + tokens = Capacity + flown
        BY <4>2
      <4> HIDE DEF flown, full
      <4>5. Spent(i)' + tokens' = Capacity + full
        BY <3>2, <2>7, <4>3, <4>4
      <4> QED
        BY <4>5, <2>1 DEF full, Reached
    <3> QED
      BY <3>1, <3>2, <2>2
  <2>10. Levels'
    BY <2>1, <2>8, <2>9 DEF Levels, Level, Bucket!TypeOK, Bounded, Reached
  <2>11. ThrottleHeld'
    BY <2>1, <1>t DEF ThrottleHeld, Bucket!ThrottleHeld, Bucket!Taken
  <2> QED
    BY <2>3, <2>4, <2>10, <2>11 DEF BucketInv
<1>6. ASSUME NEW t \in Callers, Bucket!Stamp(t) PROVE BucketInv'
  <2>0. Bucket!TypeOK /\ \A u \in Callers : u = t
    BY <1>t DEF Serial
  <2> USE <1>0, <2>0
  <2>1. Bucket!TypeOK'
    BY <1>6 DEF Bucket!Stamp, Bucket!Step, Bucket!locals, Bucket!TypeOK, Bucket!Times, Bucket!Places
  <2>2. lastRefill' <= clock' /\ \A u \in Callers : InHand(u)'
    BY <1>6, <1>t DEF Bucket!Stamp, Bucket!Step, Bucket!TypeOK, Bucket!Times, InHand,
       Bucket!Refilled
  <2>3. Levels'
    BY <1>6, <1>t DEF Bucket!Stamp, Bucket!Step, Bucket!TypeOK, Levels, Level, Bounded, Reached,
       Spent, Bucket!Total
  <2>4. ThrottleHeld'
    BY <1>6, <1>t DEF Bucket!Stamp, ThrottleHeld, Bucket!ThrottleHeld, Bucket!Taken
  <2> QED
    BY <2>1, <2>2, <2>3, <2>4 DEF BucketInv
<1>7. ASSUME NEW t \in Callers, Bucket!Accept(t) \/ Bucket!Reject(t) PROVE BucketInv'
  <2>0. Bucket!TypeOK /\ \A u \in Callers : u = t
    BY <1>t DEF Serial
  <2> USE <1>0, <2>0
  <2>1. Bucket!TypeOK'
    BY <1>7 DEF Bucket!Accept, Bucket!Reject, Bucket!Enough, Bucket!Step, Bucket!locals,
       Bucket!TypeOK, Bucket!Times, Bucket!Places
  <2>2. lastRefill' <= clock' /\ \A u \in Callers : InHand(u)'
    BY <1>7, <1>t DEF Bucket!Accept, Bucket!Reject, Bucket!Enough, Bucket!Step, Bucket!TypeOK,
       Bucket!Times, InHand, Bucket!Refilled
  <2>3. Levels'
    BY <1>7, <1>t DEF Bucket!Accept, Bucket!Reject, Bucket!Step, Bucket!TypeOK, Levels, Level,
       Bounded, Reached, Spent, Bucket!Total
  <2>4. ThrottleHeld'
    BY <1>7, <1>t DEF Bucket!Accept, Bucket!Reject, Bucket!Enough, ThrottleHeld,
       Bucket!ThrottleHeld, Bucket!Taken
  <2> QED
    BY <2>1, <2>2, <2>3, <2>4 DEF BucketInv
<1>8. ASSUME NEW t \in Callers, Bucket!Take(t) PROVE BucketInv'
  <2>0. Bucket!TypeOK /\ \A u \in Callers : u = t
    BY <1>t DEF Serial
  <2> USE <1>0, <2>0
  <2>1. Bucket!TypeOK'
    <3>1. asked[t] \in Amounts \cup {0} /\ tokens \in Int
      BY DEF Bucket!TypeOK
    <3>2. asked[t] \in Nat
      <4>1. CASE asked[t] = 0
        BY <4>1
      <4>2. CASE asked[t] \in Amounts
        BY <4>2, <1>r, Zenon
      <4> QED
        BY <3>1, <4>1, <4>2
    <3>3. tokens - asked[t] \in Int
      BY <3>1, <3>2
    <3> QED
      BY <1>8, <3>3 DEF Bucket!Take, Bucket!Step, Bucket!TypeOK, Bucket!Times, Bucket!Places
  <2>2. lastRefill' <= clock' /\ \A u \in Callers : InHand(u)'
    BY <1>8, <1>t DEF Bucket!Take, Bucket!Step, Bucket!TypeOK, Bucket!Times, InHand, Bucket!Refilled
  <2>3. Levels'
    BY <1>8, <1>t DEF Bucket!Take, Bucket!Step, Bucket!TypeOK, Levels, Level, Bounded, Reached,
       Spent, Bucket!Total
  <2>4. ThrottleHeld'
    BY <1>8, <1>t DEF Bucket!Take, ThrottleHeld, Bucket!ThrottleHeld, Bucket!Taken
  <2> QED
    BY <2>1, <2>2, <2>3, <2>4 DEF BucketInv
<1>9. ASSUME NEW t \in Callers, Bucket!Write(t) PROVE BucketInv'
  <2>0. Bucket!TypeOK /\ \A u \in Callers : u = t
    BY <1>t DEF Serial
  <2> USE <1>0, <2>0
  <2>1. /\ bPc[t] = "write" /\ bPc' = [bPc EXCEPT ![t] = "idle"]
        /\ UNCHANGED <<clock, lastRefill, asked, bNow, sum>>
        /\ tokens' = tokens - asked[t] /\ asked[t] <= tokens /\ asked[t] \in Amounts
        /\ lastRefill = bNow[t] /\ bNow[t] \in Bucket!Times
    BY <1>9, <1>t DEF Bucket!Write, Bucket!Step, Bucket!TypeOK, InHand
  <2>2. /\ lastRefill \in Nat /\ tokens \in 0 .. Capacity /\ tokens \in Nat
        /\ asked[t] \in Nat /\ asked[t] # 0
    <3>1. asked[t] \in Nat /\ asked[t] # 0
      BY <2>1, <1>r, Zenon
    <3> QED
      BY <2>1, <3>1 DEF Bucket!TypeOK, Bucket!Times
  <2> DEFINE W == [at |-> bNow[t], units |-> asked[t], total |-> Bucket!Total + asked[t]]
             Withdrawals == [at : Bucket!Times, units : Amounts, total : Nat]
  <2>3. W \in Withdrawals /\ W.at = lastRefill /\ W.units = asked[t] /\ W.total = Bucket!Total + asked[t]
    BY <2>1, <2>2, SpentIs
  <2>4. taken \in Seq(Withdrawals) /\ taken' = Append(taken, W)
    BY <1>9 DEF Bucket!Write, Bucket!TypeOK
  <2> HIDE DEF W, Withdrawals
  <2>n. PICK n : n = Len(taken)
    OBVIOUS
  <2>5. /\ n \in Nat /\ taken' \in Seq(Withdrawals) /\ Len(taken') = n + 1 /\ taken' # <<>>
        /\ taken'[n + 1] = W /\ \A i \in 1 .. n : taken'[i] = taken[i]
    BY <2>3, <2>4, <2>n
  <2>6. Bucket!TypeOK'
    BY <2>1, <2>2, <2>5 DEF Withdrawals, Bucket!TypeOK, Bucket!Times, Bucket!Places
  <2>7. lastRefill' <= clock' /\ \A u \in Callers : InHand(u)'
    BY <2>1, <1>t DEF InHand, Bucket!TypeOK
  <2>8. (Bucket!Total)' = Bucket!Total + asked[t]
    BY <2>3, <2>5 DEF Bucket!Total
  <2>9. Bounded(lastRefill) /\ Reached(lastRefill)
    BY <2>1, <1>t DEF Levels, Level
  <2>10. ASSUME NEW i \in 1 .. n
         PROVE  /\ Spent(i)' + tokens' = Spent(i) + tokens
                /\ taken'[i].at \in Nat /\ Spent(i)' \in Int
    <3>1. /\ taken[i].total \in Nat /\ taken[i].units \in Nat /\ taken[i].at \in Nat
          /\ Bucket!Total \in Nat
      BY SpentIs, <2>n
    <3>2. taken'[i] = taken[i]
      BY <2>5
    <3> QED
      BY <3>1, <3>2, <2>1, <2>2, <2>8 DEF Spent
  <2>11. Spent(n + 1)' = asked[t] /\ Rate * (lastRefill - W.at) = 0
    <3>1. Bucket!Total \in Nat
      BY SpentIs
    <3> QED
      BY <3>1, <2>2, <2>3, <2>5, <2>8 DEF Spent
  <2>12. Bounded(lastRefill)'
    <3> SUFFICES ASSUME NEW i \in 1 .. n + 1
                 PROVE  Spent(i)' + tokens' <= Capacity + Rate * (lastRefill - taken'[i].at)
      BY <2>1, <2>5 DEF Bounded
    <3>1. CASE i = n + 1
      <4>1. taken'[i] = W /\ Spent(i)' = asked[t] /\ Rate * (lastRefill - W.at) = 0
        BY <3>1, <2>5, <2>11
      <4>2. asked[t] + tokens' <= Capacity
        BY <2>1, <2>2
      <4> QED
        BY <4>1, <4>2
    <3>2. CASE i \in 1 .. n
      BY <3>2, <2>5, <2>9, <2>10, <2>n DEF Bounded
    <3> QED
      BY <3>1, <3>2, <2>5
  <2>13. Reached(lastRefill)'
    <3>1. CASE tokens = Capacity
      <4>1. Spent(n + 1)' + tokens' = Capacity + Rate * (lastRefill - taken'[n + 1].at)
        BY <3>1, <2>1, <2>2, <2>5, <2>11
      <4>2. n + 1 \in 1 .. Len(taken')
        BY <2>5
      <4> QED
        BY <4>1, <4>2, <2>1 DEF Reached
    <3>2. CASE \E i \in 1 .. n : Spent(i) + tokens = Capacity + Rate * (lastRefill - taken[i].at)
      <4>1. PICK i \in 1 .. n : Spent(i) + tokens = Capacity + Rate * (lastRefill - taken[i].at)
        BY <3>2
      <4>2. Spent(i)' + tokens' = Capacity + Rate * (lastRefill - taken'[i].at)
        BY <4>1, <2>5, <2>10
      <4> QED
        BY <4>2, <2>1, <2>5 DEF Reached
    <3> QED
      BY <3>1, <3>2, <2>9, <2>n DEF Reached
  <2>14. Levels'
    BY <2>1, <2>12, <2>13 DEF Levels, Level, Bucket!TypeOK, Bounded, Reached
  <2>15. ThrottleHeld'
    <3> SUFFICES ASSUME NEW i \in 1 .. n + 1, NEW j \in 1 .. n + 1, i <= j
                 PROVE  taken'[j].total - taken'[i].total + taken'[i].units
                          <= Capacity + Rate * (taken'[j].at - taken'[i].at)
      BY <2>5 DEF ThrottleHeld, Bucket!ThrottleHeld, Bucket!Taken
    <3>1. CASE j = n + 1
      <4>1. taken'[j].total = (Bucket!Total)' /\ taken'[j].at = lastRefill
        BY <3>1, <2>3, <2>5, <2>8
      <4>2. Spent(i)' + tokens' <= Capacity + Rate * (lastRefill - taken'[i].at)
        BY <2>1, <2>5, <2>12 DEF Bounded
      <4>3. taken'[i].at \in Nat /\ Spent(i)' \in Int
        <5>1. CASE i = n + 1
          BY <5>1, <2>2, <2>3, <2>5, <2>11
        <5>2. CASE i \in 1 .. n
          BY <5>2, <2>10
        <5> QED
          BY <5>1, <5>2, <2>5
      <4>4. Rate * (lastRefill - taken'[i].at) \in Int /\ tokens' \in Nat
        BY <4>3, <2>1, <2>2, Flow
      <4>5. Spent(i)' <= Capacity + Rate * (lastRefill - taken'[i].at)
        BY <4>2, <4>3, <4>4
      <4> QED
        BY <4>1, <4>5 DEF Spent
    <3>2. CASE j \in 1 .. n
      BY <3>2, <2>5, <2>n, <1>t DEF ThrottleHeld, Bucket!ThrottleHeld, Bucket!Taken
    <3> QED
      BY <3>1, <3>2, <2>5
  <2> QED
    BY <2>6, <2>7, <2>14, <2>15 DEF BucketInv
<1> QED
  BY <1>1, <1>2, <1>3, <1>4, <1>5, <1>6, <1>7, <1>8, <1>9 DEF Bucket!Next

(* Over any stretch of time no more is taken out of the bucket than its    *)
(* capacity and what flows in meanwhile (throttle.py:42-60), for any       *)
(* capacity, rate and requests of one thread at a time.                    *)
THEOREM ThrottleKept == ASSUME Serial PROVE Bucket!Spec => []ThrottleHeld
<1>1. BucketInv => ThrottleHeld
  BY DEF BucketInv
<1>2. BucketInv /\ [Bucket!Next]_(Bucket!vars) => BucketInv'
  BY BucketNext
<1> QED
  BY <1>1, <1>2, BucketInit, PTL DEF Bucket!Spec

(* A request is turned away only if granting it would break the throttle   *)
(* (throttle.py:45 and 58): no token is lost that there is room for.       *)
THEOREM RejectedInNeed == ASSUME Serial PROVE Bucket!Spec => RejectsOnlyWhenShort
<1>1. ASSUME BucketInv, NEW t \in Callers, Bucket!Reject(t)
      PROVE  \/ asked[t] > Capacity
             \/ \E i \in 1 .. Len(taken) :
                  Bucket!Taken(i, Len(taken)) + asked[t] > Capacity + Rate * (bNow[t] - taken[i].at)
  <2>1. /\ bPc[t] = "compare" /\ ~(tokens >= asked[t])
        /\ lastRefill = bNow[t] /\ asked[t] \in Amounts
    BY <1>1 DEF BucketInv, InHand, Bucket!Reject, Bucket!Step, Bucket!Enough
  <2>2. asked[t] \in Nat /\ tokens \in Nat /\ Capacity \in Nat /\ bNow[t] \in Nat
    <3>1. \A n : n \in Amounts => n \in Nat
      BY ClockedAssumption, Zenon DEF Bucket!BucketAssumption
    <3>2. asked[t] \in Nat
      BY <2>1, <3>1, Zenon
    <3> QED
      BY <1>1, <3>2, ClockedAssumption
         DEF Bucket!BucketAssumption, BucketInv, Bucket!TypeOK, Bucket!Times
  <2>3. Reached(bNow[t])
    BY <1>1, <2>1 DEF Serial, BucketInv, Levels, Level
  <2>4. CASE tokens = Capacity
    BY <2>1, <2>2, <2>4
  <2>5. CASE \E i \in 1 .. Len(taken) :
               Spent(i) + tokens = Capacity + Rate * (bNow[t] - taken[i].at)
    <3>1. PICK i \in 1 .. Len(taken) :
            Spent(i) + tokens = Capacity + Rate * (bNow[t] - taken[i].at)
      BY <2>5
    <3>2. Bucket!TypeOK /\ Rate \in Nat /\ Spent(i) \in Int /\ taken[i].at \in Nat
      BY <1>1, SpentIs, ClockedAssumption DEF BucketInv, Bucket!BucketAssumption
    <3>3. Bucket!Taken(i, Len(taken)) = Spent(i)
      BY DEF Spent, Bucket!Total, Bucket!Taken
    <3>4. PICK f : f = Rate * (bNow[t] - taken[i].at)
      OBVIOUS
    <3>5. f \in Int
      BY <2>2, <3>2, <3>4, Flow
    <3>6. Spent(i) + asked[t] > Capacity + f
      BY <2>1, <2>2, <3>1, <3>2, <3>4, <3>5
    <3> QED
      BY <3>3, <3>4, <3>6
  <2> QED
    BY <2>3, <2>4, <2>5 DEF Reached
<1>2. BucketInv /\ [Bucket!Next]_(Bucket!vars) =>
        [\A t \in Callers : Bucket!Reject(t) =>
           \/ asked[t] > Capacity
           \/ \E i \in 1 .. Len(taken) :
                Bucket!Taken(i, Len(taken)) + asked[t]
                  > Capacity + Rate * (bNow[t] - taken[i].at)]_(Bucket!vars)
  BY <1>1
<1>3. BucketInv /\ [Bucket!Next]_(Bucket!vars) => BucketInv'
  BY BucketNext
<1> QED
  BY <1>2, <1>3, BucketInit, PTL DEF Bucket!Spec, RejectsOnlyWhenShort, Bucket!RejectsOnlyWhenShort

-------------------------------------------------------------------------------
(* SlidingWindow. *)

(* How many of the recorded events have been evicted. *)
Evictions == Len(recorded) - Len(events)

(* The deque holds the last of the recorded events; the others are older   *)
(* than the window.                                                        *)
LatestHeld ==
  /\ Len(events) <= Len(recorded)
  /\ \A k \in 1 .. Len(events) : events[k] = recorded[Evictions + k]
  /\ \A i \in 1 .. Evictions : recorded[i] < clock - Span

Busy == {"test", "head", "pop", "iterate", "count"}

(* What a thread can rely on in a call, as long as calls do not overlap. *)
Counts(t) ==
  /\ wPc[t] = "append" => /\ 0 <= time[t] /\ time[t] <= clock
                          /\ \A i \in 1 .. Len(recorded) : recorded[i] <= time[t]
  /\ wPc[t] \in Busy => /\ time[t] <= clock - Span
                        /\ \A i \in 1 .. Evictions : recorded[i] < time[t]
  /\ wPc[t] = "pop" /\ events # <<>> => events[1] < time[t]
  /\ wPc[t] \in {"iterate", "count"} => \A k \in 1 .. Len(events) : events[k] >= time[t]

Apart == \A t, u \in Threads : wPc[t] # "idle" /\ wPc[u] # "idle" => t = u

InStep ==
  /\ Ordered(recorded) /\ \A i \in 1 .. Len(recorded) : recorded[i] <= clock
  /\ LatestHeld
  /\ \A t \in Threads : Counts(t)

(* An event that is not appended yet has the time of its record(). *)
Stamped == \A t \in Threads : wPc[t] = "append" => time[t] \in Sliding!Times

SlidingInv == Sliding!TypeOK /\ Stamped /\ (~collided => Apart /\ InStep)

LEMMA SlidingInit == Sliding!Init => SlidingInv
<1> SUFFICES ASSUME Sliding!Init PROVE SlidingInv
  OBVIOUS
<1> USE ClockedAssumption DEF Sliding!WindowAssumption, Sliding!Init
<1>1. Sliding!TypeOK
  <2>1. collided \in BOOLEAN
    BY Zenon
  <2> QED
    BY <2>1 DEF Sliding!TypeOK, Sliding!Times, Sliding!Places
<1>2. Len(recorded) = 0 /\ Len(events) = 0
  OBVIOUS
<1> QED
  BY <1>1, <1>2 DEF SlidingInv, Stamped, Apart, InStep, Ordered, LatestHeld, Evictions, Counts, Busy

(* The steps of Next, apart from the history of overlaps. *)
ThreadStep(t) ==
  \/ Sliding!Record(t) \/ Sliding!Join(t) \/ Sliding!Stats(t) \/ Sliding!Cutoff(t)
  \/ Sliding!Test(t) \/ Sliding!Look(t) \/ Sliding!PopLeft(t) \/ Sliding!Emptied(t)
  \/ Sliding!Iterate(t) \/ Sliding!Answer(t) \/ Sliding!Mutated(t)

SlidingTyped ==
  /\ clock \in Sliding!Times
  /\ events \in Seq(Sliding!Times) /\ recorded \in Seq(Sliding!Times)
  /\ wPc \in [Threads -> Sliding!Places]
  /\ wAsking \subseteq Threads /\ intact \subseteq Threads
  /\ time \in [Threads -> -Span .. WindowTime]

LEMMA SlidingTypes ==
  Sliding!TypeOK /\ Stamped /\ [Sliding!Next]_(Sliding!vars) => Sliding!TypeOK' /\ Stamped'
<1> SUFFICES ASSUME Sliding!TypeOK, Stamped, [Sliding!Next]_(Sliding!vars)
             PROVE  Sliding!TypeOK' /\ Stamped'
  OBVIOUS
<1>0. Span \in Nat \ {0} /\ MaxEvents \in Nat /\ WindowTime \in Nat
  BY ClockedAssumption DEF Sliding!WindowAssumption
<1>1. SlidingTyped
  BY DEF Sliding!TypeOK, SlidingTyped
<1>2. CASE UNCHANGED Sliding!vars
  BY <1>2 DEF Sliding!vars, Sliding!TypeOK, Stamped
<1>3. ASSUME Sliding!Tick PROVE SlidingTyped' /\ Stamped'
  <2>1. clock' \in Sliding!Times
    BY <1>0, <1>1, <1>3 DEF Sliding!Tick, Sliding!Times, SlidingTyped
  <2> QED
    BY <1>1, <1>3, <2>1 DEF Sliding!Tick, Stamped, SlidingTyped
<1>4. ASSUME Sliding!Reset PROVE SlidingTyped' /\ Stamped'
  BY <1>1, <1>4 DEF Sliding!Reset, Sliding!Change, Stamped, SlidingTyped
<1>5. ASSUME NEW t \in Threads, ThreadStep(t) PROVE SlidingTyped' /\ Stamped'
  <2>1. wPc' \in [Threads -> Sliding!Places] /\ \A u \in Threads \ {t} : wPc'[u] = wPc[u]
    BY <1>1, <1>5 DEF ThreadStep, Sliding!Step, Sliding!AfterEvict, Sliding!Places,
       Sliding!Record, Sliding!Join, Sliding!Stats, Sliding!Cutoff, Sliding!Test, Sliding!Look,
       Sliding!PopLeft, Sliding!Emptied, Sliding!Iterate, Sliding!Answer, Sliding!Mutated, SlidingTyped
  <2>2. clock' = clock /\ wAsking' \subseteq Threads /\ intact' \subseteq Threads
    BY <1>1, <1>5 DEF ThreadStep, Sliding!Change,
       Sliding!Record, Sliding!Join, Sliding!Stats, Sliding!Cutoff, Sliding!Test, Sliding!Look,
       Sliding!PopLeft, Sliding!Emptied, Sliding!Iterate, Sliding!Answer, Sliding!Mutated, SlidingTyped
  <2>3. CASE Sliding!Join(t)
    <3>1. time[t] \in Sliding!Times
      BY <2>3 DEF Sliding!Join, Sliding!Step, Stamped
    <3>2. events' \in Seq(Sliding!Times) /\ recorded' \in Seq(Sliding!Times)
      BY <1>1, <2>3, <3>1 DEF Sliding!Join, Sliding!Change, SlidingTyped
    <3>3. Stamped'
      BY <1>1, <2>3 DEF Sliding!Join, Sliding!Step, Stamped, SlidingTyped
    <3> QED
      BY <1>1, <2>1, <2>2, <2>3, <3>2, <3>3 DEF Sliding!Join, SlidingTyped
  <2>4. CASE Sliding!Record(t)
    <3>1. time' = [time EXCEPT ![t] = clock] /\ clock \in -Span .. WindowTime
      BY <1>0, <1>1, <2>4 DEF Sliding!Record, Sliding!Times, SlidingTyped
    <3>2. Stamped'
      BY <1>1, <2>1, <3>1, <2>2 DEF Stamped, SlidingTyped
    <3> QED
      BY <1>1, <2>1, <2>2, <2>4, <3>1, <3>2 DEF Sliding!Record, SlidingTyped
  <2>5. CASE Sliding!Cutoff(t)
    <3>1. time' = [time EXCEPT ![t] = clock - Span] /\ clock - Span \in -Span .. WindowTime
      BY <1>0, <1>1, <2>5 DEF Sliding!Cutoff, Sliding!Times, SlidingTyped
    <3>2. Stamped'
      BY <1>1, <2>1, <2>5 DEF Sliding!Cutoff, Sliding!Step, Stamped, SlidingTyped
    <3> QED
      BY <1>1, <2>1, <2>2, <2>5, <3>1, <3>2 DEF Sliding!Cutoff, SlidingTyped
  <2>6. CASE Sliding!PopLeft(t)
    <3>1. events' \in Seq(Sliding!Times) /\ recorded' = recorded
      BY <1>1, <2>6 DEF Sliding!PopLeft, Sliding!Change, SlidingTyped
    <3>2. Stamped'
      BY <1>1, <2>1, <2>6 DEF Sliding!PopLeft, Sliding!Step, Stamped, SlidingTyped
    <3> QED
      BY <1>1, <2>1, <2>2, <2>6, <3>1, <3>2 DEF Sliding!PopLeft, SlidingTyped
  <2>7. CASE \/ Sliding!Stats(t) \/ Sliding!Test(t) \/ Sliding!Look(t) \/ Sliding!Emptied(t)
             \/ Sliding!Iterate(t) \/ Sliding!Answer(t) \/ Sliding!Mutated(t)
    <3>1. UNCHANGED <<events, recorded, time>>
      BY <2>7 DEF Sliding!Stats, Sliding!Test, Sliding!Look, Sliding!Emptied, Sliding!Iterate,
         Sliding!Answer, Sliding!Mutated
    <3>2. wPc'[t] # "append"
      BY <1>1, <2>7 DEF Sliding!Stats, Sliding!Test, Sliding!Look, Sliding!Emptied, Sliding!Iterate,
         Sliding!Answer, Sliding!Mutated, Sliding!Step, Sliding!AfterEvict, SlidingTyped
    <3> QED
      BY <1>1, <2>1, <2>2, <3>1, <3>2 DEF Stamped, SlidingTyped
  <2> QED
    BY <1>5, <2>3, <2>4, <2>5, <2>6, <2>7 DEF ThreadStep
<1>6. CASE Sliding!Next
  <2>1. collided' \in BOOLEAN
    BY <1>6, Zenon DEF Sliding!Next
  <2>2. SlidingTyped' /\ Stamped'
    BY <1>3, <1>4, <1>5, <1>6 DEF Sliding!Next, ThreadStep
  <2> QED
    BY <2>1, <2>2 DEF Sliding!TypeOK, SlidingTyped
<1> QED
  BY <1>2, <1>6

(* The step of a thread while every other is outside the window's methods. *)
LEMMA SlidingAlone ==
  ASSUME Sliding!TypeOK, Stamped, InStep, NEW t \in Threads, ThreadStep(t),
         \A u \in Threads \ {t} : wPc[u] = "idle"
  PROVE  InStep'
<1>0. Span \in Nat \ {0} /\ MaxEvents \in Nat /\ WindowTime \in Nat
  BY ClockedAssumption DEF Sliding!WindowAssumption
<1>1. SlidingTyped
  BY DEF Sliding!TypeOK, SlidingTyped
<1>2. PICK n : n = Len(recorded)
  OBVIOUS
<1>3. PICK l : l = Len(events)
  OBVIOUS
<1>4. /\ n \in Nat /\ l \in Nat /\ l <= n /\ Evictions = n - l /\ clock \in Nat
      /\ \A i \in 1 .. n : recorded[i] \in Nat
      /\ \A k \in 1 .. l : events[k] \in Nat
      /\ time[t] \in Int
  <2>1. n \in Nat /\ l \in Nat /\ clock \in Nat /\ time[t] \in Int
    BY <1>0, <1>1, <1>2, <1>3 DEF SlidingTyped, Sliding!Times
  <2>2. l <= n /\ Evictions = n - l
    BY <1>2, <1>3 DEF InStep, LatestHeld, Evictions
  <2>3. Sliding!Times \subseteq Nat
    BY <1>0 DEF Sliding!Times
  <2>4. /\ \A i \in 1 .. n : recorded[i] \in Nat
        /\ \A k \in 1 .. l : events[k] \in Nat
    <3>1. recorded \in Seq(Sliding!Times) /\ events \in Seq(Sliding!Times)
      BY <1>1 DEF SlidingTyped
    <3>2. /\ \A i \in 1 .. n : recorded[i] \in Sliding!Times
          /\ \A k \in 1 .. l : events[k] \in Sliding!Times
      BY <1>2, <1>3, <3>1
    <3> QED
      BY <2>3, <3>2
  <2> QED
    BY <2>1, <2>2, <2>4
<1>5. /\ \A i, k \in 1 .. n : i <= k => recorded[i] <= recorded[k]
      /\ \A i \in 1 .. n : recorded[i] <= clock
      /\ \A k \in 1 .. l : events[k] = recorded[n - l + k]
      /\ \A i \in 1 .. n - l : recorded[i] < clock - Span
  BY <1>2, <1>3, <1>4 DEF InStep, LatestHeld, Ordered
<1>6. /\ wPc[t] = "append" => /\ 0 <= time[t] /\ time[t] <= clock
                              /\ \A i \in 1 .. n : recorded[i] <= time[t]
      /\ wPc[t] \in Busy => /\ time[t] <= clock - Span
                            /\ \A i \in 1 .. n - l : recorded[i] < time[t]
      /\ wPc[t] = "pop" /\ events # <<>> => events[1] < time[t]
      /\ wPc[t] \in {"iterate", "count"} => \A k \in 1 .. l : events[k] >= time[t]
  BY <1>2, <1>3, <1>4 DEF InStep, Counts
<1>7. \A u \in Threads \ {t} : wPc'[u] = "idle"
  BY <1>1 DEF ThreadStep, Sliding!Step, Sliding!Record, Sliding!Join, Sliding!Stats, Sliding!Cutoff,
     Sliding!Test, Sliding!Look, Sliding!PopLeft, Sliding!Emptied, Sliding!Iterate,
     Sliding!Answer, Sliding!Mutated, SlidingTyped
<1>8. \A u \in Threads \ {t} : Counts(u)'
  BY <1>7 DEF Counts, Busy
<1>9. CASE Sliding!Join(t)
  <2>1. /\ wPc[t] = "append" /\ wPc'[t] = "cutoff" /\ clock' = clock
        /\ events' = Append(events, time[t]) /\ recorded' = Append(recorded, time[t])
        /\ time[t] \in Sliding!Times /\ time[t] \in Nat
        /\ events \in Seq(Sliding!Times) /\ recorded \in Seq(Sliding!Times)
    BY <1>1, <1>9 DEF Sliding!Join, Sliding!Step, Sliding!Change, Stamped, SlidingTyped,
       Sliding!Times
  <2>2. /\ Len(recorded') = n + 1 /\ recorded'[n + 1] = time[t]
        /\ \A i \in 1 .. n : recorded'[i] = recorded[i]
        /\ Len(events') = l + 1 /\ events'[l + 1] = time[t]
        /\ \A k \in 1 .. l : events'[k] = events[k]
    BY <2>1, <1>2, <1>3
  <2>3. Ordered(recorded)'
    <3> SUFFICES ASSUME NEW i \in 1 .. n + 1, NEW k \in 1 .. n + 1, i <= k
                 PROVE  recorded'[i] <= recorded'[k]
      BY <2>2 DEF Ordered
    <3>1. CASE k \in 1 .. n
      <4>1. i \in 1 .. n
        BY <1>4, <3>1
      <4> QED
        BY <1>5, <2>2, <3>1, <4>1
    <3>2. CASE k = n + 1 /\ i \in 1 .. n
      BY <1>6, <2>1, <2>2, <3>2
    <3>3. CASE k = n + 1 /\ i = n + 1
      BY <2>1, <2>2, <3>3
    <3> QED
      BY <1>4, <3>1, <3>2, <3>3
  <2>4. ASSUME NEW i \in 1 .. n + 1 PROVE recorded'[i] <= clock'
    <3>1. CASE i \in 1 .. n
      BY <1>5, <2>1, <2>2, <3>1
    <3>2. CASE i = n + 1
      BY <1>6, <2>1, <2>2, <3>2
    <3> QED
      BY <1>4, <3>1, <3>2
  <2>5. LatestHeld'
    <3>1. Evictions' = n - l /\ Len(events') <= Len(recorded')
      BY <1>4, <2>2 DEF Evictions
    <3>2. ASSUME NEW k \in 1 .. l + 1 PROVE events'[k] = recorded'[n - l + k]
      <4>1. CASE k \in 1 .. l
        <5>1. n - l + k \in 1 .. n
          BY <1>4, <4>1
        <5> QED
          BY <1>5, <2>2, <4>1, <5>1
      <4>2. CASE k = l + 1
        <5>1. n - l + k = n + 1
          BY <1>4, <4>2
        <5> QED
          BY <2>2, <4>2, <5>1
      <4> QED
        BY <1>4, <4>1, <4>2
    <3>3. ASSUME NEW i \in 1 .. n - l PROVE recorded'[i] < clock' - Span
      <4>1. i \in 1 .. n
        BY <1>4
      <4> QED
        BY <1>5, <2>1, <2>2, <4>1
    <3> QED
      BY <2>2, <3>1, <3>2, <3>3 DEF LatestHeld
  <2>6. Counts(t)'
    BY <2>1 DEF Counts, Busy
  <2> QED
    BY <1>8, <2>2, <2>3, <2>4, <2>5, <2>6 DEF InStep
<1>10. CASE Sliding!PopLeft(t)
  <2>1. /\ wPc[t] = "pop" /\ wPc'[t] = "test" /\ clock' = clock /\ recorded' = recorded
        /\ events # <<>> /\ events' = Tail(events) /\ time' = time
        /\ events \in Seq(Sliding!Times)
    BY <1>1, <1>10 DEF Sliding!PopLeft, Sliding!Step, Sliding!Change, SlidingTyped
  <2>2. /\ l >= 1 /\ Len(events') = l - 1 /\ \A k \in 1 .. l - 1 : events'[k] = events[k + 1]
    BY <2>1, <1>3
  <2>3. Ordered(recorded)' /\ \A i \in 1 .. Len(recorded') : recorded'[i] <= clock'
    BY <2>1 DEF InStep, Ordered
  <2>4. Evictions' = n - l + 1
    <3>1. Evictions' = Len(recorded) - (l - 1)
      BY <2>1, <2>2 DEF Evictions
    <3> QED
      BY <1>2, <1>4, <2>2, <3>1
  <2>5. ASSUME NEW i \in 1 .. n - l + 1
        PROVE  recorded[i] < time[t] /\ recorded[i] < clock - Span
    <3>1. wPc[t] \in Busy /\ time[t] <= clock - Span
      BY <1>6, <2>1 DEF Busy
    <3>2. CASE i \in 1 .. n - l
      BY <1>5, <1>6, <3>1, <3>2
    <3>3. CASE i = n - l + 1
      <4>1. 1 \in 1 .. l /\ i \in 1 .. n
        BY <1>4, <2>2, <3>3
      <4>2. events[1] = recorded[i] /\ events[1] < time[t]
        BY <1>5, <1>6, <2>1, <3>3, <4>1
      <4>3. recorded[i] \in Nat
        BY <1>4, <4>1
      <4> QED
        BY <1>0, <1>4, <3>1, <4>2, <4>3
    <3> QED
      BY <1>4, <3>2, <3>3
  <2>6. LatestHeld'
    <3>1. Len(events') <= Len(recorded')
      BY <1>2, <1>4, <2>1, <2>2
    <3>2. ASSUME NEW k \in 1 .. l - 1 PROVE events'[k] = recorded[n - l + 1 + k]
      <4>1. k + 1 \in 1 .. l /\ n - l + 1 + k = n - l + (k + 1)
        <5>1. n \in Nat /\ l \in Nat /\ l >= 1
          BY <1>4, <2>2
        <5> QED
          BY <5>1
      <4>2. events'[k] = events[k + 1]
        BY <2>2
      <4> QED
        BY <1>5, <4>1, <4>2
    <3> QED
      BY <2>1, <2>2, <2>4, <2>5, <3>1, <3>2 DEF LatestHeld
  <2>7. Counts(t)'
    <3>1. time[t] <= clock - Span
      BY <1>6, <2>1 DEF Busy
    <3> QED
      BY <2>1, <2>4, <2>5, <3>1 DEF Counts
  <2> QED
    BY <1>8, <2>3, <2>6, <2>7 DEF InStep
<1>11. ASSUME UNCHANGED <<clock, events, recorded>>, Counts(t)'
       PROVE  InStep'
  BY <1>8, <1>11 DEF InStep, Ordered, LatestHeld, Evictions
<1>12. CASE Sliding!Record(t)
  <2>1. UNCHANGED <<clock, events, recorded>> /\ time'[t] = clock /\ wPc'[t] = "append"
    BY <1>1, <1>12 DEF Sliding!Record, Sliding!Step, SlidingTyped
  <2>2. Counts(t)'
    BY <1>2, <1>4, <1>5, <2>1 DEF Counts, Busy
  <2> QED
    BY <1>11, <2>1, <2>2
<1>13. CASE Sliding!Cutoff(t)
  <2>1. UNCHANGED <<clock, events, recorded>> /\ time'[t] = clock - Span /\ wPc'[t] = "test"
    BY <1>1, <1>13 DEF Sliding!Cutoff, Sliding!Step, SlidingTyped
  <2>2. Evictions' = n - l
    BY <1>2, <1>3, <2>1 DEF Evictions
  <2>3. clock - Span <= clock - Span
    BY <1>0, <1>4
  <2>4. Counts(t)'
    BY <1>2, <1>4, <1>5, <2>1, <2>2, <2>3 DEF Counts
  <2> QED
    BY <1>11, <2>1, <2>4
<1>14. CASE Sliding!Look(t)
  <2>1. /\ UNCHANGED <<clock, events, recorded, time>> /\ wPc[t] = "head" /\ events # <<>>
        /\ wPc'[t] = IF events[1] < time[t] THEN "pop" ELSE Sliding!AfterEvict(t)
    BY <1>1, <1>14 DEF Sliding!Look, Sliding!Step, Sliding!Stale, SlidingTyped
  <2>2. /\ time[t] <= clock - Span /\ \A i \in 1 .. n - l : recorded[i] < time[t]
    BY <1>6, <2>1 DEF Busy
  <2>3. Evictions' = n - l /\ Len(events') = l
    BY <1>2, <1>3, <2>1 DEF Evictions
  <2>4. ASSUME events[1] < time[t] PROVE Counts(t)'
    BY <2>1, <2>2, <2>3, <2>4 DEF Counts
  <2>5. ASSUME ~(events[1] < time[t]) PROVE Counts(t)'
    <3>1. l >= 1 /\ events[1] \in Nat /\ events[1] >= time[t]
      <4>1. l >= 1
        BY <1>1, <1>3, <2>1 DEF SlidingTyped
      <4>2. 1 \in 1 .. l
        BY <1>4, <4>1
      <4>3. events[1] \in Nat
        BY <1>4, <4>2
      <4> QED
        BY <1>4, <2>5, <4>1, <4>3
    <3>2. ASSUME NEW k \in 1 .. l PROVE events[k] >= time[t]
      <4>1. /\ 1 \in 1 .. l /\ n - l + 1 \in 1 .. n /\ n - l + k \in 1 .. n
            /\ n - l + 1 <= n - l + k
        BY <1>4, <3>1
      <4>2. events[1] = recorded[n - l + 1] /\ events[k] = recorded[n - l + k]
        BY <1>5, <4>1
      <4>3. recorded[n - l + 1] <= recorded[n - l + k]
        BY <1>5, <4>1
      <4>4. events[k] \in Nat
        BY <1>4
      <4> QED
        BY <1>4, <3>1, <4>2, <4>3, <4>4
    <3>3. wPc'[t] \in {"idle", "iterate"}
      BY <2>1, <2>5 DEF Sliding!AfterEvict
    <3> QED
      BY <2>1, <2>2, <2>3, <3>2, <3>3 DEF Counts
  <2>6. Counts(t)'
    BY <2>4, <2>5
  <2> QED
    BY <1>11, <2>1, <2>6
<1>15. CASE Sliding!Test(t)
  <2>1. /\ UNCHANGED <<clock, events, recorded, time>> /\ wPc[t] = "test"
        /\ wPc'[t] = IF events # <<>> THEN "head" ELSE Sliding!AfterEvict(t)
    BY <1>1, <1>15 DEF Sliding!Test, Sliding!Step, SlidingTyped
  <2>2. /\ time[t] <= clock - Span /\ \A i \in 1 .. n - l : recorded[i] < time[t]
    BY <1>6, <2>1 DEF Busy
  <2>3. Evictions' = n - l /\ Len(events') = l
    BY <1>2, <1>3, <2>1 DEF Evictions
  <2>4. events = <<>> => wPc'[t] \in {"idle", "iterate"} /\ \A k \in 1 .. l : FALSE
    BY <1>3, <2>1 DEF Sliding!AfterEvict
  <2>5. events # <<>> => wPc'[t] = "head"
    BY <2>1
  <2>6. Counts(t)'
    BY <2>1, <2>2, <2>3, <2>4, <2>5 DEF Counts
  <2> QED
    BY <1>11, <2>1, <2>6
<1>16. CASE Sliding!Iterate(t)
  <2>1. /\ UNCHANGED <<clock, events, recorded, time>> /\ wPc[t] = "iterate" /\ wPc'[t] = "count"
    BY <1>1, <1>16 DEF Sliding!Iterate, Sliding!Step, SlidingTyped
  <2>2. Evictions' = n - l /\ Len(events') = l
    BY <1>2, <1>3, <2>1 DEF Evictions
  <2>3. Counts(t)'
    BY <1>6, <2>1, <2>2 DEF Counts, Busy
  <2> QED
    BY <1>11, <2>1, <2>3
<1>17. CASE Sliding!Stats(t) \/ Sliding!Emptied(t) \/ Sliding!Answer(t) \/ Sliding!Mutated(t)
  <2>1. UNCHANGED <<clock, events, recorded>> /\ wPc'[t] \in {"cutoff", "idle"}
    BY <1>1, <1>17 DEF Sliding!Stats, Sliding!Emptied, Sliding!Answer, Sliding!Mutated,
       Sliding!Step, SlidingTyped
  <2>2. Counts(t)'
    BY <2>1 DEF Counts, Busy
  <2> QED
    BY <1>11, <2>1, <2>2
<1> QED
  BY <1>9, <1>10, <1>12, <1>13, <1>14, <1>15, <1>16, <1>17 DEF ThreadStep

LEMMA SlidingNext == SlidingInv /\ [Sliding!Next]_(Sliding!vars) => SlidingInv'
<1> SUFFICES ASSUME SlidingInv, [Sliding!Next]_(Sliding!vars) PROVE SlidingInv'
  OBVIOUS
<1>1. Sliding!TypeOK /\ Stamped /\ Sliding!TypeOK' /\ Stamped'
  BY SlidingTypes DEF SlidingInv
<1>2. CASE UNCHANGED Sliding!vars
  BY <1>1, <1>2 DEF Sliding!vars, SlidingInv, Apart, InStep, Ordered, LatestHeld, Evictions, Counts
<1>3. ASSUME Sliding!Next, ~collided' PROVE Apart' /\ InStep'
  <2>1. ~collided /\ \A u, v \in Threads : u # v => "idle" \in {wPc'[u], wPc'[v]}
    BY <1>3 DEF Sliding!Next
  <2>2. Apart /\ InStep
    BY <2>1 DEF SlidingInv
  <2>3. Apart'
    BY <2>1 DEF Apart
  <2>4. CASE Sliding!Tick
    <3>1. /\ clock \in Nat /\ clock' = clock + 1 /\ Span \in Nat
          /\ UNCHANGED <<events, wPc, time, recorded>>
          /\ \A i \in 1 .. Len(recorded) : recorded[i] \in Nat
          /\ \A u \in Threads : time[u] \in Int
      BY <1>1, <2>4, ClockedAssumption
         DEF Sliding!Tick, Sliding!TypeOK, Sliding!Times, Sliding!WindowAssumption
    <3>2. Len(events) <= Len(recorded) /\ Evictions \in Nat /\ Evictions <= Len(recorded)
      BY <1>1, <2>2 DEF InStep, LatestHeld, Evictions, Sliding!TypeOK
    <3>3. Ordered(recorded)' /\ \A i \in 1 .. Len(recorded') : recorded'[i] <= clock'
      BY <2>2, <3>1 DEF InStep, Ordered
    <3>4. LatestHeld'
      BY <2>2, <3>1, <3>2 DEF InStep, LatestHeld, Evictions
    <3>5. \A u \in Threads : Counts(u)'
      BY <2>2, <3>1, <3>2 DEF InStep, Counts, Evictions
    <3> QED
      BY <2>3, <3>3, <3>4, <3>5 DEF InStep
  <2>5. CASE Sliding!Reset
    <3>1. /\ UNCHANGED <<clock, wPc, time>> /\ events' = <<>> /\ recorded' = <<>>
      BY <2>5 DEF Sliding!Reset, Sliding!Change
    <3>2. Len(events') = 0 /\ Len(recorded') = 0 /\ Evictions' = 0
      BY <3>1 DEF Evictions
    <3>3. InStep'
      BY <2>2, <3>1, <3>2 DEF InStep, Ordered, LatestHeld, Counts
    <3> QED
      BY <2>3, <3>3
  <2>6. ASSUME NEW t \in Threads, ThreadStep(t) PROVE InStep'
    <3>1. /\ \A u \in Threads \ {t} : wPc'[u] = wPc[u]
          /\ wPc[t] # "idle" \/ wPc'[t] # "idle"
      BY <1>1, <2>6 DEF ThreadStep, Sliding!Step, Sliding!Record, Sliding!Join, Sliding!Stats,
         Sliding!Cutoff, Sliding!Test, Sliding!Look, Sliding!PopLeft, Sliding!Emptied,
         Sliding!Iterate, Sliding!Answer, Sliding!Mutated, Sliding!TypeOK
    <3>2. \A u \in Threads \ {t} : wPc[u] = "idle"
      BY <2>2, <2>3, <3>1 DEF Apart
    <3> QED
      BY <1>1, <2>2, <2>6, <3>2, SlidingAlone
  <2> QED
    BY <1>3, <2>3, <2>4, <2>5, <2>6 DEF Sliding!Next, ThreadStep
<1> QED
  BY <1>1, <1>2, <1>3 DEF SlidingInv

(* Whichever threads use a window, one call after the other, stats()       *)
(* counts the events of the window, all of them and no other               *)
(* (window.py:83-86).                                                      *)
THEOREM StatsCountWindow == Sliding!Spec => StatsExact
<1>1. ASSUME SlidingInv, NEW t \in Threads, Sliding!Answer(t), ~collided
      PROVE  \E k \in 0 .. Len(recorded) :
               /\ events = SubSeq(recorded, k + 1, Len(recorded))
               /\ \A i \in 1 .. Len(recorded) : recorded[i] >= time[t] <=> i > k
  <2>1. /\ Sliding!TypeOK /\ InStep /\ Counts(t) /\ wPc[t] = "count"
    BY <1>1 DEF SlidingInv, InStep, Sliding!Answer, Sliding!Step
  <2>2. PICK n, l : n = Len(recorded) /\ l = Len(events)
    OBVIOUS
  <2>3. /\ n \in Nat /\ l \in Nat /\ l <= n /\ Evictions = n - l
        /\ recorded \in Seq(Sliding!Times) /\ events \in Seq(Sliding!Times)
        /\ \A i \in 1 .. n : recorded[i] \in Nat
        /\ time[t] \in Int
    BY <2>1, <2>2, ClockedAssumption
       DEF Sliding!WindowAssumption, Sliding!TypeOK, InStep, LatestHeld, Evictions, Sliding!Times
  <2>4. /\ \A k \in 1 .. l : events[k] = recorded[n - l + k] /\ events[k] >= time[t]
        /\ \A i \in 1 .. n - l : recorded[i] < time[t]
    BY <2>1, <2>2, <2>3 DEF InStep, LatestHeld, Counts, Busy
  <2>5. events = SubSeq(recorded, n - l + 1, n)
    <3>1. n - l + 1 \in 1 .. n + 1 /\ n \in n - l .. Len(recorded)
      BY <2>2, <2>3
    <3> DEFINE s == SubSeq(recorded, n - l + 1, n)
    <3>2. s \in Seq(Sliding!Times) /\ Len(s) = l /\ \A k \in 1 .. l : s[k] = recorded[n - l + k]
      BY <2>2, <2>3
    <3> HIDE DEF s
    <3>3. events = s
      BY <2>2, <2>3, <2>4, <3>2
    <3> QED
      BY <3>3 DEF s
  <2>6. ASSUME NEW i \in 1 .. n PROVE recorded[i] >= time[t] <=> i > n - l
    <3>1. CASE i \in 1 .. n - l
      BY <2>3, <2>4, <3>1
    <3>2. CASE i > n - l
      <4>1. i - (n - l) \in 1 .. l /\ n - l + (i - (n - l)) = i
        BY <2>3, <3>2
      <4> QED
        BY <2>4, <3>2, <4>1
    <3> QED
      BY <2>3, <3>1, <3>2
  <2>7. n - l \in 0 .. n
    BY <2>3
  <2> QED
    BY <2>2, <2>5, <2>6, <2>7
<1>2. SlidingInv /\ [Sliding!Next]_(Sliding!vars) =>
        [\A t \in Threads : Sliding!Answer(t) /\ ~collided =>
           \E k \in 0 .. Len(recorded) :
             /\ events = SubSeq(recorded, k + 1, Len(recorded))
             /\ \A i \in 1 .. Len(recorded) : recorded[i] >= time[t] <=> i > k]_(Sliding!vars)
  BY <1>1
<1>3. SlidingInv /\ [Sliding!Next]_(Sliding!vars) => SlidingInv'
  BY SlidingNext
<1> QED
  BY <1>2, <1>3, SlidingInit, PTL DEF Sliding!Spec, StatsExact, Sliding!StatsExact

-------------------------------------------------------------------------------
(* TimeoutPolicy. *)

(* The proofs of TimeoutPolicyProofs, for the variables of this module ... *)
AlarmProofs == INSTANCE TimeoutPolicyProofs WITH MaxTime <- AlarmTime

(* ... which are about the same specification.                             *)
LEMMA SameAlarm ==
  /\ AlarmProofs!TimeoutAssumption
  /\ Alarm!Init <=> AlarmProofs!Init
  /\ [Alarm!Next]_(Alarm!vars) <=> [AlarmProofs!Next]_(AlarmProofs!vars)
<1>1. AlarmProofs!TimeoutAssumption
  BY ClockedAssumption DEF Alarm!TimeoutAssumption, AlarmProofs!TimeoutAssumption
<1>2. Alarm!Init <=> AlarmProofs!Init
  BY DEF Alarm!Init, AlarmProofs!Init, Alarm!Off, AlarmProofs!Off, Alarm!Original,
     AlarmProofs!Original
<1>3. Alarm!vars = AlarmProofs!vars
  BY DEF Alarm!vars, AlarmProofs!vars
<1>4. Alarm!Next <=> AlarmProofs!Next
  <2> USE DEF Alarm!At, AlarmProofs!At, Alarm!Top, AlarmProofs!Top, Alarm!SetTop,
              AlarmProofs!SetTop, Alarm!Off, AlarmProofs!Off, Alarm!Front, AlarmProofs!Front
  <2>1. Alarm!Alarm <=> AlarmProofs!Alarm
    BY DEF Alarm!Alarm, AlarmProofs!Alarm
  <2>2. Alarm!Tick <=> AlarmProofs!Tick
    BY DEF Alarm!Tick, AlarmProofs!Tick
  <2>3. Alarm!Arm <=> AlarmProofs!Arm
    BY DEF Alarm!Arm, AlarmProofs!Arm
  <2>4. Alarm!Disarm <=> AlarmProofs!Disarm
    BY DEF Alarm!Disarm, AlarmProofs!Disarm
  <2>5. Alarm!Restore <=> AlarmProofs!Restore
    BY DEF Alarm!Restore, AlarmProofs!Restore
  <2>6. Alarm!Decide <=> AlarmProofs!Decide
    BY DEF Alarm!Decide, AlarmProofs!Decide
  <2>7. \A x : Alarm!Install(x) <=> AlarmProofs!Install(x)
    BY DEF Alarm!Install, AlarmProofs!Install
  <2>8. \A x : Alarm!HandlerBack(x) <=> AlarmProofs!HandlerBack(x)
    BY DEF Alarm!HandlerBack, AlarmProofs!HandlerBack
  <2> QED
    BY <2>1, <2>2, <2>3, <2>4, <2>5, <2>6, <2>7, <2>8 DEF Alarm!Next, AlarmProofs!Next
<1> QED
  BY <1>1, <1>2, <1>4 DEF Alarm!vars, AlarmProofs!vars

(* The alarm never hits a process without a handler for it, however deep   *)
(* the calls nest (timeout.py:48-54).                                      *)
THEOREM AlarmIsHandled == Alarm!Spec => []NoStrayAlarm
<1>1. AlarmProofs!Spec => []AlarmProofs!NoStrayAlarm
  BY SameAlarm, AlarmProofs!AlarmIsHandled
<1>2. AlarmProofs!NoStrayAlarm => NoStrayAlarm
  BY DEF AlarmProofs!NoStrayAlarm, NoStrayAlarm, Alarm!NoStrayAlarm, Alarm!Off, AlarmProofs!Off,
     Alarm!Original, AlarmProofs!Original
<1> QED
  BY <1>1, <1>2, SameAlarm, PTL DEF Alarm!Spec, AlarmProofs!Spec

(* Once a call has set the timer, only its own alarm takes it for late     *)
(* (timeout.py:45-53).                                                     *)
THEOREM FlaggedInTurn == Alarm!Spec => FlaggedByOwnAlarm
<1>1. AlarmProofs!Spec => AlarmProofs!FlaggedByOwnAlarm
  BY SameAlarm, AlarmProofs!FlaggedInTurn
<1>2. [AlarmProofs!Alarm => \A d \in DOMAIN calls :
         calls[d].at # "arm" /\ ~calls[d].flagged /\ calls'[d].flagged
           => clock - calls[d].armed >= calls[d].limit]_(AlarmProofs!vars)
      => [Alarm!Alarm => \A d \in DOMAIN calls :
            calls[d].at # "arm" /\ ~calls[d].flagged /\ calls'[d].flagged
              => clock - calls[d].armed >= calls[d].limit]_(Alarm!vars)
  <2>1. Alarm!vars = AlarmProofs!vars
    BY DEF Alarm!vars, AlarmProofs!vars
  <2>2. Alarm!Alarm => AlarmProofs!Alarm
    BY DEF Alarm!Alarm, AlarmProofs!Alarm, Alarm!Off, AlarmProofs!Off
  <2>3. UNCHANGED AlarmProofs!vars => UNCHANGED Alarm!vars
    BY DEF Alarm!vars, AlarmProofs!vars
  <2> QED
    BY <2>1, <2>2, <2>3
<1> QED
  BY <1>1, <1>2, SameAlarm, PTL
     DEF Alarm!Spec, AlarmProofs!Spec, FlaggedByOwnAlarm, Alarm!FlaggedByOwnAlarm,
         AlarmProofs!FlaggedByOwnAlarm

(* A handler that overran its limit is reported as timed out, unless it    *)
(* raised or lost its timer to a call of its own (timeout.py:56-61).       *)
THEOREM LateReported == Alarm!Spec => LateIsNoticed
<1>1. AlarmProofs!Spec => AlarmProofs!LateIsNoticed
  BY SameAlarm, AlarmProofs!LateReported
<1>2. [AlarmProofs!Decide /\ ~AlarmProofs!Top.nested /\ ~AlarmProofs!Top.failed
         /\ AlarmProofs!Top.back - AlarmProofs!Top.armed > AlarmProofs!Top.limit
         => outcome' = "timeout"]_(AlarmProofs!vars)
      => [Alarm!Decide /\ ~Alarm!Top.nested /\ ~Alarm!Top.failed
            /\ Alarm!Top.back - Alarm!Top.armed > Alarm!Top.limit
            => outcome' = "timeout"]_(Alarm!vars)
  <2>1. Alarm!vars = AlarmProofs!vars /\ Alarm!Top = AlarmProofs!Top
    BY DEF Alarm!vars, AlarmProofs!vars, Alarm!Top, AlarmProofs!Top
  <2>2. Alarm!Decide => AlarmProofs!Decide
    BY DEF Alarm!Decide, AlarmProofs!Decide, Alarm!At, AlarmProofs!At, Alarm!Top,
       AlarmProofs!Top, Alarm!Front, AlarmProofs!Front
  <2>3. UNCHANGED AlarmProofs!vars => UNCHANGED Alarm!vars
    BY DEF Alarm!vars, AlarmProofs!vars
  <2> QED
    BY <2>1, <2>2, <2>3
<1> QED
  BY <1>1, <1>2, SameAlarm, PTL
     DEF Alarm!Spec, AlarmProofs!Spec, LateIsNoticed, Alarm!LateIsNoticed, AlarmProofs!LateIsNoticed

-------------------------------------------------------------------------------
(* CircuitBreaker: the theorems of CircuitBreakerProofs. *)

BreakerProofs == INSTANCE CircuitBreakerProofs WITH
  state <- circuit, failures <- failed, since <- openFor, asserted <- stumbled

(* The two instances of CircuitBreaker say the same.                       *)
LEMMA SameBreaker ==
  /\ BreakerProofs!BreakerAssumption
  /\ Breaker!Init <=> BreakerProofs!Init
  /\ Breaker!vars = BreakerProofs!vars
  /\ Breaker!Next <=> BreakerProofs!Next
  /\ \A r : Breaker!RecordFailure(r) <=> BreakerProofs!RecordFailure(r)
<1>1. BreakerProofs!BreakerAssumption
  BY ClockedAssumption DEF Breaker!BreakerAssumption, BreakerProofs!BreakerAssumption
<1>2. Breaker!Init <=> BreakerProofs!Init
  BY DEF Breaker!Init, BreakerProofs!Init, Breaker!Never, BreakerProofs!Never
<1>3. Breaker!vars = BreakerProofs!vars
  BY DEF Breaker!vars, BreakerProofs!vars
<1> USE DEF Breaker!Settled, BreakerProofs!Settled, Breaker!Close, BreakerProofs!Close,
            Breaker!Never, BreakerProofs!Never, Breaker!Capped, BreakerProofs!Capped
<1>4. Breaker!Look <=> BreakerProofs!Look
  BY DEF Breaker!Look, BreakerProofs!Look
<1>5. Breaker!Reset <=> BreakerProofs!Reset
  BY DEF Breaker!Reset, BreakerProofs!Reset
<1>6. Breaker!Tick <=> BreakerProofs!Tick
  BY DEF Breaker!Tick, BreakerProofs!Tick
<1>7. \A r : Breaker!Admit(r) <=> BreakerProofs!Admit(r)
  BY DEF Breaker!Admit, BreakerProofs!Admit
<1>8. \A r : Breaker!Refuse(r) <=> BreakerProofs!Refuse(r)
  BY DEF Breaker!Refuse, BreakerProofs!Refuse
<1>9. \A r : Breaker!RecordSuccess(r) <=> BreakerProofs!RecordSuccess(r)
  BY DEF Breaker!RecordSuccess, BreakerProofs!RecordSuccess
<1>10. \A r : Breaker!RecordFailure(r) <=> BreakerProofs!RecordFailure(r)
  BY DEF Breaker!RecordFailure, BreakerProofs!RecordFailure
<1>11. \A r : Breaker!Abandon(r) <=> BreakerProofs!Abandon(r)
  BY DEF Breaker!Abandon, BreakerProofs!Abandon
<1>12. Breaker!Next <=> BreakerProofs!Next
  BY <1>4, <1>5, <1>6, <1>7, <1>8, <1>9, <1>10, <1>11 DEF Breaker!Next, BreakerProofs!Next
<1> QED
  BY <1>1, <1>2, <1>3, <1>10, <1>12

LEMMA SameBreakerSpec == Breaker!Spec => BreakerProofs!Spec
<1>1. [Breaker!Next]_(Breaker!vars) => [BreakerProofs!Next]_(BreakerProofs!vars)
  BY SameBreaker DEF Breaker!vars, BreakerProofs!vars
<1> QED
  BY <1>1, SameBreaker, PTL DEF Breaker!Spec, BreakerProofs!Spec

(* The fields of the breaker stay in step, and the assertion of check()    *)
(* never fails, whatever is reported and when (circuit_breaker.py:45-79).  *)
THEOREM FieldsStayInStep == Breaker!Spec => []FieldsAgree
<1>1. BreakerProofs!Spec => [](BreakerProofs!TypeOK /\ BreakerProofs!FieldsAgree)
  BY SameBreaker, BreakerProofs!FieldsStayInStep
<1>2. BreakerProofs!FieldsAgree => FieldsAgree
  BY DEF BreakerProofs!FieldsAgree, FieldsAgree, Breaker!FieldsAgree, Breaker!Never,
         BreakerProofs!Never
<1> QED
  BY <1>1, <1>2, SameBreakerSpec, PTL

(* No request passes before recovery_timeout is over                       *)
(* (circuit_breaker.py:48 and 54).                                         *)
THEOREM NothingPassesEarly == Breaker!Spec => ShutUntilRecovery
<1>1. BreakerProofs!Spec => BreakerProofs!ShutUntilRecovery
  BY SameBreaker, BreakerProofs!NothingPassesEarly
<1>2. [\A r \in Requests : r \in inFlight' \ inFlight
         => openFor \in {BreakerProofs!Never, Recovery}]_(BreakerProofs!vars)
      => [\A r \in Requests : r \in inFlight' \ inFlight
            => openFor \in {Breaker!Never, Recovery}]_(Breaker!vars)
  BY DEF Breaker!vars, BreakerProofs!vars, Breaker!Never, BreakerProofs!Never
<1> QED
  BY <1>1, <1>2, SameBreakerSpec, PTL
     DEF ShutUntilRecovery, Breaker!ShutUntilRecovery, BreakerProofs!ShutUntilRecovery

(* One failure while half-open opens the circuit for another full          *)
(* recovery_timeout (circuit_breaker.py:64-67).                            *)
THEOREM ProbesReopen == Breaker!Spec => FailedProbeReopens
<1>1. BreakerProofs!Spec => BreakerProofs!FailedProbeReopens
  BY SameBreaker, BreakerProofs!ProbesReopen
<1>2. [\A r \in Requests : circuit = "HALF_OPEN" /\ BreakerProofs!RecordFailure(r)
         => circuit' = "OPEN" /\ openFor' = 0]_(BreakerProofs!vars)
      => [\A r \in Requests : circuit = "HALF_OPEN" /\ Breaker!RecordFailure(r)
            => circuit' = "OPEN" /\ openFor' = 0]_(Breaker!vars)
  BY SameBreaker DEF Breaker!vars, BreakerProofs!vars
<1> QED
  BY <1>1, <1>2, SameBreakerSpec, PTL
     DEF FailedProbeReopens, Breaker!FailedProbeReopens, BreakerProofs!FailedProbeReopens

-------------------------------------------------------------------------------
(* All of them, as MCClocked runs them. *)

AlarmTyped   == AlarmProofs!TypeOK
BreakerTyped == BreakerProofs!TypeOK /\ BreakerProofs!FieldsAgree

ClockedInv ==
  /\ part = "breaker" => BreakerTyped
  /\ part = "limiter" => LimiterInv
  /\ part = "bucket" => BucketInv
  /\ part = "sliding" => SlidingInv
  /\ part = "alarm" => AlarmTyped

LEMMA ClockedStep == Serial /\ ClockedInv /\ [ClockedNext]_allVars => ClockedInv'
<1> SUFFICES ASSUME Serial, ClockedInv, [ClockedNext]_allVars PROVE ClockedInv'
  OBVIOUS
<1>1. part' = part
  BY DEF ClockedNext, allVars
<1>2. ASSUME part = "limiter" PROVE LimiterInv'
  <2>1. [Limiter!Next]_(Limiter!vars)
    BY <1>2 DEF ClockedNext, allVars, limiterVars, Limiter!vars, Limiter!locals
  <2> QED
    BY <1>2, <2>1, LimiterNext DEF ClockedInv
<1>3. ASSUME part = "bucket" PROVE BucketInv'
  <2>1. [Bucket!Next]_(Bucket!vars)
    BY <1>3 DEF ClockedNext, allVars, bucketVars, Bucket!vars, Bucket!locals
  <2> QED
    BY <1>3, <2>1, BucketNext DEF ClockedInv
<1>4. ASSUME part = "sliding" PROVE SlidingInv'
  <2>1. [Sliding!Next]_(Sliding!vars)
    BY <1>4 DEF ClockedNext, allVars, slidingVars, Sliding!vars
  <2> QED
    BY <1>4, <2>1, SlidingNext DEF ClockedInv
<1>5. ASSUME part = "alarm" PROVE AlarmTyped'
  <2>1. [Alarm!Next]_(Alarm!vars)
    BY <1>5 DEF ClockedNext, allVars, alarmVars, Alarm!vars
  <2>2. AlarmProofs!TypeOK'
    BY <1>5, <2>1, SameAlarm, AlarmProofs!TypeStep DEF ClockedInv, AlarmTyped
  <2> QED
    BY <2>2 DEF AlarmTyped
<1>6. ASSUME part = "breaker" PROVE BreakerTyped'
  <2>1. [BreakerProofs!Next]_(BreakerProofs!vars)
    BY <1>6, SameBreaker DEF ClockedNext, allVars, breakerVars, BreakerProofs!vars
  <2> QED
    BY <1>6, <2>1, SameBreaker, BreakerProofs!InvStep DEF ClockedInv, BreakerTyped, BreakerProofs!Inv
<1> QED
  BY <1>1, <1>2, <1>3, <1>4, <1>5, <1>6 DEF ClockedInv

(* Every variable of these keeps its type (circuit_breaker.py:31-37,       *)
(* ratelimit.py:31-33, throttle.py:30-40, window.py:47-56,                 *)
(* timeout.py:43-49).                                                      *)
THEOREM TypesKept == ASSUME Serial PROVE ClockedSpec => []TypesOK
<1>1. ClockedInit => ClockedInv
  <2> SUFFICES ASSUME ClockedInit PROVE ClockedInv
    OBVIOUS
  <2>1. AlarmProofs!TypeOK
    BY SameAlarm, AlarmProofs!InvInit DEF ClockedInit, AlarmProofs!Inv
  <2>2. BreakerTyped
    BY SameBreaker, BreakerProofs!InvInit DEF ClockedInit, BreakerProofs!Inv, BreakerTyped
  <2> QED
    BY <2>1, <2>2, LimiterInit, BucketInit, SlidingInit DEF ClockedInit, ClockedInv, AlarmTyped
<1>2. ClockedInv /\ [ClockedNext]_allVars => ClockedInv'
  BY ClockedStep
<1>3. ClockedInv => TypesOK
  <2>1. AlarmProofs!TypeOK => Alarm!TypeOK
    BY DEF AlarmProofs!TypeOK, Alarm!TypeOK, AlarmProofs!Times, Alarm!Times, AlarmProofs!Off,
       Alarm!Off,
       AlarmProofs!Original, Alarm!Original, AlarmProofs!Frames, Alarm!Frames,
       AlarmProofs!Places, Alarm!Places
  <2>2. BreakerTyped => Breaker!TypeOK
    BY DEF BreakerTyped, BreakerProofs!TypeOK, Breaker!TypeOK, BreakerProofs!States, Breaker!States,
       BreakerProofs!Never, Breaker!Never
  <2> QED
    BY <2>1, <2>2 DEF ClockedInv, TypesOK, AlarmTyped, LimiterInv, BucketInv, SlidingInv
<1> QED
  BY <1>1, <1>2, <1>3, PTL DEF ClockedSpec

===============================================================================
