------------------------------ MODULE TokenBucket ------------------------------
(***************************************************************************)
(* class TokenBucket of retryq/throttle.py: tokens flow in with time, up   *)
(* to a capacity, and consume() takes some out or raises ThrottleExceeded. *)
(* Threads interleave between the accesses to _tokens and _last_refill;    *)
(* `-=` and the refill are a read and a later write.                       *)
(*                                                                         *)
(* Tokens are counted in integer units, Rate of which flow in per tick;    *)
(* the code has floats and no rounding but theirs.                         *)
(***************************************************************************)
EXTENDS Integers, Sequences

CONSTANTS
  Threads,
  Capacity,     \* capacity, in units
  Rate,         \* refill_rate, in units per tick
  Requests,     \* the amounts callers ask for
  MaxTime       \* bound: the last tick of the clock

BucketAssumption ==
  /\ Capacity \in Nat \ {0}
  /\ Rate \in Nat \ {0}
  /\ Requests \subseteq Nat \ {0}     \* consume() raises ValueError for others
  /\ MaxTime \in Nat

VARIABLES
  clock,        \* _clock()
  tokens,       \* _tokens
  lastRefill,   \* _last_refill
  pc,           \* pc[t]: the access thread t makes next
  asked,        \* asked[t]: the tokens t wants; 0: it reads `available`
  now,          \* now[t]: the time t has read
  sum,          \* sum[t]: the new value of _tokens t has computed
  taken         \* history: the withdrawals, each with its time and amount, and the
                \* amount of all withdrawals up to it

locals == <<pc, asked, now, sum>>
vars   == <<clock, tokens, lastRefill, locals, taken>>

Times  == 0 .. MaxTime
Places == {"idle", "elapse", "refill", "stamp", "compare", "take", "write"}

AtMost(a, b) == IF a < b THEN a ELSE b

Init ==
  /\ clock = 0
  /\ tokens = Capacity
  /\ lastRefill = 0
  /\ pc = [t \in Threads |-> "idle"]
  /\ asked = [t \in Threads |-> 0]
  /\ now = [t \in Threads |-> 0]
  /\ sum = [t \in Threads |-> 0]
  /\ taken = <<>>

Step(t, from, to) == pc[t] = from /\ pc' = [pc EXCEPT ![t] = to]

-------------------------------------------------------------------------------

Tick ==
  /\ clock < MaxTime
  /\ clock' = clock + 1
  /\ UNCHANGED <<tokens, lastRefill, locals, taken>>

\* consume(n), try_consume(n), or available (n = 0): now = self._clock()
Call(t, n) ==
  /\ Step(t, "idle", "elapse")
  /\ asked' = [asked EXCEPT ![t] = n]
  /\ now' = [now EXCEPT ![t] = clock]
  /\ UNCHANGED <<clock, tokens, lastRefill, sum, taken>>

\* The new level: min(capacity, _tokens + elapsed * refill_rate)
Refilled(n) == AtMost(Capacity, tokens + (n - lastRefill) * Rate)

Elapse(t) ==
  /\ Step(t, "elapse", "refill")
  /\ sum' = [sum EXCEPT ![t] = Refilled(now[t])]
  /\ UNCHANGED <<clock, tokens, lastRefill, asked, now, taken>>

Refill(t) ==
  /\ Step(t, "refill", "stamp")
  /\ tokens' = sum[t]
  /\ UNCHANGED <<clock, lastRefill, asked, now, sum, taken>>

\* self._last_refill = now
Stamp_Missing(t) ==
  /\ Step(t, "stamp", IF asked[t] = 0 THEN "idle" ELSE "compare")
  /\ UNCHANGED <<clock, tokens, lastRefill, asked, now, sum, taken>>
Stamp(t) ==
  /\ Step(t, "stamp", IF asked[t] = 0 THEN "idle" ELSE "compare")
  /\ lastRefill' = now[t]
  /\ UNCHANGED <<clock, tokens, asked, now, sum, taken>>

Enough_Strictly(n) == tokens > n
Enough(n) == tokens >= n

Accept(t) ==
  /\ Enough(asked[t])
  /\ Step(t, "compare", "take")
  /\ UNCHANGED <<clock, tokens, lastRefill, asked, now, sum, taken>>

\* ThrottleExceeded; try_consume() returns False.
Reject(t) ==
  /\ ~Enough(asked[t])
  /\ Step(t, "compare", "idle")
  /\ UNCHANGED <<clock, tokens, lastRefill, asked, now, sum, taken>>

\* self._tokens -= tokens
Take(t) ==
  /\ Step(t, "take", "write")
  /\ sum' = [sum EXCEPT ![t] = tokens - asked[t]]
  /\ UNCHANGED <<clock, tokens, lastRefill, asked, now, taken>>

\* What all withdrawals have taken out.
Total == IF taken = <<>> THEN 0 ELSE taken[Len(taken)].total

Write(t) ==
  /\ Step(t, "write", "idle")
  /\ tokens' = sum[t]
  /\ taken' = Append(taken, [at |-> now[t], units |-> asked[t], total |-> Total + asked[t]])
  /\ UNCHANGED <<clock, lastRefill, asked, now, sum>>

Next ==
  \/ Tick
  \/ \E t \in Threads :
       \/ \E n \in Requests \cup {0} : Call(t, n)
       \/ Elapse(t) \/ Refill(t) \/ Stamp(t) \/ Accept(t) \/ Reject(t) \/ Take(t) \/ Write(t)

Spec == Init /\ [][Next]_vars

-------------------------------------------------------------------------------

(* What each variable holds; the bucket never holds more than its capacity *)
(* or less than nothing (throttle.py:28-40).                               *)
TypeOK ==
  /\ clock \in Times /\ lastRefill \in Times
  /\ tokens \in 0 .. Capacity
  /\ pc \in [Threads -> Places]
  /\ asked \in [Threads -> Requests \cup {0}]
  /\ now \in [Threads -> Times]
  /\ sum \in [Threads -> Int]
  /\ taken \in Seq([at : Times, units : Requests, total : Nat])

\* What was taken out by the withdrawals numbered i to j.
Taken(i, j) == taken[j].total - taken[i].total + taken[i].units

(* The throttle: over any stretch of time no more is taken out than the    *)
(* capacity and what flows in meanwhile (throttle.py:42-60).               *)
ThrottleHeld ==
  \A i, j \in 1 .. Len(taken) :
    i <= j => Taken(i, j) <= Capacity + Rate * (taken[j].at - taken[i].at)

(* A request is turned away only if granting it would break the throttle   *)
(* over some stretch of time up to now: the bucket loses no token that it  *)
(* has room for (throttle.py:45 and 58).                                   *)
RejectsOnlyWhenShort ==
  [][\A t \in Threads : Reject(t) =>
       \/ asked[t] > Capacity
       \/ \E i \in 1 .. Len(taken) :
            Taken(i, Len(taken)) + asked[t] > Capacity + Rate * (now[t] - taken[i].at)]_vars

===============================================================================
