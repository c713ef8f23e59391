------------------------------ MODULE RateLimiter ------------------------------
(***************************************************************************)
(* class RateLimiter of retryq/ratelimit.py: a log of the times at which   *)
(* slots were taken in the last window.  Every method reads the clock and  *)
(* drops what has expired by building a new list and storing it; acquire() *)
(* then compares its length with the limit and appends.  Threads           *)
(* interleave between those accesses.  is_allowed() and remaining() called *)
(* by themselves are the same here: they evict and answer.                 *)
(*                                                                         *)
(* The callers pass no time of their own (now is None), as the runner      *)
(* does.                                                                   *)
(***************************************************************************)
EXTENDS Integers, Sequences, FiniteSets

CONSTANTS
  Threads,
  Limit,        \* _limit
  Window,       \* _window, in ticks
  MaxTime       \* bound: the last tick of the clock

LimiterAssumption ==
  /\ Limit \in Nat \ {0}
  /\ Window \in Nat \ {0}
  /\ MaxTime \in Nat

VARIABLES
  clock,        \* time.monotonic()
  timestamps,   \* _timestamps
  pc,           \* pc[t]: the access thread t makes next
  asking,       \* asking[t]: t is in acquire()
  now,          \* now[t]: the time t has read
  kept,         \* kept[t]: the list t has built and not stored yet
  grants        \* history: the times of the slots granted since reset()

locals == <<pc, asking, now, kept>>
vars   == <<clock, timestamps, locals, grants>>

Times  == 0 .. MaxTime
Places == {"idle", "evict", "store", "count", "append"}

Init ==
  /\ clock = 0
  /\ timestamps = <<>>
  /\ pc = [t \in Threads |-> "idle"]
  /\ asking = [t \in Threads |-> FALSE]
  /\ now = [t \in Threads |-> 0]
  /\ kept = [t \in Threads |-> <<>>]
  /\ grants = <<>>

Step(t, from, to) == pc[t] = from /\ pc' = [pc EXCEPT ![t] = to]

-------------------------------------------------------------------------------

Tick ==
  /\ clock < MaxTime
  /\ clock' = clock + 1
  /\ UNCHANGED <<timestamps, locals, grants>>

\* acquire() if asked for a slot, otherwise is_allowed() or remaining().
Call(t, ask) ==
  /\ Step(t, "idle", "evict")
  /\ asking' = [asking EXCEPT ![t] = ask]
  /\ now' = [now EXCEPT ![t] = clock]
  /\ UNCHANGED <<clock, timestamps, kept, grants>>

\* The time stamps at the given positions, in their order.
Chosen(positions) ==
  LET before(i) == {k \in positions : k < i}
  IN  [n \in 1 .. Cardinality(positions) |->
         timestamps[CHOOSE i \in positions : Cardinality(before(i)) = n - 1]]

\* The time stamps a call at time n keeps.
Kept_Closed(n) == Chosen({i \in DOMAIN timestamps : timestamps[i] >= n - Window})
Kept_Late(n)   == Chosen({i \in DOMAIN timestamps : timestamps[i] > n - Window + 1})
Kept(n)        == Chosen({i \in DOMAIN timestamps : timestamps[i] > n - Window})

\* _evict_expired(): build the list ...
Evict(t) ==
  /\ Step(t, "evict", "store")
  /\ kept' = [kept EXCEPT ![t] = Kept(now[t])]
  /\ UNCHANGED <<clock, timestamps, asking, now, grants>>

\* ... and store it.
Store(t) ==
  /\ Step(t, "store", IF asking[t] THEN "count" ELSE "idle")
  /\ timestamps' = kept[t]
  /\ kept' = [kept EXCEPT ![t] = <<>>]
  /\ UNCHANGED <<clock, asking, now, grants>>

HasSlot == Len(timestamps) < Limit

Allow(t) ==
  /\ HasSlot
  /\ Step(t, "count", "append")
  /\ UNCHANGED <<clock, timestamps, asking, now, kept, grants>>

\* RateLimitExceeded
Refuse(t) ==
  /\ ~HasSlot
  /\ Step(t, "count", "idle")
  /\ UNCHANGED <<clock, timestamps, asking, now, kept, grants>>

Grant(t) ==
  /\ Step(t, "append", "idle")
  /\ timestamps' = Append(timestamps, now[t])
  /\ grants' = Append(grants, now[t])
  /\ UNCHANGED <<clock, asking, now, kept>>

\* reset() empties the list; one that another thread has built is stored later.
Reset(t) ==
  /\ pc[t] = "idle"
  /\ timestamps' = <<>>
  /\ grants' = <<>>
  /\ UNCHANGED <<clock, locals>>

Next ==
  \/ Tick
  \/ \E t \in Threads :
       \/ \E ask \in BOOLEAN : Call(t, ask)
       \/ Reset(t) \/ Evict(t) \/ Store(t) \/ Allow(t) \/ Refuse(t) \/ Grant(t)

Spec == Init /\ [][Next]_vars

-------------------------------------------------------------------------------

(* What each variable holds (ratelimit.py:26-33).  A list of time stamps   *)
(* never has more than Limit entries.                                      *)
TypeOK ==
  /\ clock \in Times
  /\ timestamps \in Seq(Times) /\ Len(timestamps) <= Limit
  /\ pc \in [Threads -> Places]
  /\ asking \in [Threads -> BOOLEAN]
  /\ now \in [Threads -> Times]
  /\ kept \in [Threads -> Seq(Times)]
  /\ grants \in Seq(Times)

(* ratelimit.py:22 promises at most `limit` operations per window: of any  *)
(* Limit + 1 slots granted in a row, the last comes a full window after    *)
(* the first, wherever the window is laid and however often the limiter is *)
(* asked in between.                                                       *)
LimitHeld == \A i \in 1 .. Len(grants) - Limit : grants[i + Limit] - grants[i] >= Window

(* A slot is refused only if Limit slots were granted within the window    *)
(* that ends now: eviction forgets nothing too late (ratelimit.py:44-45    *)
(* and 58).                                                                *)
RefusesOnlyWhenFull ==
  [][\A t \in Threads :
       Refuse(t) => Cardinality({i \in 1 .. Len(grants) : grants[i] > now[t] - Window}) >= Limit]_vars

===============================================================================
