----------------------------- MODULE SlidingWindow -----------------------------
(***************************************************************************)
(* class SlidingWindow of retryq/window.py: a deque of events, the oldest  *)
(* first.  record() appends one and stats() counts them, each after        *)
(* dropping from the front what is older than the window.  record() reads  *)
(* the clock twice: for the stamp of its event, and for the eviction.      *)
(*                                                                         *)
(* Threads interleave between the accesses to the deque.  A race there may *)
(* end a call in an exception: IndexError from a deque that another thread *)
(* emptied, RuntimeError from one that changed while stats() iterated.     *)
(* An event is its time stamp here; success or failure is left out.        *)
(***************************************************************************)
EXTENDS Integers, Sequences

CONSTANTS
  Threads,
  Window,       \* _window, in ticks
  MaxEvents,    \* bound: how many events are recorded between two resets
  MaxTime       \* bound: the last tick of the clock

WindowAssumption ==
  /\ Window \in Nat \ {0}       \* WindowError for others
  /\ MaxEvents \in Nat /\ MaxTime \in Nat

VARIABLES
  clock,        \* _clock()
  events,       \* _events
  pc,           \* pc[t]: the access thread t makes next
  asking,       \* the threads in stats()
  time,         \* time[t]: the stamp of t's event, then the cutoff of its eviction
  intact,       \* the threads that iterate over the deque as they found it
  recorded,     \* history: every event recorded since reset()
  overlapped    \* history: two calls have been under way at once

vars == <<clock, events, pc, asking, time, intact, recorded, overlapped>>

Times  == 0 .. MaxTime
Places == {"idle", "append", "cutoff", "test", "head", "pop", "iterate", "count"}

Init ==
  /\ clock = 0
  /\ events = <<>>
  /\ pc = [t \in Threads |-> "idle"]
  /\ asking = {}
  /\ time = [t \in Threads |-> 0]
  /\ intact = {}
  /\ recorded = <<>>
  /\ overlapped = FALSE

Step(t, from, to) == pc[t] = from /\ pc' = [pc EXCEPT ![t] = to]

\* An access that changes the deque invalidates the iterators over it.
Change(new) == events' = new /\ intact' = {}

\* Where a thread goes from its eviction.
AfterEvict(t) == IF t \in asking THEN "iterate" ELSE "idle"

-------------------------------------------------------------------------------

Tick ==
  /\ clock < MaxTime
  /\ clock' = clock + 1
  /\ UNCHANGED <<events, pc, asking, time, intact, recorded>>

\* record(): the event is made, not yet appended.
Record(t) ==
  /\ Len(recorded) < MaxEvents
  /\ Step(t, "idle", "append")
  /\ asking' = asking \ {t}
  /\ time' = [time EXCEPT ![t] = clock]
  /\ UNCHANGED <<clock, events, intact, recorded>>

Join(t) ==
  /\ Step(t, "append", "cutoff")
  /\ Change(Append(events, time[t]))
  /\ recorded' = Append(recorded, time[t])
  /\ UNCHANGED <<clock, asking, time>>

Stats(t) ==
  /\ Step(t, "idle", "cutoff")
  /\ asking' = asking \cup {t}
  /\ UNCHANGED <<clock, events, time, intact, recorded>>

\* cutoff = self._clock() - self._window
Cutoff(t) ==
  /\ Step(t, "cutoff", "test")
  /\ time' = [time EXCEPT ![t] = clock - Window]
  /\ UNCHANGED <<clock, events, asking, intact, recorded>>

\* while self._events
Test(t) ==
  /\ Step(t, "test", IF events # <<>> THEN "head" ELSE AfterEvict(t))
  /\ UNCHANGED <<clock, events, asking, time, intact, recorded>>

Stale_Closed(t) == Head(events) <= time[t]
Stale(t) == Head(events) < time[t]

\* and self._events[0].ts < cutoff
Look(t) ==
  /\ events # <<>>
  /\ Step(t, "head", IF Stale(t) THEN "pop" ELSE AfterEvict(t))
  /\ UNCHANGED <<clock, events, asking, time, intact, recorded>>

PopLeft(t) ==
  /\ events # <<>>
  /\ Step(t, "pop", "test")
  /\ Change(Tail(events))
  /\ UNCHANGED <<clock, asking, time, recorded>>

\* IndexError: the deque was emptied after the test.
Emptied(t) ==
  /\ events = <<>>
  /\ Step(t, "head", "idle") \/ Step(t, "pop", "idle")
  /\ UNCHANGED <<clock, events, asking, time, intact, recorded>>

\* for ev in self._events
Iterate(t) ==
  /\ Step(t, "iterate", "count")
  /\ intact' = intact \cup {t}
  /\ UNCHANGED <<clock, events, asking, time, recorded>>

Answer(t) ==
  /\ t \in intact
  /\ Step(t, "count", "idle")
  /\ UNCHANGED <<clock, events, asking, time, intact, recorded>>

\* RuntimeError: deque mutated during iteration.
Mutated(t) ==
  /\ t \notin intact
  /\ Step(t, "count", "idle")
  /\ UNCHANGED <<clock, events, asking, time, intact, recorded>>

Reset ==
  /\ events # <<>>
  /\ Change(<<>>)
  /\ recorded' = <<>>
  /\ UNCHANGED <<clock, pc, asking, time>>

Next ==
  /\ \/ Tick \/ Reset
     \/ \E t \in Threads :
          \/ Record(t) \/ Join(t) \/ Stats(t) \/ Cutoff(t) \/ Test(t) \/ Look(t) \/ PopLeft(t)
          \/ Emptied(t) \/ Iterate(t) \/ Answer(t) \/ Mutated(t)
  /\ overlapped' = (overlapped \/ \E t, u \in Threads : t # u /\ "idle" \notin {pc'[t], pc'[u]})

Spec == Init /\ [][Next]_vars

-------------------------------------------------------------------------------

(* What each variable holds (window.py:47-56). *)
TypeOK ==
  /\ clock \in Times
  /\ events \in Seq(Times) /\ recorded \in Seq(Times)
  /\ pc \in [Threads -> Places]
  /\ asking \subseteq Threads /\ intact \subseteq Threads
  /\ time \in [Threads -> -Window .. MaxTime]
  /\ overlapped \in BOOLEAN

(* As long as no two calls overlap, whichever threads make them, stats()   *)
(* counts every event recorded since reset() that is not older than the    *)
(* window, and no other: the lazy eviction from the front (window.py:83-86) *)
(* has taken out neither more nor less.                                    *)
StatsExact ==
  [][\A t \in Threads : Answer(t) /\ ~overlapped =>
       \E k \in 0 .. Len(recorded) :
         /\ events = SubSeq(recorded, k + 1, Len(recorded))
         /\ \A i \in 1 .. Len(recorded) : recorded[i] >= time[t] <=> i > k]_vars

===============================================================================
