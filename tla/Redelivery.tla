------------------------------ MODULE Redelivery ------------------------------
(***************************************************************************)
(* The way back into a queue for messages that were given up: after a      *)
(* delay, by RetryScheduler (retryq/scheduler.py), or at once, by          *)
(* MessageReplayer (retryq/replay.py).  Threads schedule, flush and replay *)
(* while somebody processes the queue.                                     *)
(*                                                                         *)
(* An action is what a thread does between two accesses to the list        *)
(* _scheduled or to the queue.  RetryQueue takes whatever it is given for  *)
(* the payload of a new RetryMessage; here a message is the same in all    *)
(* its wrappings.  process_next() is one step (module RetryQueue takes it  *)
(* apart).                                                                 *)
(*                                                                         *)
(* The caller keeps the dead letters, does one thing at a time with each,  *)
(* and gives it the field `attempts` that the scheduler reads and          *)
(* RetryMessage does not have.  A replay may raise at each message: the    *)
(* predicate is the caller's, and with reset_attempts RetryMessage(id=...) *)
(* is a TypeError.                                                         *)
(***************************************************************************)
EXTENDS Integers, FiniteSets, SequencesExt

CONSTANTS
  Threads,            \* those that call flush_due()
  Replayers,          \* those of them that also call replay()
  Msgs,
  MaxAttempts,        \* max_attempts of each message in the queue; no range is checked
  Strategies,         \* the backoff strategies looked at
  Base, Multiplier, MaxDelay,   \* their parameters, in ticks
  MaxTime,            \* bound: the last tick of the clock
  MaxSchedules,       \* bound: how often schedule() is called
  MaxReplays          \* bound: how often replay() is called

RedeliveryAssumption ==
  /\ Replayers \subseteq Threads /\ IsFiniteSet(Msgs)
  /\ MaxAttempts \in [Msgs -> Int]
  /\ Strategies \subseteq {"constant", "linear", "exponential", "jittered"}
  /\ Base \in Nat /\ Multiplier \in Nat \ {0, 1} /\ MaxDelay \in Nat
  /\ MaxTime \in Nat /\ MaxSchedules \in Nat /\ MaxReplays \in Nat

VARIABLES
  strategy,     \* the strategy of this behaviour
  clock,        \* _clock()
  scheduled,    \* _scheduled
  queue,        \* the target's _queue: each message with its failed attempts
  dead,         \* the dead letters in the caller's hands
  tries,        \* tries[m]: message.attempts, how often m has failed
  call,         \* call[t]: the call of thread t, its place and its local variables
  made,         \* history: how many entries schedule() has made
  replays,      \* history: how many replays have begun
  joins,        \* history: how often m has joined the queue
  done,         \* history: the messages handled successfully
  doubtful      \* history: the messages enqueued by a replay that then raised

list    == <<scheduled, made>>
target  == <<queue, joins>>
letters == <<dead, tries, done, doubtful, replays>>
vars    == <<strategy, clock, list, target, letters, call>>

Idle == [at |-> "idle"]

Init ==
  /\ strategy \in Strategies
  /\ clock = 0
  /\ scheduled = <<>> /\ made = 0
  /\ queue = <<>> /\ joins = [m \in Msgs |-> 0]
  /\ dead = Msgs /\ tries = [m \in Msgs |-> 0]
  /\ done = {} /\ doubtful = {} /\ replays = 0
  /\ call = [t \in Threads |-> Idle]

At(t, place) == call[t].at = place
Goto(t, c)   == call' = [call EXCEPT ![t] = c]

AtMost(a, b) == IF a < b THEN a ELSE b

\* The exhausted property of message m after n failed attempts.
Spent_OffByOne(m, n) == n > MaxAttempts[m]
Spent(m, n) == n >= MaxAttempts[m]

-------------------------------------------------------------------------------

Tick ==
  /\ clock < MaxTime
  /\ clock' = clock + 1
  /\ UNCHANGED <<strategy, list, target, letters, call>>

(* The target queue *)

\* enqueue(m), in a new RetryMessage.
Enqueue(m) ==
  /\ queue' = Append(queue, [msg |-> m, attempt |-> 0])
  /\ joins' = [joins EXCEPT ![m] = @ + 1]

\* process_next() of a message with an attempt left.
Handles == queue # <<>> /\ ~Spent(Head(queue).msg, Head(queue).attempt)

\* The handler returns.
Succeed ==
  /\ Handles
  /\ queue' = Tail(queue)
  /\ done' = done \cup {Head(queue).msg}
  /\ UNCHANGED <<strategy, clock, list, joins, dead, tries, doubtful, replays, call>>

\* It raises; on_exhausted() gives the message back to the caller.
Fail ==
  /\ Handles
  /\ LET m == Head(queue).msg
         n == Head(queue).attempt + 1 IN
       /\ tries' = [tries EXCEPT ![m] = @ + 1]
       /\ \/ Spent(m, n) /\ queue' = Tail(queue) /\ dead' = dead \cup {m}
          \/ /\ ~Spent(m, n)
             /\ queue' = Append(Tail(queue), [msg |-> m, attempt |-> n])
             /\ UNCHANGED dead
  /\ UNCHANGED <<strategy, clock, list, joins, done, doubtful, replays, call>>

\* A message without attempts is given up unhandled.
GiveUp ==
  /\ queue # <<>> /\ ~Handles
  /\ queue' = Tail(queue)
  /\ dead' = dead \cup {Head(queue).msg}
  /\ UNCHANGED <<strategy, clock, list, joins, tries, done, doubtful, replays, call>>

-------------------------------------------------------------------------------

(* RetryScheduler *)

\* What get_delay(n) may return.
Delays(n) ==
  LET grown == AtMost((Base * Multiplier ^ n) \div Multiplier, MaxDelay) IN
  CASE strategy = "constant"    -> {Base}
    [] strategy = "linear"      -> {AtMost(Base * n, MaxDelay)}
    [] strategy = "exponential" -> {grown}
    [] strategy = "jittered"    -> 0 .. grown

\* schedule(m); its one access to the list is the append.
Schedule(m) ==
  /\ m \in dead /\ made < MaxSchedules
  /\ \E d \in Delays(tries[m]) \cap (0 .. MaxTime - clock) :
       scheduled' = Append(scheduled, [id |-> made + 1, msg |-> m, retryAt |-> clock + d])
  /\ dead' = dead \ {m}
  /\ made' = made + 1
  /\ UNCHANGED <<strategy, clock, target, tries, done, doubtful, replays, call>>

\* flush_due(): now = self._clock()
FlushDue(t) ==
  /\ At(t, "idle")
  /\ Goto(t, [at |-> "scan", now |-> clock, i |-> 1, due |-> <<>>])
  /\ UNCHANGED <<strategy, clock, list, target, letters>>

IsDue_Exactly(e, now) == now = e.retryAt
IsDue_Rounded(e, now) == now + 1 >= e.retryAt
IsDue(e, now) == now >= e.retryAt

\* The loop over what is left of `due`.
Loop(due) == IF due = <<>> THEN Idle ELSE [at |-> "remove", due |-> due]

\* The comprehension, an index that runs along the live list.
Scan(t) ==
  /\ At(t, "scan")
  /\ LET i == call[t].i
         due == call[t].due IN
       \/ /\ i <= Len(scheduled)
          /\ Goto(t, [call[t] EXCEPT !.i = i + 1,
               !.due = IF IsDue(scheduled[i], call[t].now) THEN Append(due, scheduled[i]) ELSE due])
       \/ i > Len(scheduled) /\ Goto(t, Loop(due))
  /\ UNCHANGED <<strategy, clock, list, target, letters>>

\* self._scheduled.remove(entry), of that very object.
TakeOut_Quietly(t) ==
  /\ At(t, "remove")
  /\ scheduled' = SelectSeq(scheduled, LAMBDA e : e # Head(call[t].due))
  /\ Goto(t, [at |-> "enqueue", entry |-> Head(call[t].due), due |-> Tail(call[t].due)])
  /\ UNCHANGED <<strategy, clock, made, target, letters>>
TakeOut(t) ==
  /\ At(t, "remove")
  /\ \E i \in 1 .. Len(scheduled) :
       scheduled[i] = Head(call[t].due) /\ scheduled' = RemoveAt(scheduled, i)
  /\ Goto(t, [at |-> "enqueue", entry |-> Head(call[t].due), due |-> Tail(call[t].due)])
  /\ UNCHANGED <<strategy, clock, made, target, letters>>

\* Another flush was faster: ValueError leaves flush_due(), the rest stays scheduled.
TakenOut(t) ==
  /\ At(t, "remove")
  /\ ~Contains(scheduled, Head(call[t].due))
  /\ Goto(t, Idle)
  /\ UNCHANGED <<strategy, clock, list, target, letters>>

EnqueueEntry(t) ==
  /\ At(t, "enqueue")
  /\ Enqueue(call[t].entry.msg)
  /\ Goto(t, Loop(call[t].due))
  /\ UNCHANGED <<strategy, clock, list, letters>>

-------------------------------------------------------------------------------

(* MessageReplayer *)

\* replay(messages): the caller hands over its dead letters.
Replay(t) ==
  /\ At(t, "idle") /\ dead # {} /\ replays < MaxReplays
  /\ \E messages \in SetToSeqs(dead) :
       Goto(t, [at |-> "replay", todo |-> messages, all |-> dead, sent |-> {}])
  /\ dead' = {}
  /\ replays' = replays + 1
  /\ UNCHANGED <<strategy, clock, list, target, tries, done, doubtful>>

\* The predicate lets the next message through.
ReplayMessage(t) ==
  /\ At(t, "replay") /\ call[t].todo # <<>>
  /\ Enqueue(Head(call[t].todo))
  /\ Goto(t, [call[t] EXCEPT !.todo = Tail(@), !.sent = @ \cup {Head(call[t].todo)}])
  /\ UNCHANGED <<strategy, clock, list, letters>>

\* It does not, or what comes next is no RetryMessage.
SkipMessage(t) ==
  /\ At(t, "replay") /\ call[t].todo # <<>>
  /\ Goto(t, [call[t] EXCEPT !.todo = Tail(@)])
  /\ UNCHANGED <<strategy, clock, list, target, letters>>

\* The ReplayResult tells how it went: the caller keeps what was skipped.
ReplayEnds(t) ==
  /\ At(t, "replay") /\ call[t].todo = <<>>
  /\ dead' = dead \cup (call[t].all \ call[t].sent)
  /\ Goto(t, Idle)
  /\ UNCHANGED <<strategy, clock, list, target, tries, done, doubtful, replays>>

\* An exception: there is no ReplayResult, and the caller keeps them all.
ReplayRaises(t) ==
  /\ At(t, "replay") /\ call[t].todo # <<>>
  /\ dead' = dead \cup call[t].all
  /\ doubtful' = doubtful \cup call[t].sent
  /\ Goto(t, Idle)
  /\ UNCHANGED <<strategy, clock, list, target, tries, done, replays>>

Flush(t) == FlushDue(t) \/ Scan(t) \/ TakeOut(t) \/ TakenOut(t) \/ EnqueueEntry(t)

Handle(t) == ReplayMessage(t) \/ SkipMessage(t) \/ ReplayEnds(t) \/ ReplayRaises(t)

Next ==
  \/ Tick \/ Succeed \/ Fail \/ GiveUp
  \/ \E m \in Msgs : Schedule(m)
  \/ \E t \in Replayers : Replay(t)
  \/ \E t \in Threads : Flush(t) \/ Handle(t)

Spec == Init /\ [][Next]_vars

\* Time passes, calls in progress go on, and threads keep calling flush_due().
FairSpec == Spec /\ WF_vars(Tick) /\ \A t \in Threads : WF_vars(Flush(t) \/ Handle(t))

-------------------------------------------------------------------------------

(* What each variable holds (scheduler.py:12-14, 32-37, queue.py:12-20). *)
TypeOK ==
  LET Entry == [id : 1 .. made, msg : Msgs, retryAt : 0 .. MaxTime] IN
  /\ strategy \in Strategies /\ clock \in 0 .. MaxTime
  /\ scheduled \in Seq(Entry) /\ made \in 0 .. MaxSchedules
  /\ queue \in Seq([msg : Msgs, attempt : Nat])
  /\ dead \subseteq Msgs /\ done \subseteq Msgs /\ doubtful \subseteq Msgs
  /\ tries \in [Msgs -> Nat] /\ joins \in [Msgs -> Nat] /\ replays \in 0 .. MaxReplays
  /\ \A t \in Threads :
       /\ call[t].at \in {"idle", "scan", "remove", "enqueue", "replay"}
       /\ call[t].at = "enqueue" => call[t].entry \in Entry
       /\ call[t].at \in {"scan", "remove", "enqueue"} => call[t].due \in Seq(Entry)
       /\ call[t].at = "replay" => call[t].todo \in Seq(Msgs) /\ call[t].sent \subseteq call[t].all

\* How often message m is about: scheduled, on its way into the queue, in it,
\* with the caller, or handled.
Presence(m) ==
  LET InList   == {i \in DOMAIN scheduled : scheduled[i].msg = m}
      InQueue  == {i \in DOMAIN queue : queue[i].msg = m}
      InTransit == {t \in Threads :
                      \/ call[t].at = "enqueue" /\ call[t].entry.msg = m
                      \/ call[t].at = "replay" /\ m \in call[t].all \ call[t].sent}
  IN  Cardinality(InList) + Cardinality(InQueue) + Cardinality(InTransit)
        + Cardinality({m} \cap dead) + Cardinality({m} \cap done)

(* However flushes, replays and scheduling overlap, no message is lost,    *)
(* and none is about twice unless a replay that enqueued it raised: of two *)
(* flushes that found the same entry due, the ValueError of list.remove()  *)
(* (scheduler.py:52) stops the second before it enqueues the message again. *)
OneCopy ==
  \A m \in Msgs : Presence(m) >= 1 /\ (m \notin doubtful => Presence(m) = 1)

(* An entry is not enqueued before its time, even by a flush that read the *)
(* clock long ago, or that was made while it scanned (scheduler.py:49-53). *)
NotEarly == \A t \in Threads : At(t, "enqueue") => clock >= call[t].entry.retryAt

(* The tries a message has had, and those still ahead of its wrappings in  *)
(* the queue, are no more than max_attempts for each time it joined the    *)
(* queue, whoever sent it back, and however often (queue.py:46-50 and      *)
(* 76-83).                                                                 *)
AttemptsBounded ==
  \A m \in Msgs :
    LET budget == IF MaxAttempts[m] > 0 THEN MaxAttempts[m] ELSE 0
        ahead  == {p \in (DOMAIN queue) \X (1 .. budget) :
                     queue[p[1]].msg = m /\ p[2] > queue[p[1]].attempt}
    IN  tries[m] + Cardinality(ahead) <= budget * joins[m]

(* tests/test_replay.py:64 (test_no_reset_preserves_attempts): a message   *)
(* that is replayed with reset_attempts=False keeps its attempts.  It is   *)
(* queue.py:46-50 that decides: enqueue() wraps what it is given in a new  *)
(* RetryMessage.                                                           *)
AttemptsPreserved ==
  [][\A t \in Threads : ReplayMessage(t) =>
       Last(queue').attempt = tries[Head(call[t].todo)]]_vars

(* An entry that is scheduled is enqueued in the end: the ValueError of    *)
(* one flush leaves the rest to a later one (scheduler.py:47-54).          *)
EventuallyQueued ==
  \A id \in 1 .. MaxSchedules :
    (\E i \in DOMAIN scheduled : scheduled[i].id = id)
      ~> ~(\E i \in DOMAIN scheduled : scheduled[i].id = id)

===============================================================================
