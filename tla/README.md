# retryq in TLA+

retryq is a Python library for message queues that retry failed messages with a
backoff and hand over to a dead-letter callback what cannot be delivered. This
directory holds TLA+ models of it, the TLC configurations that check them on
small instances, and proofs that TLAPS checks for every size.

Contents: 1 the system and its components; 2 the modules and how they
correspond to the code; 3 the runs; 4 the proofs; 5 what the checks brought to
light; 6 what is left out; 7 the plan.

## 1. The system

### Components

The line of a hazard, and the properties that cover it, are in `PROJECT.json`.

| Component (retryq/) | State | Operations | What makes it correct |
|---|---|---|---|
| `queue.py` RetryQueue | the list `_queue`; per message `attempt` | `enqueue`, `process_next`, `drain`, `size` | no message lost, duplicated or handled by two threads; the handler called at most `max_attempts` times; one dead letter per exhausted message; `drain()` ends and disposes of what it found |
| `backoff.py` strategies | none | `get_delay` | which attempts it is asked about, what it answers, and that it may raise |
| `circuit_breaker.py` CircuitBreaker | `_state`, `_failures`, `_opened_at` | `check`, `allow_request`, `record_success`, `record_failure`, `reset`, reading `state` | the fields agree; nothing passes before `recovery_timeout`; a failed probe reopens; an open circuit lets requests in again |
| `ratelimit.py` RateLimiter | list of time stamps | `acquire`, `is_allowed`, `remaining`, `reset` | at most `limit` slots in any window; refusal only in a full one |
| `throttle.py` TokenBucket | level, time of last refill | `consume`, `try_consume`, `available` | outflow bounded over any stretch of time; rejection only for that |
| `priority.py` PriorityRetryQueue | heap, counter, dead letters; per message `attempts` | `enqueue`, `process_next` | highest priority first, FIFO among equals, budget exact |
| `runner*.py`, `batch.py` runners | queue, counters, and what each adds (tags, watermark, window) | `enqueue`, `process_next`, `process_batch`, `process_all_matching` | each message handled within its budget and disposed of once; counters agree with the queue |
| `metrics.py` RetryMetrics | counters | `record_*` | agree with what went through the queue |
| `dedup.py`, `watermark.py`, `tagging.py` | fingerprints with times; above or below; tags per message | `check_and_record`; `check`; `tag`, `untag`, `purge` | duplicates apart by the TTL; alarm on when deep; tags gone with their message |
| `hooks.py`, `observer.py`, `middleware.py`, `filter.py` | registered callables | `fire`; `notify`; `run_before`, `run_after`; `matches` | one callable that raises must not take a message with it |
| `scheduler.py` RetryScheduler | list of scheduled entries | `schedule`, `flush_due` | nothing enqueued early, twice or never |
| `replay.py` MessageReplayer | none; the caller's list of dead letters | `replay` | what a replay that fails half way loses or repeats |
| `snapshot.py`, `serializer.py`, `runner_snapshot.py` | the last snapshot, a string | `save_snapshot`, `load_snapshot`, `checkpoint` | (cannot run, section 6) |
| `window.py` SlidingWindow | a deque of events with times | `record`, `stats`, `reset` | counts what is in the window, all of it and nothing else |
| `timeout.py` TimeoutPolicy | the flag of each call; the process's SIGALRM handler and timer | `enforce` | an alarm finds a handler of the policy's; a call that has set its timer is flagged by no other; a late handler is reported |
| `ttl.py` TTLPolicy | the creation time in a message's metadata | `stamp`, `is_expired`, `check` | age from the first stamp |
| `partition.py` | a queue per key | `enqueue`, `process_next` | (cannot run, section 6) |
| `groupby.py`, `inspector.py`, `__init__.py` | none | reports, imports | |

### How they interact

- A **caller** makes a `RetryQueue` with a handler and an optional
  `on_exhausted` callback, enqueues payloads and calls `process_next()` or
  `drain()`. Both call the strategy's `get_delay`, `sleep`, the handler and the
  callback. A handler may call the queue again.
- A **runner** is written for another queue: one with `dequeue()`, `enqueue(msg)`
  and a length, and messages with `id`, `attempts` and `exhausted`. No class of
  the repository has all of these: the runners and their tests are written for a
  `RetryMessage(id=..., max_attempts=...)` and a `RetryQueue()` that `queue.py`
  does not define. The runner calls the guards (breaker, limiter, bucket, dedup
  window), then the handler, and then the bookkeeping (metrics, hooks, observer,
  tags, watermark).
- Nothing is persisted except by an explicit snapshot, no threads are started,
  and there is **not one lock**, while `README.md:58` of the repository calls the
  processing concurrency-safe. So threads share lists and fields, and the
  granularity of interleaving is one access to one of them.

### What is hard here

1. Threads between the emptiness test and the pop, between the pop and the
   append, and between the writes of fields that belong together.
2. An exception in the middle of a handler's bookkeeping: the message has left
   the queue and is not yet anywhere else. In the runners this is the normal
   case rather than the exceptional one, because several calls do not fit what
   they call (section 5).
3. Late reports: requests let in before a circuit opened report after it.
4. Half-open intervals of time: windows, TTLs, recovery timeouts, retry times.
5. Loops that refill what they empty: `drain()`, `process_batch()`.
6. Calls within calls: a handler that enqueues and processes in turn, or that
   calls `enforce()` again while there is one alarm for the process.
7. A list that is scanned while others remove from it and append to it.

## 2. The modules

| Module | Models | Composed with |
|---|---|---|
| `RetryPromise` | the abstract specification: what any queue with retries owes a message | implemented by the three below |
| `RetryQueue` | `queue.py`, one list access per step | implements `RetryPromise` |
| `PriorityRetryQueue` | `priority.py`, nested handlers, and `runner_priority.py`, which wraps them | implements `RetryPromise` for messages enqueued once |
| `RetryRunners` | ten runners with what they call | implements `RetryPromise` but for two runners |
| `CircuitBreaker` | `circuit_breaker.py`, one method per step, overlapping requests | |
| `CircuitBreakerThreads` | the same class, one field access per step | implements `CircuitBreaker` while calls do not overlap |
| `RateLimiter` | `ratelimit.py`, one list access per step | |
| `TokenBucket` | `throttle.py`, one field access per step | |
| `SlidingWindow` | `window.py`, one access to the deque per step | |
| `TimeoutPolicy` | `timeout.py`, one call into `signal` per step, nested calls | |
| `Redelivery` | `scheduler.py`, `replay.py` and the delays of `backoff.py`, over a queue | the scheduler, the replayer and the queue in one |
| `RetryQueueProofs`, `CircuitBreakerProofs`, `CircuitBreakerThreadsProofs`, `TimeoutPolicyProofs`, `RetryRunnersProofs`, `PriorityRetryQueueProofs`, `RedeliveryProofs` | theorems about the module each is named after | `PriorityRetryQueueProofs`, about `MCRequeue`, uses `RedeliveryProofs` |
| `ClockedProofs` | theorems about what `MCClocked` holds | `TimeoutPolicyProofs`, `CircuitBreakerProofs` |
| `MCRetryQueue`, `MCRetryRunners`, `MCRedelivery` | instances for TLC | |
| `MCClocked` | an instance for TLC of six modules, one of them in each behaviour | `CircuitBreakerThreads`, `CircuitBreaker`, `RateLimiter`, `TokenBucket`, `SlidingWindow`, `TimeoutPolicy` |
| `MCRequeue` | an instance for TLC of two modules, one of them in each behaviour | `PriorityRetryQueue`, `Redelivery` |

Next to some definitions stand others named after them with an underscore
(`Spent_OffByOne` next to `Spent`): plausible mistakes in the same place. Nothing
uses them; each property is known to fail when one of them takes the place of
the definition it is named after.

### RetryPromise

`made`, `running`, `tries` and `fate` of each message. A message is made once;
its handler is started only while its tries are not spent, and by one party at
a time; each failure counts; it ends as succeeded, exhausted (only once spent)
or lost (an exception left the queue's call). It does not say when a message
may be lost, as every implementation has places where that happens; the
invariants of the implementations pin down the rest.

### RetryQueue

| Model | Code |
|---|---|
| `queue`, `attempt`, `created` | `_queue`, `RetryMessage.attempt`, the messages made |
| `MaxAttempts` | `max_attempts` at the time of `enqueue()`, unchecked by the constructor, hence any integer, and per message as the attribute is public |
| `pc[t]`, `held[t]`, `draining[t]`, `raised[t]` | where a call is, its local `msg`, whether it is in `drain()`, what exception it ended in |
| `Enqueue` | `enqueue()` |
| `CallDrain`, `DrainTest` | `drain()` and `while self._queue` |
| `CallProcessNext`, `Check`, `Pop`, `PopEmpty` | `process_next()`: the test, and `pop(0)` with the exhaustion test and `get_delay` that touch only the popped message |
| `StartHandler`, `Succeed`, `Fail`, `Interrupt`, `GiveUp` | the handler's call and its outcomes, the append or `on_exhausted` |
| `fate`, `calls`, `routed`, `bypass` | history, read by no action |

`OverflowAt` is the attempt from which `get_delay` raises, as `2 ** attempt` does
for a float beyond its range. With `OverflowAt` above every budget it never does.
`dry_run` only skips the sleep, which is no step of its own here.

### CircuitBreaker and CircuitBreakerThreads

The clock appears as the time since `_opened_at`, capped at `Recovery`, and the
count of failures is capped at `Threshold`: no test in the code tells larger
values apart. This makes the state space finite without bounding the number of
requests or the time. `Admit`, `Refuse`, `RecordSuccess`, `RecordFailure`,
`Look` and `Reset` are the methods; `Settled` is the `state` property, which
writes as it reads. In `CircuitBreakerThreads` each method falls apart into
`ReadState`, `ComputeAge`, `HalfOpen`, `Decide`, `Refuse`, then `ZeroFailures`, `Close`,
`ForgetTime`, or `LoadFailures`, `StoreFailures`, `CompareFailures`, `Open`,
`StampTime`, in the order of the assignments. `StampTime` reads the clock and stores
the time in one step. Reports come from requests that were let in, once each, which
is how the runners use the class; nothing in it forbids a caller others.

### RateLimiter and TokenBucket

Both read the clock once per call into a local (`now`). `RateLimiter`: `Evict`
builds the list of what is kept, `Store` stores it, `Allow` or `Refuse` compares,
`Grant` appends. `TokenBucket`: `Elapse` computes the new level, `Refill` and
`Stamp` store it and the time, `Accept` or `Reject` compares, `Take` and `Write`
subtract; `Elapse` reads the level and the time of the last refill together.
`kept[t]` is the list a thread has built, `Chosen` the stamps at given
positions; `grants` and `taken` are history, each withdrawal with the total so far.
Amounts are integers; the code's floats add rounding, which is not
modelled.

### PriorityRetryQueue

The heap is the set of its entries, `First` its minimum by inverted priority and
counter; `arrivals` keeps the order in which entries joined, so that FIFO is
stated without the counter. `stack` is the nesting of handlers. A message is not
copied by the queue, so `attempts` belongs to the message while entries do not.

`tracked` says that the queue is a `PriorityRetryRunner`'s. Its
`_tracked_handler()` raises after every call of the handler, so that
`TrackedReturns` takes the place of `Succeed` and `Fail`; its `enqueue()` adds a
default priority (`EnqueueTracked`) and raises once the message is in the heap.

### RetryRunners

`runner` is chosen at the start and stays. `TakeX` goes up to the call of the
handler, `EndX` does everything after it: the operators `Succeed`, `Escape`,
`GiveUp`, `Retry` and `Slip` are the ways in which a runner can leave a message,
and each `EndX` lists the ones its code has. `LoseX` stands for a runner that
raises before it calls the handler. The queue and the messages are external,
modelled from how the runners use them. `"retry"` is `RetryRunner` with the
repository's `MiddlewareChain`, `"chained"` the same with a chain of the caller's
that has `run()`, so that the code behind that call is reached. The filter is the
set of messages it lets through; `AddPredicate` and `SetFilter` change it at
any time. Where a runner catches `Exception`, `Escape` is the exception that is
none (KeyboardInterrupt). `MaxAttempts` gives each message any integer, as nothing
checks it; a message without attempts is handled once (`Budget`), because no runner
tests before the first call.

Three simplifications: `StartBatch` and `TakeBatch` have `process_batch()` called by
one thread at a time and not from a handler; `EnqueueWatermark` and `EndWatermark`
look at the depth in the step of the append (`runner_watermark.py:43-46` and `65-69`
do so a moment later, by when it may have changed); and `EnqueueDedup` reads the
clock once where `check_and_record()` reads it up to three times.

`handled`, `calls`, `fate` and `accepted` are history, read by no action. `OnePlace`
is where the message is, `CallsExact` how often it was handled, in the runners that
count before they test; the filter's loss of skipped messages and the tagging
runner's extra call are what runs `runners_filter` and `runners_calls` find.

### SlidingWindow

`Record` and `Join` are the two halves of the append, `Cutoff`, `Test`, `Look`,
`PopLeft` the loop of `_evict()`, `Iterate` and `Answer` the loop of `stats()`.
`Emptied` (IndexError) and `Mutated` (RuntimeError) are what a thread meets when
another changed the deque in between. `recorded` is the history that `StatsExact`
compares with (the deque must be what follows the last event that is too old),
`overlapped` tells whether two calls ever were under way at once.

### TimeoutPolicy

A stack of `enforce()` calls, each at one of five places: timer to be armed,
handler running, timer to be disarmed, old handler to be restored, verdict to be
given. `installed` and `timer` are the process's. `Alarm` may come between any
two actions and has to come before time goes on; `HandlerBack` may come at any
time, or never. `armed`, `back` and `nested` are history. `FlaggedByOwnAlarm` is
about calls that have set their timer; before that the caller's timer is still
running, which is what run `timeout_overrun` finds. `LateIsNoticed` leaves out
calls whose handler called `enforce()`: their timer is gone.

### Redelivery

| Model | Code |
|---|---|
| `scheduled`, with an `id` for the identity of an entry | `RetryScheduler._scheduled` |
| `Schedule`, `Delays` | `schedule()`, `get_delay` of the three strategies |
| `FlushDue`, `Scan`, `TakeOut`, `TakenOut`, `EnqueueEntry` | `flush_due()`: the clock, the comprehension item by item, `remove()` and its ValueError, `enqueue()` |
| `Replay`, `ReplayMessage`, `SkipMessage`, `ReplayEnds`, `ReplayRaises` | `replay()`, message by message |
| `queue`, `Enqueue`, `Succeed`, `Fail`, `GiveUp` | the target `RetryQueue`, one step per call of `process_next()`; each message with its budget, any integer |
| `dead`, `tries` | what the caller keeps: the messages given up, and their failures |

`RetryQueue` wraps whatever it is given, so a message that comes back is the
payload of a new one; the model looks through the wrappings. `AttemptsBounded`
says what such a message gets at most, `AttemptsPreserved` what a test of the
replayer expects and the queue does not do. The scheduler reads `attempts` of its
messages, a field that the caller has to supply. `Delays` that would lead beyond
the last tick are cut off with the clock: `Schedule` is there for entries that can
fall due.

## 3. The runs

| Run | Module, configuration | Question |
|---|---|---|
| `queue` | `MCRetryQueue`, `MCRetryQueue.cfg` | Two threads, three messages with budgets 2, 0 and 3, delays that overflow at attempt 2: `TypeOK`, `OnePlace`, `AttemptsHonest`, `QueuedHaveAttempts`, `NoSecondTurn`, `OverflowSkipsDeadLetter`, the refinement `KeepsPromise`; `drain()` ends (`DrainReturns`) and disposes of all it found unless it raises (`DrainResolves`) |
| `queue_race` | `MCRetryQueue`, `MCRetryQueue_race.cfg` | Two threads and one message: `NoIndexError` is violated |
| `clocked` | `MCClocked`, `MCClocked.cfg` | A breaker whose fields two threads access: ranges (`TypeOK`), and calls that do not overlap are atomic (`ActsAtomically`). A breaker with five overlapping requests: `FieldsAgree`, `ShutUntilRecovery`, `FailedProbeReopens`, `Recovers`. Limiter and bucket, calls one after the other: `LimitHeld`, `RefusesOnlyWhenFull`, `ThrottleHeld`, `RejectsOnlyWhenShort`. Window, two threads: `StatsExact`. Nested timeouts: `NoStrayAlarm`, `FlaggedByOwnAlarm`, `LateIsNoticed`. The types of all of these: `TypesOK` |
| `breaker_race` | `CircuitBreakerThreads`, `CircuitBreakerThreads_race.cfg` | `OpenHasTimeAtRest` is violated |
| `timeout_cancel` | `TimeoutPolicy`, `TimeoutPolicy_cancel.cfg` | `CancelledInTime` is violated |
| `timeout_overrun` | `TimeoutPolicy`, `TimeoutPolicy_overrun.cfg` | `TimeoutMeansOverrun` is violated, by a nested call |
| `requeue` | `MCRequeue`, `MCRequeue.cfg` | Priority queue, plain and tracked: `HeapOK`, `PriorityThenFifo`, `AttemptsShared`, `KeepsPromise`, `EveryMessageEnds`. Scheduler and replayer, two threads, two messages, two strategies: `OneCopy`, `NotEarly`, `AttemptsBounded`, `EventuallyQueued` |
| `redelivery_replay` | `MCRedelivery`, `MCRedelivery_replay.cfg` | `AttemptsPreserved` is violated by a replay |
| `runners` | `MCRetryRunners`, `MCRetryRunners.cfg` | Ten runners: `OnePlace`, `CallsExact`, `RetriesCounted`, `AlarmWhenHigh`, `AcceptedApart`, `DropsDuplicatesOnly`, `KeepsPromise` |
| `runners_tags` | `MCRetryRunners`, `MCRetryRunners_tags.cfg` | `TagsPurged` is violated |
| `runners_calls` | `MCRetryRunners`, `MCRetryRunners_calls.cfg` | `SpentIsGivenUp` is violated by `TaggingRetryRunner` |
| `runners_filter` | `MCRetryRunners`, `MCRetryRunners_filter.cfg` | `SkippedNotLost` is violated by `process_all_matching()` |

The type invariants of `Redelivery` and `RetryRunners` are proved and left out of the
runs, whose other properties say more. A run that holds several modules is about one
of them in each behaviour; they share no state, and each keeps the fairness it
has on its own.

### Bounds, and why they are enough

For the safety properties the theorems of section 4 lift every bound named here; the
bounds matter for liveness, and for showing in how small an instance a mistake would
be seen.

- **Queue.** Two threads show every race between two list accesses; a third
  message lets a retry land behind one message and ahead of another, which
  `NoSecondTurn` needs. The budgets 2, 0 and 3 with `OverflowAt` 2 contain a
  message spent before its first delivery, one spent just in time and one whose
  delay overflows before it is spent. The same threads and messages do for
  `drain()`, alone or while the other thread enqueues, processes or drains.
- **Breaker.** With `Threshold` 3, five requests are two more than are needed to
  open, so that a late failure and a late success remain; `Recovery` 4 leaves them
  several moments in which to arrive. Time and the number of requests are
  unbounded (see above).
- **Limiter and bucket.** Two slots per window of three, over seven ticks, cover
  two full windows and the boundary between them; a bucket of three with requests of
  1, 2 and 4 has one request that can never be granted, and four ticks are one
  more than it takes to fill. `MaxTime` only stops the clock: calls go on at the
  last tick, until the limit refuses them. `reset()` of the limiter starts its
  history anew.
- **Window.** Two threads that record three events over a span of two ticks, in
  three: an event that is just in, one that is just out, and one on its way. They
  overlap as they like, up to IndexError and RuntimeError; `StatsExact` is about
  the behaviours in which they have not yet.
- **Timeouts.** Two calls deep, limits of one and two ticks within five: an inner
  alarm before and after the one it replaces would have come, and the caller's
  alarm while the nested call is being set up.
- **Redelivery.** Two threads flush, one of them also replays: two flushes, or a
  flush and a replay, overlap. Two messages, one with two attempts and one with
  none, two entries: one entry may be due while the other is not, a message can be
  given up, scheduled, and given up again. Delays are 2 (constant) and 1 or 2
  (exponential), the 2 being both the grown delay and the cap. The linear strategy
  (0 or 2) and jitter (every delay from 0 to the exponential one) pass too, in
  0.3 and 0.4 million states: put either in place of the two in `Strategies` to see
  it. Time stops at 2, when everything is due; flushes go on. One
  replay is enough to meet every other call; `redelivery_replay` has one message
  and two replays, the second of a message that has failed.
- **Priority queue.** Three messages, one enqueued twice, make four entries with
  two priorities (0 and 10; 11 is refused); handlers nest two deep, which is the
  least that overlaps. It may stop when everything is disposed of, hence no
  deadlock check.
- **Runners.** Three messages, two with one fingerprint and two attempts each, one
  with none, a high mark of 2 so that a retry as well as a new message can reach
  it; a TTL of 2 within 4 ticks so that a fingerprint expires twice. The run may
  stop, as above.

### Fairness

`queue` assumes that a call in progress goes on: `WF` of what a thread does
by itself. That is the thread being scheduled and handlers, callbacks and sleeps
returning, which no code here bounds. Calls themselves are never assumed to be
made. `clocked` assumes only that time passes for a breaker (`WF` of its `Tick`);
nothing of the requests, which is the point of `Recovers`: however often late
failures put the recovery off, they are finitely many, because nothing is let in
while the circuit is open. `requeue` assumes of the priority queue a caller that goes
on calling `process_next()` and handlers that return; of scheduler and replayer that
time passes, that each thread's call goes on, and that the threads keep calling
`flush_due()`, which is what `RetryScheduler` needs a loop in the caller for: nothing
in the repository starts one. Handlers of the queue behind it, and replays, need not
come. The other runs are about safety only.

## 4. The proofs

Every safety property that a run expects to pass, invariant or action property,
and every refinement is a theorem, for all values of the constants (two of the
guards: for one thread, as in their run). A `...Proofs` module holds what belongs
to one module; `ClockedProofs` is about the guards and the timeouts as `MCClocked`
composes them, `PriorityRetryQueueProofs` about both modules of `MCRequeue`.

What the proofs assume are the named assumptions of the modules
(`QueueAssumption`, `BreakerAssumption`, `ThreadsAssumption`, `TimeoutAssumption`,
`RunnersAssumption`, `PriorityAssumption`, `RedeliveryAssumption`,
`LimiterAssumption`, `BucketAssumption`, `WindowAssumption` and, for the two that
hold others, `ClockedAssumption` and `RequeueAssumption`): what the constructors
check (positive limits, windows and time-outs, `low < high`, and the budget of
`PriorityRetryQueue`), and that bounds are numbers. Where nothing checks
`max_attempts`, in `RetryQueue`, `Redelivery` and `RetryRunners`, it is any
integer. Sets of threads are arbitrary; those of messages are too, except in
`Redelivery`, whose messages are finitely many so that they can be counted. Where
a theorem has a hypothesis of its own, it is named below.

The pattern is the same everywhere. The property is seldom inductive; an
invariant adds what a call in progress can rely on, a lemma shows that each
action keeps it, with one step per action, and the theorem follows by PTL.

**`RetryQueueProofs`**

- `TypeCorrect`. A thread past its pop must hold a message for `attempt[held[t]]`
  to mean anything, so `Typed` adds that busy threads hold one.
- `InOnePlace`. `Placed` has `OnePlace` in four parts and adds that messages not
  yet made have no fate and are held by nobody, without which `Enqueue` could put a
  message in a second place. `JoinPlaces`, `TakePlaces`, `StayPlaces` and `DropPlaces`
  say once what the list operations do to places; each action is one of them.
- `HonestAttempts`. `Counted` ties attempts, handler calls and the place of the
  thread together: while a handler runs, calls are one ahead of attempts, and
  equal to them for every other message that still waits for its fate.
- `QueuedNotSpent`, `TurnsTaken` and `OverflowLoses`, together: `Turned` adds that an
  unmade message has no attempts (`Fresh`) and that the delay of a message in a
  thread's hands did not overflow (`InTime`). `NoSecondTurn` turned out to be
  inductive given the places; `JoinShifts` and its like say where each message of
  the list comes from when the list grows or shrinks.
- `AlonePopFinds`: `NoIndexError`, which run `queue_race` refutes for two threads,
  holds if there is only one (its hypothesis), handlers that enqueue included.
- `ImplementsPromise`, by mapping every action to a step of `RetryPromise` or a
  stutter, from the invariants above.

**`CircuitBreakerProofs`.** `TypeOK` and `FieldsAgree` are inductive together
(`FieldsStayInStep`; `ClockedProofs` restates these theorems for `MCClocked`'s
breaker). `NothingPassesEarly` and `ProbesReopen` follow from them in one step,
the second because half-open implies a count of failures that already is at the
threshold.

**`CircuitBreakerThreadsProofs`.** `TypeCorrect` needs nothing more: the ranges hold
under any race. `AtomicWhenApart`, the refinement of `CircuitBreaker`, needs `Quiet`:
as long as no two calls have overlapped, at most one thread is in a call (`Alone`),
an open circuit has its time but for the step that is about to write it
(`HasTime`), and what a thread has read is still so (`Relies`). `OthersRest` says that a
step without overlap finds all others at rest, before and after, and
`AloneMaps` what the mapping's fields are then. `TimedWhenApart` draws from the
same invariant that the state `breaker_race` finds takes an overlap.

**`TimeoutPolicyProofs`.** `Stacked`: each call has found its caller's handler
installed, and all but the innermost are in their handlers. `TimerOwned`: a
running timer is not overdue and is that of the innermost call, unless that is yet
to set its own. `Watched`: a call whose handler has not called `enforce()` has its
timer running or its flag up, or is in time. `AlarmIsHandled` and `LateReported`
follow. `OwnAlarm`: by `Stacked` and `TimerOwned` the timer that expires is that
of the innermost call, whose handler is the one installed; from it
`FlaggedInTurn`.

**`RetryRunnersProofs`.** The lemma `Kinds` sorts the actions of all runners into a few
kinds by what they do to queue and budget, so that each invariant is proved once
per kind and not once per action. `Core` has the types of the variables every runner
has (`Typed`), the places (`Placed`) and `Budgeted`: the calls a message has had are the
attempts it has lost, and the one that is on. From it `NothingMislaid`, for all ten
runners; `BudgetKept`, for all but the tagging runner; and
`ImplementsPromise`. `OneCall`, that a budget is one call at least whatever
`max_attempts` is, is what lets the last two do without a condition on it. With the
sizes of the sets involved (`Tallied`), `RetriesTallied`. `HighNoticed` is
inductive over `WatermarkKinds`. `Remembering`, that what the window has forgotten is
older than the TTL, gives `DuplicatesKeptOut` and `DroppedAreDuplicates`. The types of
what single runners add (filter, tags, watermark, window, batch) are `Guarded`, and
with it and the others `TypeCorrect` has the whole of `TypeOK`.

**`PriorityRetryQueueProofs`.** `Inv` says that entries have numbers of their own,
below the counter, that `arrivals` lists them in that order, and that what is
handled has the priority of an entry: `NoTies`. `FirstComesFirst`, that a finite
heap has a first entry, makes `First` more than a CHOOSE and yields
`TakenInOrder`. `Counted` adds up where the copies of a message are (`InHeap`,
`InHand`, `InLetters`) and gives `OneCountForAll`; `Ends`, that an only copy is gone
once there is an outcome, gives `ImplementsPromise`. `SameBehaviours` carries the
theorems of `RedeliveryProofs` over to the `Redelivery` of `MCRequeue`
(`NothingLostOrRepeated`, `NothingEarly`, `BudgetsBounded`), and `RunOfBoth` says
that the run's behaviours are behaviours of both modules.

**`RedeliveryProofs`.** `Typed` describes the fields of a call at each of its
places; as a flush can hold only what was due when it looked, `NothingEarly`
follows. `Budgets` says that the tries of a message and those ahead of its
wrappings in the queue are no more than the budget times the joinings:
`BudgetsBounded`. `OnePlace` adds up the places of a message (list, queue, flushes
and replays under way, dead, done) and says that the sum is 1, or at least 1 where
a replay raised: `NothingLostOrRepeated`. A scan that goes past an entry which
another flush removes is why a flush may hold what is no longer in the list, and
why the sum counts what is carried to the queue only after `remove()`.

**`ClockedProofs`.**

- `LimitKept`, `RefusedWhenFull`: `LimiterInv` says that the list holds the last of the
  slots granted and that the others were granted a window ago (`Recent`), and what
  each place of a call adds to that (`Asks`, `Evicted`).
- `ThrottleKept`, `RejectedInNeed`: `BucketInv` bounds the level by what would be
  there had no withdrawal since the i-th been made, for each i (`Bounded`), and
  says that for one i that bound is met, or the bucket is full (`Reached`). The
  first gives the throttle, the second that a rejection was needed.
- These four have the hypothesis `Serial`: there is one thread. With two they are
  false (section 5).
- `StatsCountWindow`, for any threads, with the condition of `StatsExact` itself:
  the deque holds the last of the recorded events, the others are older than the
  window (`LatestHeld`), the order is kept, and each place of a call adds what the
  eviction has established so far (`Counts`); all of it as long as no two calls
  have overlapped (`SlidingInv`).
- `AlarmIsHandled`, `FlaggedInTurn`, `LateReported`: those of `TimeoutPolicyProofs` for
  `MCClocked`'s variables (`SameAlarm`); `FieldsStayInStep`, `NothingPassesEarly`,
  `ProbesReopen`: those of `CircuitBreakerProofs` (`SameBreaker`).
- `TypesKept` (with `Serial`, as the level of a bucket stays in its range only then):
  the invariants of the five together.

Induction over data is out of the prover's reach. Where a proof would use it, the
models and the proofs do without: a smallest element comes from the
well-foundedness of < (`SmallestExists`); sizes of sets come from bijections
(`Marks`, `Positions`); `Kept` chooses by position (`Chosen`) what SelectSeq
would, and a withdrawal carries its running total instead of a sum over the list.

Only model-checked: liveness (`DrainReturns`, `DrainResolves`, `Recovers`,
`EventuallyQueued`, `EveryMessageEnds`), which is beyond the prover, and the eight
properties that fail.

## 5. What the checks brought to light

- `queue_race`: two threads that both see the last message make the second
  `pop(0)` raise `IndexError` (`queue.py:57` and `60`), against `README.md:58`.
  Nothing worse can happen to a message: `OnePlace` holds under all races.
- `breaker_race`: a success that overlaps a failure can leave the circuit open
  without an opening time, so that it never half-opens again and `check()` fails
  its own assertion (`circuit_breaker.py:60` and `72`).
- `runners_tags`: tags are never purged (`runner_tagging.py:16` says they are),
  because the call before raises `TypeError`.
- `timeout_cancel`: the alarm of `TimeoutPolicy` raises a flag and stops nothing
  (`timeout.py:46`), though `timeout.py:28` speaks of handlers being cancelled: one
  that never returns is never timed out.
- `timeout_overrun`: a nested `enforce()` is reported as timed out although its handler
  was in time, if the alarm of its caller comes between `timeout.py:48` and `49`: the
  flag that goes up is the nested call's, and stays up. `timeout.py:13` has
  `TimeoutError` raised when a handler exceeds its time.
- `redelivery_replay`: a message replayed with `reset_attempts=False` starts from no
  attempts all the same, as `queue.py:46` wraps it in a new `RetryMessage`;
  `tests/test_replay.py:64` expects its attempts to be kept. (`AttemptsBounded` bounds
  what it gets: `max_attempts` for each time it joins.)
- `runners_calls`: `TaggingRetryRunner` tests the budget before it counts
  (`runner_tagging.py:68` and `76`), so a message with one attempt is handled twice;
  `tests/test_runner_tagging.py:56` and `tests/test_integration_tagging.py:71` expect it
  to be dead-lettered after the first.
- `runners_filter`: `process_all_matching()` keeps what it skips in a local list, which
  an exception at `runner_filter.py:55` takes with it; `runner_filter.py:28` says that
  skipped messages are not lost. What `process_next()` skips is kept, by `OnePlace`.
- Without a run of its own: `get_delay` is called with 0 for the first delivery
  (`queue.py:67`), while `backoff.py:12` says attempt numbers are 1-indexed. So `Delays`
  starts at `Base \div Multiplier` or at 0.

Several properties hold in a form that says what the code does rather than what
one would expect: in `RetryRunners` the calls that do not fit what they call
(`record_success()` and `record_dead_letter()` lack an argument; `HookEvent` lacks
`ENQUEUED`, `RETRYING`, `RETRIED`; `MiddlewareChain` has no `run()`, `RetryRunner`
no `_dispatch()`) are modelled as the exceptions they raise. So a runner that
calls `record_success()` inside its `try` treats each success as a failure and
goes on to the dead letter, which `KeepsPromise` lets pass as failures do.
`RetryPromise` allows a message to be lost at any time; where in the queue that
may happen `OnePlace` and `OverflowSkipsDeadLetter` say, and a runner that loses a
message to an exception (`Escape`, `LoseFirst`, a listener that raises) breaks no
property.

`StatsExact`, `LimitHeld` and `ThrottleHeld` are about calls that do not overlap.

With two threads, `LimitHeld` and `ThrottleHeld` fail. That is to be expected of
code without a lock, and neither class promises otherwise, so the run has one caller
for them; with one thread the finer steps of these two modules only order the
reads and the writes of a call against the clock.

## 6. What is left out, and why

- **Payloads, metadata, error texts, logging, return values.** No property is
  about them.
- **Floating point.** Delays, tokens and times are integers. That `get_delay`
  may overflow is in `RetryQueue`, what it returns in `Redelivery`.
- **The granularity** of one access per step is the language's: CPython may
  switch threads between any two of them, though a given build does it less often.
- **`import retryq`** fails as it stands (`__init__.py` names a `get_delay` that
  `backoff.py` does not define); the modules are imported one by one, and so
  modelled one by one.
- **Components not modelled.** `PartitionedRetryQueue` builds `RetryQueue` without
  the handler it requires and raises on first use. Snapshots let nothing through:
  `serialize()` reads `message.id`, which `RetryMessage` does not have, so
  `save_snapshot()` raises for every queue but an empty one; `deserialize()` passes
  `id=` to `RetryMessage`, so `load_snapshot()` raises on its first entry; and
  `SnapshotRetryRunner` cannot be constructed. `groupby.py` and `inspector.py` only
  read, and what they read `RetryQueue` does not have. `middleware.py` is called by
  nothing with the names it defines. Each method of `TTLPolicy` compares or sets
  one field of one message once; a model would restate its line.
- **Overlaps** of `process_batch()` with itself, and those within single steps that
  section 2 names (`EnqueueWatermark`, `EndWatermark`, `EnqueueDedup`, `StampTime`,
  `Elapse`).
- **Within modelled components**: code after a call that always raises is
  unreachable and has no action; `untag()`, queries and summaries keep or read
  nothing that a property uses; the tags of a message are reduced to whether there
  is an entry for it, an event of the window to its time.

## 7. The plan

Done: the queue with its promise, the guards, the priority queue and its runner,
the other runners, the scheduler and the replayer, the sliding window, the
timeouts; and the proofs of all their safety properties and refinements. What is
left:

1. `check_and_record()` of the dedup window in two steps, by threads that share it.
2. `TagRegistry` with its tags, and what an entry that is never purged keeps.
3. What `RetryPromise` implies by itself, proved once and inherited by the three
   queues through their refinements: an outcome is final, the tries of a message
   never exceed its budget.
4. The steps of the liveness arguments that are safety (a measure that goes down
   while `drain()` runs), as theorems.
