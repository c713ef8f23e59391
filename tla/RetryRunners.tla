----------------------------- MODULE RetryRunners -----------------------------
(***************************************************************************)
(* The runners of retryq: classes that take messages from a queue, call a  *)
(* handler and decide between success, retry and dead letter, each in its  *)
(* own way.  A behaviour is about one of them, chosen at the start.        *)
(*                                                                         *)
(* The queue they are written for has dequeue(), enqueue(msg) and a        *)
(* length, and its messages have id, attempts and exhausted: not those of  *)
(* retryq/queue.py, so both are external here.  The rest they call is the  *)
(* repository's own, and parts of it do not fit:                           *)
(*                                                                         *)
(*   - record_success() and record_dead_letter() of RetryMetrics need an   *)
(*     argument no runner gives: each call of theirs raises TypeError;     *)
(*   - HookEvent has none of the names ENQUEUED, RETRYING, RETRIED that    *)
(*     two of the runners use: AttributeError;                             *)
(*   - MiddlewareChain has no run(), RetryRunner no _dispatch():           *)
(*     AttributeError.  "chained" is RetryRunner with a caller's chain that *)
(*     has run(), and a handler that counts the attempts, as the runner    *)
(*     leaves that to others.                                              *)
(*                                                                         *)
(* An action is what a runner does up to the call of the handler, or after *)
(* it; handlers of several threads, or nested ones, overlap, but those of  *)
(* process_batch(), which is called by one thread at a time and not from a *)
(* handler.  Which exception leaves process_next(), payloads and delays    *)
(* are left out.                                                           *)
(***************************************************************************)
EXTENDS Integers, Sequences, FiniteSets

CONSTANTS
  Runners,      \* the runners looked at
  Msgs,
  MaxAttempts,  \* max_attempts of each message; no range is checked
  Predicates,   \* what filters are made of: the messages each predicate accepts
  High, Low,    \* the watermarks
  Fingerprint,  \* Fingerprint[m]: the fingerprint of m
  TTL,          \* ttl_seconds, in ticks
  MaxBatch,     \* max_batch_size
  MaxTime       \* bound: the last tick of the clock

ASSUME RunnersAssumption ==
  /\ Runners \subseteq {"retry", "filtered", "observable", "circuit", "throttled",
                        "dedup", "tagging", "watermark", "batch", "chained"}
  /\ Predicates \subseteq SUBSET Msgs
  /\ MaxAttempts \in [Msgs -> Int]
  /\ High \in Nat /\ Low \in Nat /\ Low < High
  /\ TTL \in Nat \ {0}
  /\ MaxBatch \in Nat \ {0}
  /\ MaxTime \in Nat

VARIABLES
  runner,       \* the runner this behaviour is about
  queue,        \* the queue, oldest first
  attempts,     \* attempts[m]: the attempts field of m
  working,      \* the messages whose handler is running
  made,         \* the messages the runner's enqueue() has put in the queue
  retried,      \* _metrics.total_retried
  matching,     \* the messages FilteredRetryRunner's filter lets through
  tagged,       \* the messages with an entry in TagRegistry._tags
  aboveHigh,    \* WatermarkPolicy._above_high
  seen,         \* DedupWindow._seen: fingerprint and time of what it remembers
  batch,        \* how many messages the batch in progress may still take
  clock,        \* time.monotonic(), for the runners that read it
  handled,      \* history: how often the handler was called with m
  calls,        \* history: how often the handler was called
  fate,         \* history: what became of m
  accepted      \* history: the fingerprints let in, each with its time

guards  == <<matching, tagged, aboveHigh, seen, batch, clock>>
history == <<handled, calls, fate, accepted>>
vars    == <<runner, queue, attempts, working, made, retried, guards, history>>

Fingerprints == {Fingerprint[m] : m \in Msgs}

\* message.exhausted after n counted attempts.
Spent_OffByOne(m, n) == n > MaxAttempts[m]
Spent(m, n) == n >= MaxAttempts[m]

Init ==
  /\ runner \in Runners
  /\ queue = <<>>
  /\ attempts = [m \in Msgs |-> 0]
  /\ working = {} /\ made = {}
  /\ retried = 0
  /\ matching = Msgs
  /\ tagged = {} /\ aboveHigh = FALSE /\ seen = {} /\ batch = 0 /\ clock = 0
  /\ handled = [m \in Msgs |-> 0] /\ calls = 0
  /\ fate = [m \in Msgs |-> "pending"]
  /\ accepted = <<>>

-------------------------------------------------------------------------------

(* Parts of the actions below. *)

Requeue(m) == queue' = Append(queue, m)

End(m, outcome) == fate' = [fate EXCEPT ![m] = outcome]

\* The message leaves the handler; its runner disposes of it in the same step.
Leave(m) == m \in working /\ working' = working \ {m}

\* dequeue(), and the call of the handler.
TakeFirst ==
  /\ queue # <<>>
  /\ queue' = Tail(queue)
  /\ working' = working \cup {Head(queue)}
  /\ handled' = [handled EXCEPT ![Head(queue)] = @ + 1]
  /\ calls' = calls + 1
  /\ UNCHANGED <<runner, attempts, made, retried, fate, accepted>>

\* A message is dequeued and lost to an exception before it is handled.
LoseFirst ==
  /\ queue # <<>>
  /\ queue' = Tail(queue)
  /\ End(Head(queue), "lost")
  /\ UNCHANGED <<runner, attempts, working, made, retried, guards,
                 handled, calls, accepted>>

\* WatermarkPolicy.check(depth)
Check(depth) ==
  aboveHigh' = (depth >= High \/ (depth > Low /\ aboveHigh))

\* What DedupWindow remembers at a time.
Remembered_TooLong(now) == {s \in seen : now - s.at <= TTL}
Remembered(now) == {s \in seen : now - s.at < TTL}

-------------------------------------------------------------------------------

(* enqueue() of a new message *)

Accept(m) ==
  /\ m \notin made
  /\ made' = made \cup {m}
  /\ Requeue(m)
  /\ UNCHANGED <<runner, attempts, working, retried, matching, batch, clock,
                 handled, calls, fate>>

\* CircuitBreakerRetryRunner's raises AttributeError once the message is queued.
Enqueue(m) ==
  /\ runner \notin {"tagging", "watermark", "dedup"}
  /\ Accept(m)
  /\ UNCHANGED <<tagged, aboveHigh, seen, accepted>>

\* With tags or without; it, too, raises AttributeError at the end.
EnqueueTagging(m) ==
  /\ runner = "tagging"
  /\ Accept(m)
  /\ tagged' \in {tagged, tagged \cup {m}}
  /\ UNCHANGED <<aboveHigh, seen, accepted>>

\* The append and the check of the depth are one step.
EnqueueWatermark_CheckFirst(m) ==
  /\ runner = "watermark"
  /\ Accept(m)
  /\ Check(Len(queue))
  /\ UNCHANGED <<tagged, seen, accepted>>
EnqueueWatermark(m) ==
  /\ runner = "watermark"
  /\ Accept(m)
  /\ Check(Len(queue'))
  /\ UNCHANGED <<tagged, seen, accepted>>

\* check_and_record() reads the clock once here.
EnqueueDedup_NotRecorded(m) ==
  /\ runner = "dedup"
  /\ \A s \in Remembered(clock) : s.fp # Fingerprint[m]
  /\ Accept(m)
  /\ seen' = Remembered(clock)
  /\ accepted' = Append(accepted, [fp |-> Fingerprint[m], at |-> clock])
  /\ UNCHANGED <<tagged, aboveHigh>>
EnqueueDedup(m) ==
  /\ runner = "dedup"
  /\ \A s \in Remembered(clock) : s.fp # Fingerprint[m]
  /\ Accept(m)
  /\ seen' = Remembered(clock) \cup {[fp |-> Fingerprint[m], at |-> clock]}
  /\ accepted' = Append(accepted, [fp |-> Fingerprint[m], at |-> clock])
  /\ UNCHANGED <<tagged, aboveHigh>>

\* A duplicate is dropped, or DuplicateMessageError raised.
DropDuplicate(m) ==
  /\ runner = "dedup"
  /\ m \notin made
  /\ \E s \in Remembered(clock) : s.fp = Fingerprint[m]
  /\ seen' = Remembered(clock)
  /\ UNCHANGED <<runner, queue, attempts, working, made, retried,
                 matching, tagged, aboveHigh, batch, clock, history>>

Tick ==
  /\ runner = "dedup"
  /\ clock < MaxTime
  /\ clock' = clock + 1
  /\ UNCHANGED <<runner, queue, attempts, working, made, retried,
                 matching, tagged, aboveHigh, seen, batch, history>>

-------------------------------------------------------------------------------

(* What a runner may do with a message that leaves its handler. *)

Succeed(m) ==
  /\ End(m, "succeeded")
  /\ UNCHANGED <<queue, attempts, retried>>

\* An exception of the handler that the runner does not catch: any at all, or,
\* where it catches Exception, one like KeyboardInterrupt.
Escape(m) ==
  /\ End(m, "lost")
  /\ UNCHANGED <<queue, attempts, retried>>

\* The attempt is counted and was the last: record_dead_letter() raises, and
\* what should follow (callback, hooks, listeners) is not reached.
GiveUp(m) ==
  /\ attempts' = [attempts EXCEPT ![m] = @ + 1]
  /\ Spent(m, attempts'[m])
  /\ End(m, "exhausted")
  /\ UNCHANGED <<queue, retried>>

Retry_NotCounted(m) ==
  /\ attempts' = [attempts EXCEPT ![m] = @ + 1]
  /\ ~Spent(m, attempts'[m])
  /\ Requeue(m)
  /\ UNCHANGED <<fate, retried>>
Retry_ForEver(m) ==
  /\ ~Spent(m, attempts[m])
  /\ retried' = retried + 1
  /\ Requeue(m)
  /\ UNCHANGED <<attempts, fate>>
Retry(m) ==
  /\ attempts' = [attempts EXCEPT ![m] = @ + 1]
  /\ ~Spent(m, attempts'[m])
  /\ retried' = retried + 1
  /\ Requeue(m)
  /\ UNCHANGED fate

\* The caller's get_delay raises before the message is queued again.
Slip(m) ==
  /\ attempts' = [attempts EXCEPT ![m] = @ + 1]
  /\ ~Spent(m, attempts'[m])
  /\ End(m, "lost")
  /\ UNCHANGED <<queue, retried>>

-------------------------------------------------------------------------------

(* process_next() of each runner *)

\* middleware.run() raises; RateLimitedRetryRunner does the same when it may.
LoseRetry == runner = "retry" /\ LoseFirst

TakeChained == runner = "chained" /\ TakeFirst /\ UNCHANGED guards

\* record_success() raises behind a message that is done with.  A failure, by
\* exception or result, counts as a retry even when it is the last; its hooks
\* run before the message is queued again, and may raise.
EndChained(m) ==
  /\ runner = "chained"
  /\ Leave(m)
  /\ \/ Succeed(m) \/ Escape(m)
     \/ /\ attempts' = [attempts EXCEPT ![m] = @ + 1]
        /\ retried' = retried + 1
        /\ \/ ~Spent(m, attempts'[m]) /\ Requeue(m) /\ UNCHANGED fate
           \/ Spent(m, attempts'[m]) /\ End(m, "exhausted") /\ UNCHANGED queue
           \/ End(m, "lost") /\ UNCHANGED queue
  /\ UNCHANGED <<runner, made, guards, handled, calls, accepted>>

\* hooks.fire(HookEvent.RETRYING, ...) raises when the circuit lets it come to that.
LoseCircuit == runner = "circuit" /\ LoseFirst

\* add() to the filter, whose predicates all have to accept.
AddPredicate(p) ==
  /\ runner = "filtered"
  /\ matching' = matching \cap p
  /\ UNCHANGED <<runner, queue, attempts, working, made, retried,
                 tagged, aboveHigh, seen, batch, clock, history>>

\* set_filter(): another filter, with a predicate or none.
SetFilter(accepting) ==
  /\ runner = "filtered"
  /\ matching' = accepting
  /\ UNCHANGED <<runner, queue, attempts, working, made, retried,
                 tagged, aboveHigh, seen, batch, clock, history>>

\* A message that does not match goes to the tail, one that does is lost to _dispatch().
SkipFiltered_NotPutBack ==
  /\ runner = "filtered"
  /\ queue # <<>> /\ Head(queue) \notin matching
  /\ queue' = Tail(queue)
  /\ UNCHANGED <<runner, attempts, working, made, retried, guards, history>>
SkipFiltered ==
  /\ runner = "filtered"
  /\ queue # <<>> /\ Head(queue) \notin matching
  /\ queue' = Append(Tail(queue), Head(queue))
  /\ UNCHANGED <<runner, attempts, working, made, retried, guards, history>>

LoseFiltered ==
  /\ runner = "filtered"
  /\ queue # <<>> /\ Head(queue) \in matching
  /\ LoseFirst

\* process_all_matching(): those it skipped are lost with the first that matches.
LoseSkipped ==
  /\ runner = "filtered"
  /\ \E i \in 1 .. Len(queue) :
       /\ queue[i] \in matching
       /\ \A j \in 1 .. i - 1 : queue[j] \notin matching
       /\ queue' = SubSeq(queue, i + 1, Len(queue))
       /\ fate' = [m \in Msgs |-> IF \E j \in 1 .. i : queue[j] = m THEN "lost" ELSE fate[m]]
  /\ UNCHANGED <<runner, attempts, working, made, retried, guards, handled, calls, accepted>>

TakeObservable == runner = "observable" /\ TakeFirst /\ UNCHANGED guards

\* A listener that raises takes the message with it, after the retry was counted.
EndObservable(m) ==
  /\ runner = "observable"
  /\ Leave(m)
  /\ \/ Succeed(m) \/ Escape(m) \/ GiveUp(m) \/ Retry(m) \/ Slip(m)
     \/ /\ attempts' = [attempts EXCEPT ![m] = @ + 1]
        /\ ~Spent(m, attempts'[m])
        /\ retried' = retried + 1
        /\ End(m, "lost")
        /\ UNCHANGED queue
  /\ UNCHANGED <<runner, made, guards, handled, calls, accepted>>

\* The token is there (module TokenBucket); without one nothing happens.
TakeThrottled == runner = "throttled" /\ TakeFirst /\ UNCHANGED guards

EndThrottled(m) ==
  /\ runner = "throttled"
  /\ Leave(m)
  /\ Succeed(m) \/ Escape(m) \/ GiveUp(m) \/ Retry(m)
  /\ UNCHANGED <<runner, made, guards, handled, calls, accepted>>

TakeDedup == runner = "dedup" /\ TakeFirst /\ UNCHANGED guards

\* record_success() raises within the try: a handler that returned failed, too.
EndDedup(m) ==
  /\ runner = "dedup"
  /\ Leave(m)
  /\ GiveUp(m) \/ Retry(m) \/ Slip(m) \/ Escape(m)
  /\ UNCHANGED <<runner, made, guards, handled, calls, accepted>>

TakeTagging == runner = "tagging" /\ TakeFirst /\ UNCHANGED guards

\* As with dedup, but the budget is tested before the attempt is counted, and
\* get_delay is asked before it, too; no branch comes as far as purge().
EndTagging(m) ==
  /\ runner = "tagging"
  /\ Leave(m)
  /\ \/ /\ Spent(m, attempts[m])
        /\ End(m, "exhausted")
        /\ UNCHANGED <<queue, attempts, retried>>
     \/ /\ ~Spent(m, attempts[m])
        /\ attempts' = [attempts EXCEPT ![m] = @ + 1]
        /\ Requeue(m)
        /\ retried' = retried + 1
        /\ UNCHANGED fate
     \/ Escape(m)
  /\ UNCHANGED <<runner, made, guards, handled, calls, accepted>>

TakeWatermark == runner = "watermark" /\ TakeFirst /\ UNCHANGED guards

\* As with dedup; the watermarks are checked when the message is queued again only.
EndWatermark(m) ==
  /\ runner = "watermark"
  /\ Leave(m)
  /\ \/ Retry(m) /\ Check(Len(queue'))
     \/ (GiveUp(m) \/ Slip(m) \/ Escape(m)) /\ UNCHANGED aboveHigh
  /\ UNCHANGED <<runner, made, matching, tagged, seen, batch, clock, handled, calls, accepted>>

-------------------------------------------------------------------------------

(* BatchProcessor.process_batch() *)

StartBatch(cap) ==
  /\ runner = "batch"
  /\ batch = 0 /\ working = {}
  /\ batch' = cap
  /\ UNCHANGED <<runner, queue, attempts, working, made, retried,
                 matching, tagged, aboveHigh, seen, clock, history>>

TakeBatch ==
  /\ runner = "batch"
  /\ batch > 0 /\ working = {}
  /\ \/ TakeFirst /\ batch' = batch - 1
     \/ /\ queue = <<>>
        /\ batch' = 0
        /\ UNCHANGED <<runner, queue, attempts, working, made, retried, history>>
  /\ UNCHANGED <<matching, tagged, aboveHigh, seen, clock>>

\* Success and the last failure end the batch by their TypeError, the first
\* success with messages left in it; so does what `except Exception` lets through.
EndBatch(m) ==
  /\ runner = "batch"
  /\ Leave(m)
  /\ \/ Succeed(m) /\ batch' = 0
     \/ GiveUp(m) /\ batch' = 0
     \/ Escape(m) /\ batch' = 0
     \/ Retry(m) /\ UNCHANGED batch
  /\ UNCHANGED <<runner, made, matching, tagged, aboveHigh, seen, clock, handled, calls, accepted>>

-------------------------------------------------------------------------------

Next ==
  \/ \E m \in Msgs :
       \/ Enqueue(m) \/ EnqueueTagging(m) \/ EnqueueWatermark(m)
       \/ EnqueueDedup(m) \/ DropDuplicate(m)
       \/ EndChained(m) \/ EndObservable(m) \/ EndThrottled(m) \/ EndDedup(m) \/ EndTagging(m)
       \/ EndWatermark(m) \/ EndBatch(m)
  \/ Tick
  \/ \E p \in Predicates : AddPredicate(p)
  \/ \E accepting \in Predicates \cup {Msgs} : SetFilter(accepting)
  \/ LoseRetry \/ TakeChained \/ LoseCircuit \/ SkipFiltered \/ LoseFiltered \/ LoseSkipped
  \/ TakeObservable \/ TakeThrottled \/ TakeDedup \/ TakeTagging \/ TakeWatermark
  \/ TakeBatch \/ \E cap \in 1 .. MaxBatch : StartBatch(cap)

Spec == Init /\ [][Next]_vars

-------------------------------------------------------------------------------

(* What each variable holds; the code carries no types. *)
TypeOK ==
  /\ runner \in Runners
  /\ queue \in Seq(Msgs)
  /\ attempts \in [Msgs -> Nat]
  /\ working \subseteq Msgs /\ made \subseteq Msgs
  /\ retried \in Nat
  /\ matching \subseteq Msgs /\ tagged \subseteq Msgs /\ aboveHigh \in BOOLEAN
  /\ seen \subseteq [fp : Fingerprints, at : 0 .. MaxTime]
  /\ batch \in 0 .. MaxBatch /\ clock \in 0 .. MaxTime
  /\ handled \in [Msgs -> Nat] /\ calls \in Nat
  /\ fate \in [Msgs -> {"pending", "succeeded", "exhausted", "lost"}]
  /\ accepted \in Seq([fp : Fingerprints, at : 0 .. MaxTime])

(* A message that was taken in waits in the queue or is with a handler, in *)
(* one place and once, until there is an outcome for it: whatever a runner *)
(* does not hold on to it must have lost to an exception, and whatever it  *)
(* has settled it must not hold on to (runner_filter.py:34-37,             *)
(* batch.py:62-87, runner_observer.py, runner_dedup.py:58-77).             *)
OnePlace ==
  LET waiting == {queue[i] : i \in DOMAIN queue} IN
  /\ \A i, j \in DOMAIN queue : queue[i] = queue[j] => i = j
  /\ waiting \cap working = {}
  /\ waiting \cup working = {m \in made : fate[m] = "pending"}

(* The calls a message has until its budget is spent; the first comes      *)
(* before any test, so that it has one without a budget, too.              *)
Budget(m) == IF MaxAttempts[m] > 1 THEN MaxAttempts[m] ELSE 1

(* The budget of attempts, to the call, of every runner that counts before *)
(* it tests: no message is handled more often, and one that is given up    *)
(* was handled that often (runner_dedup.py:67-69, runner_observer.py,      *)
(* batch.py:78-79).                                                        *)
CallsExact ==
  runner # "tagging" =>
    \A m \in Msgs : handled[m] <= Budget(m) /\ (fate[m] = "exhausted" => handled[m] = Budget(m))

(* tests/test_runner_tagging.py:56 (test_dead_letter_purges_tags): with    *)
(* max_attempts=1 a message is dead-lettered after one call; in general,   *)
(* a message that has had its calls is not tried again.                    *)
SpentIsGivenUp ==
  \A m \in Msgs : handled[m] >= Budget(m) /\ m \notin working => fate[m] # "pending"

(* total_retried agrees with what goes through the queue: a message joins  *)
(* it by enqueue() or as a counted retry, and waits there or was handled   *)
(* since (metrics.py:21-23); ObservableRetryRunner counts a retry that a   *)
(* listener then prevents (runner_observer.py:64-66), RetryRunner each     *)
(* failure, the last one included (runner.py:51 and 64).                   *)
RetriesCounted ==
  LET joined == Cardinality(made) + retried
      left   == Len(queue) + calls
  IN  /\ runner \in {"throttled", "dedup", "tagging", "watermark", "batch"} => joined = left
      /\ runner \in {"observable", "chained"} => joined >= left

(* However the queue came to be that deep, by new messages or by retries   *)
(* of overlapping handlers, on_high has been called for it (watermark.py:  *)
(* 37-42).                                                                 *)
AlarmWhenHigh == runner = "watermark" /\ Len(queue) >= High => aboveHigh

(* Two messages of one fingerprint are let in at least ttl_seconds apart   *)
(* (dedup.py:43-45 and 64-69).                                             *)
AcceptedApart ==
  \A i, j \in 1 .. Len(accepted) :
    i < j /\ accepted[i].fp = accepted[j].fp => accepted[j].at - accepted[i].at >= TTL

(* A message is dropped as a duplicate only of one that was let in less    *)
(* than ttl_seconds ago (dedup.py:43-45).                                  *)
DropsDuplicatesOnly ==
  [][\A m \in Msgs : DropDuplicate(m) =>
       \E i \in 1 .. Len(accepted) : /\ accepted[i].fp = Fingerprint[m]
                                     /\ clock - accepted[i].at < TTL]_vars

(* runner_filter.py:28: skipped messages are re-enqueued so they are not   *)
(* lost.                                                                   *)
SkippedNotLost ==
  [][runner = "filtered" =>
       \A i \in DOMAIN queue : queue[i] \notin matching => fate'[queue[i]] # "lost"]_vars

(* runner_tagging.py:16: tags are purged from the registry when a message  *)
(* is dead-lettered.                                                       *)
TagsPurged == \A m \in tagged : fate[m] # "exhausted"

(* All runners but two keep the promise of RetryPromise: TaggingRetryRunner *)
(* exceeds the budget, FilteredRetryRunner loses several messages at once. *)
(* The budget is one call at least.                                        *)
Promise == INSTANCE RetryPromise WITH
  MaxAttempts <- [m \in Msgs |-> Budget(m)],
  running     <- working,
  tries       <- attempts
KeepsPromise ==
  Promise!Init /\ [][Promise!Next \/ runner \in {"tagging", "filtered"}]_(Promise!vars)

===============================================================================
