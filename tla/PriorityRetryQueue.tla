-------------------------- MODULE PriorityRetryQueue --------------------------
(***************************************************************************)
(* class PriorityRetryQueue of retryq/priority.py: a heap of messages with *)
(* a priority, and a handler that tells by its result whether a message    *)
(* succeeded.                                                              *)
(*                                                                         *)
(* A handler may itself enqueue messages and call process_next(), so the   *)
(* entries being handled form a stack.  Messages are the duck-typed ones   *)
(* of the code, with a field `attempts` that starts at 0; the queue does   *)
(* not copy them, so that one enqueued twice has two entries and one count *)
(* of attempts.  The backoff the constructor takes is never used.          *)
(*                                                                         *)
(* PriorityRetryRunner (retryq/runner_priority.py) wraps the handler in    *)
(* one that keeps metrics and fires hooks.  Its record_enqueue(message)    *)
(* and record_retry(message) are a TypeError, record_success(message) ends *)
(* in a TypeError or on the missing HookEvent.SUCCESS: every call raises.  *)
(***************************************************************************)
EXTENDS Integers, FiniteSets, SequencesExt

CONSTANTS
  Msgs,
  Priorities,   \* the priorities callers ask for, out of range ones included
  Default,      \* default_priority of the runner
  MaxAttempts,  \* _max_attempts
  Copies,       \* bound: Copies[m] is how often callers enqueue message m
  Depth         \* bound: process_next() calls within handlers

PRIORITY_MIN == 0
PRIORITY_MAX == 10

ASSUME PriorityAssumption ==
  /\ Priorities \subseteq Int /\ Default \in Int
  /\ MaxAttempts \in Nat \ {0}        \* the constructor raises ValueError otherwise
  /\ Copies \in [Msgs -> Nat \ {0}]
  /\ Depth \in Nat \ {0}

VARIABLES
  tracked,      \* whether the queue is a PriorityRetryRunner's
  heap,         \* _heap: entries with their sort key <<inverted priority, counter>>
  counter,      \* _counter
  attempts,     \* attempts[m]: message m's attempts field
  deadLetters,  \* _dead_letters
  stack,        \* the entries being handled, the innermost call last
  copies,       \* copies[m]: how often callers have enqueued m
  arrivals,     \* history: the entries of the heap in the order they joined it
  failed,       \* history: how often the handler failed on m
  fate          \* history: what became of m, as far as copies are not told apart

vars == <<tracked, heap, counter, attempts, deadLetters, stack, copies, arrivals, failed, fate>>

Keys    == Int \X Nat
Entries == [key : Keys, msg : Msgs]

\* Tuples compare by the inverted priority, then by the counter.
Before(e, f) ==
  \/ e.key[1] < f.key[1]
  \/ e.key[1] = f.key[1] /\ e.key[2] < f.key[2]

First == CHOOSE e \in heap : \A f \in heap \ {e} : Before(e, f)

Handled == {stack[i].msg : i \in 1 .. Len(stack)}
Waiting == {e.msg : e \in heap}

Init ==
  /\ tracked \in BOOLEAN
  /\ heap = {}
  /\ counter = 0
  /\ attempts = [m \in Msgs |-> 0]
  /\ deadLetters = <<>>
  /\ stack = <<>>
  /\ copies = [m \in Msgs |-> 0]
  /\ arrivals = <<>>
  /\ failed = [m \in Msgs |-> 0]
  /\ fate = [m \in Msgs |-> "pending"]

-------------------------------------------------------------------------------

\* heappush of a new entry with the next number.
Push_SameNumber(m, p) ==
  /\ heap' = heap \cup {[key |-> <<-p, 0>>, msg |-> m]}
  /\ arrivals' = Append(arrivals, [key |-> <<-p, 0>>, msg |-> m])
  /\ UNCHANGED counter
Push_Lifo(m, p) ==
  /\ heap' = heap \cup {[key |-> <<-p, -counter>>, msg |-> m]}
  /\ arrivals' = Append(arrivals, [key |-> <<-p, -counter>>, msg |-> m])
  /\ counter' = counter + 1
Push(m, p) ==
  /\ heap' = heap \cup {[key |-> <<-p, counter>>, msg |-> m]}
  /\ arrivals' = Append(arrivals, [key |-> <<-p, counter>>, msg |-> m])
  /\ counter' = counter + 1

\* enqueue(); a priority out of range raises InvalidPriorityError and changes nothing.
Enqueue(m, p) ==
  /\ copies[m] < Copies[m]
  /\ PRIORITY_MIN <= p /\ p <= PRIORITY_MAX
  /\ Push(m, p)
  /\ copies' = [copies EXCEPT ![m] = @ + 1]
  /\ UNCHANGED <<tracked, attempts, deadLetters, stack, failed, fate>>

\* The runner's enqueue() without a priority; it raises once the message is queued.
EnqueueTracked(m) == tracked /\ Enqueue(m, Default)

\* process_next() pops the first entry and calls the handler.
ProcessNext ==
  /\ heap # {}
  /\ Len(stack) < Depth
  /\ heap' = heap \ {First}
  /\ \E i \in 1 .. Len(arrivals) : arrivals[i] = First /\ arrivals' = RemoveAt(arrivals, i)
  /\ stack' = Append(stack, First)
  /\ UNCHANGED <<tracked, counter, attempts, deadLetters, copies, failed, fate>>

Current == stack[Len(stack)]
Leave   == stack # <<>> /\ stack' = SubSeq(stack, 1, Len(stack) - 1)

\* The handler returns a true value.
Succeed ==
  /\ ~tracked /\ Leave
  /\ fate' = [fate EXCEPT ![Current.msg] = "succeeded"]
  /\ UNCHANGED <<tracked, heap, counter, attempts, deadLetters, copies, arrivals, failed>>

\* msg.attempts += 1
CountAttempt(m) == attempts' = [attempts EXCEPT ![m] = @ + 1]

MustGiveUp_OffByOne(m) == attempts'[m] > MaxAttempts
MustGiveUp(m) == attempts'[m] >= MaxAttempts

\* The handler returns a false value: a dead letter, or back with its priority.
Fail_Forgets ==
  /\ ~tracked /\ Leave
  /\ CountAttempt(Current.msg)
  /\ failed' = [failed EXCEPT ![Current.msg] = @ + 1]
  /\ \/ /\ MustGiveUp(Current.msg)
        /\ deadLetters' = Append(deadLetters, Current.msg)
        /\ fate' = [fate EXCEPT ![Current.msg] = "exhausted"]
     \/ /\ ~MustGiveUp(Current.msg)
        /\ UNCHANGED <<deadLetters, fate>>
  /\ UNCHANGED <<tracked, heap, counter, arrivals, copies>>
Fail ==
  /\ ~tracked /\ Leave
  /\ CountAttempt(Current.msg)
  /\ failed' = [failed EXCEPT ![Current.msg] = @ + 1]
  /\ \/ /\ MustGiveUp(Current.msg)
        /\ deadLetters' = Append(deadLetters, Current.msg)
        /\ fate' = [fate EXCEPT ![Current.msg] = "exhausted"]
        /\ UNCHANGED <<heap, counter, arrivals>>
     \/ /\ ~MustGiveUp(Current.msg)
        /\ Push(Current.msg, -Current.key[1])
        /\ UNCHANGED <<deadLetters, fate>>
  /\ UNCHANGED <<tracked, copies>>

\* The handler raises: process_next() has no except clause, the message is gone.
HandlerRaises ==
  /\ Leave
  /\ fate' = [fate EXCEPT ![Current.msg] = "lost"]
  /\ UNCHANGED <<tracked, heap, counter, attempts, deadLetters, copies, arrivals, failed>>

\* _tracked_handler() after the raw handler: success or not, the exception of
\* the bookkeeping leaves process_next(), so nothing is retried or given up.
TrackedReturns ==
  /\ tracked /\ Leave
  /\ \E outcome \in {"succeeded", "lost"} : fate' = [fate EXCEPT ![Current.msg] = outcome]
  /\ UNCHANGED <<tracked, heap, counter, attempts, deadLetters, copies, arrivals, failed>>

Finish == Succeed \/ Fail \/ HandlerRaises \/ TrackedReturns

Next ==
  \/ \E m \in Msgs, p \in Priorities : Enqueue(m, p)
  \/ \E m \in Msgs : EnqueueTracked(m)
  \/ ProcessNext \/ Finish

Spec == Init /\ [][Next]_vars

\* A caller that goes on calling process_next(), with handlers that return.
FairSpec == Spec /\ WF_vars(ProcessNext) /\ WF_vars(Finish)

-------------------------------------------------------------------------------

(* What each variable holds (priority.py:40-53). *)
TypeOK ==
  /\ tracked \in BOOLEAN
  /\ heap \subseteq Entries
  /\ counter \in Nat
  /\ attempts \in [Msgs -> Nat]
  /\ deadLetters \in Seq(Msgs)
  /\ stack \in Seq(Entries)
  /\ copies \in [Msgs -> Nat]
  /\ arrivals \in Seq(Entries)
  /\ failed \in [Msgs -> Nat]
  /\ fate \in [Msgs -> {"pending", "succeeded", "exhausted", "lost"}]

(* Every variable has its type, and no two entries have the same sort key: *)
(* the heap never ties, and nothing that joins it replaces what is there   *)
(* (priority.py:60-65).                                                    *)
HeapOK ==
  /\ TypeOK
  /\ \A e, f \in heap : e.key = f.key => e = f
  /\ \A e \in heap : e.key[2] < counter
  /\ Len(arrivals) = Cardinality(heap)

(* priority.py:36-37: what is processed has the highest priority of all    *)
(* that waits, and joined first among its equals; a retry joins anew, so   *)
(* a failing message does not keep its equals waiting.                     *)
PriorityThenFifo ==
  [][ProcessNext =>
       \A i \in 1 .. Len(arrivals) :
         arrivals[i] = First =>
           \A j \in 1 .. Len(arrivals) \ {i} :
             /\ -arrivals[j].key[1] <= -First.key[1]
             /\ j < i => -arrivals[j].key[1] < -First.key[1]]_vars

(* A message enqueued once is given up after exactly max_attempts failures *)
(* and never handled again.  Enqueued twice it shares one count, can be a  *)
(* dead letter once per copy and is then handled beyond max_attempts       *)
(* (priority.py:75-77).                                                    *)
AttemptsShared ==
  \A m \in Msgs :
    LET letters == Cardinality({i \in 1 .. Len(deadLetters) : deadLetters[i] = m})
    IN  /\ attempts[m] = failed[m]
        /\ attempts[m] < MaxAttempts + copies[m]
        /\ letters <= copies[m]
        /\ letters = IF attempts[m] < MaxAttempts THEN 0 ELSE attempts[m] - MaxAttempts + 1

(* For the messages that are enqueued once the queue keeps the promise of  *)
(* RetryPromise, whatever is done with the others (priority.py:55-82).     *)
Single == {m \in Msgs : Copies[m] = 1}
Promise == INSTANCE RetryPromise WITH
  Msgs        <- Single,
  MaxAttempts <- [m \in Single |-> MaxAttempts],
  made        <- {m \in Single : copies[m] > 0},
  running     <- Handled \cap Single,
  tries       <- [m \in Single |-> attempts[m]],
  fate        <- [m \in Single |-> fate[m]]
KeepsPromise == Promise!Spec

(* Whoever goes on calling process_next() sees every message disposed of,  *)
(* low priorities too: retries are bounded (priority.py:76).               *)
EveryMessageEnds == \A m \in Msgs : m \in Waiting ~> fate[m] # "pending"

===============================================================================
