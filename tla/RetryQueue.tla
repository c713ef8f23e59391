------------------------------ MODULE RetryQueue ------------------------------
(***************************************************************************)
(* The core of retryq: class RetryQueue of retryq/queue.py, one list of    *)
(* messages that any number of threads fill with enqueue() and empty with  *)
(* process_next() and drain().                                             *)
(*                                                                         *)
(* The list is the only state the threads share and nothing guards it, so  *)
(* an action is what a thread does between two accesses to the list; each  *)
(* of those (the truth test, pop(0), append) is atomic in CPython.  What   *)
(* the code does with a message between popping and appending it touches   *)
(* that message only and is part of the action it follows; OnePlace shows  *)
(* that no other thread holds the same message.  A "thread" is also any    *)
(* nested call: a handler that calls drain() on its own queue behaves as   *)
(* one more thread that runs while its caller waits.                       *)
(*                                                                         *)
(* Payloads, metadata, last_error, the list drain() returns and logging    *)
(* are left out.  Messages are numbered in the order enqueue() makes them. *)
(***************************************************************************)
EXTENDS Integers, Sequences

CONSTANTS
  Threads,      \* the calls that can be in progress at once
  MsgLimit,     \* bound: how often enqueue() is called
  MaxAttempts,  \* max_attempts of each message: the queue's, a public attribute
                \* no range is checked of, when enqueue() made the message
  OverflowAt,   \* the attempt from which backoff.get_delay raises (module Backoff)
  HasCallback   \* whether an on_exhausted callback was given

ASSUME QueueAssumption ==
  /\ MsgLimit \in Nat
  /\ MaxAttempts \in [1 .. MsgLimit -> Int]
  /\ OverflowAt \in Nat
  /\ HasCallback \in BOOLEAN

Msgs  == 1 .. MsgLimit
NoMsg == 0

VARIABLES
  queue,      \* _queue, oldest first
  attempt,    \* attempt[m]: the attempt field of message m
  created,    \* how many messages enqueue() has made
  pc,         \* pc[t]: where thread t is
  draining,   \* draining[t]: t is inside the loop of drain()
  held,       \* held[t]: the message t has popped and not yet disposed of
  raised,     \* raised[t]: the exception t's last call ended in
  fate,       \* history: what became of each message
  calls,      \* history: how often the handler was entered with each message
  routed,     \* history: how often on_exhausted was called with each message
  bypass      \* history: the messages popped while m waited in the queue

history == <<fate, calls, routed, bypass>>
vars    == <<queue, attempt, created, pc, draining, held, raised, history>>

Fates  == {"pending", "succeeded", "exhausted", "lost"}
Errors == {"none", "IndexError", "OverflowError", "Interrupt", "CallbackError"}
Places == {"idle", "loop", "check", "pop", "waiting", "handler", "exhausted"}

\* Where a thread holds a message.
Busy == {"waiting", "handler", "exhausted"}

\* The exhausted property of message m with n failed attempts.
Spent_OffByOne(m, n) == n > MaxAttempts[m]
Spent(m, n) == n >= MaxAttempts[m]

\* backoff.get_delay(n) raises instead of returning a delay.
DelayRaises_Late(n) == n > OverflowAt
DelayRaises(n) == n >= OverflowAt

Init ==
  /\ queue = <<>>
  /\ attempt = [m \in Msgs |-> 0]
  /\ created = 0
  /\ pc = [t \in Threads |-> "idle"]
  /\ draining = [t \in Threads |-> FALSE]
  /\ held = [t \in Threads |-> NoMsg]
  /\ raised = [t \in Threads |-> "none"]
  /\ fate = [m \in Msgs |-> "pending"]
  /\ calls = [m \in Msgs |-> 0]
  /\ routed = [m \in Msgs |-> 0]
  /\ bypass = [m \in Msgs |-> {}]

-------------------------------------------------------------------------------

(* How the steps below move a thread. *)

Goto(t, place) == pc' = [pc EXCEPT ![t] = place]

\* process_next() returns: to the loop of drain(), or to the caller.
Return_NoLoop(t) == Goto(t, "idle")
Return(t) == Goto(t, IF draining[t] THEN "loop" ELSE "idle")

\* An exception leaves process_next(), and drain() if t is in it.
Raise(t, error) ==
  /\ Goto(t, "idle")
  /\ draining' = [draining EXCEPT ![t] = FALSE]
  /\ raised' = [raised EXCEPT ![t] = error]

\* The truth test of the list.
NonEmpty == queue # <<>>

\* _queue.append(m)
Join_AtHead(m) ==
  /\ queue' = <<m>> \o queue
  /\ bypass' = [bypass EXCEPT ![m] = {}]
Join(m) ==
  /\ queue' = Append(queue, m)
  /\ bypass' = [bypass EXCEPT ![m] = {}]

\* _queue.pop(0) of a list that is not empty.
TakeHead_Peek == UNCHANGED <<queue, bypass>>
TakeHead ==
  /\ queue' = Tail(queue)
  /\ bypass' = [m \in Msgs |->
                  IF \E i \in 1 .. Len(queue) - 1 : Tail(queue)[i] = m
                  THEN bypass[m] \cup {Head(queue)} ELSE bypass[m]]

\* msg.attempt += 1, and the test that follows it.
CountFailure_Down(m) == attempt' = [attempt EXCEPT ![m] = @ - 1]
CountFailure(m) == attempt' = [attempt EXCEPT ![m] = @ + 1]

MayRetry_BeforeCount(m) == ~Spent(m, attempt[m])
MayRetry(m) == ~Spent(m, attempt'[m])

-------------------------------------------------------------------------------

\* enqueue(), by any thread at any time, handlers included.
Enqueue ==
  /\ created < MsgLimit
  /\ created' = created + 1
  /\ Join(created + 1)
  /\ UNCHANGED <<attempt, pc, draining, held, raised, fate, calls, routed>>

CallProcessNext(t) ==
  /\ pc[t] = "idle"
  /\ Goto(t, "check")
  /\ raised' = [raised EXCEPT ![t] = "none"]
  /\ UNCHANGED <<queue, attempt, created, draining, held, history>>

CallDrain(t) ==
  /\ pc[t] = "idle"
  /\ Goto(t, "loop")
  /\ draining' = [draining EXCEPT ![t] = TRUE]
  /\ raised' = [raised EXCEPT ![t] = "none"]
  /\ UNCHANGED <<queue, attempt, created, held, history>>

\* while self._queue: ... of drain().
DrainTest_Forever(t) ==
  /\ pc[t] = "loop"
  /\ Goto(t, "check")
  /\ UNCHANGED <<queue, attempt, created, draining, held, raised, history>>
DrainTest(t) ==
  /\ pc[t] = "loop"
  /\ \/ /\ NonEmpty
        /\ Goto(t, "check")
        /\ UNCHANGED draining
     \/ /\ ~NonEmpty
        /\ Goto(t, "idle")
        /\ draining' = [draining EXCEPT ![t] = FALSE]
  /\ UNCHANGED <<queue, attempt, created, held, raised, history>>

\* if not self._queue: return None
Check(t) ==
  /\ pc[t] = "check"
  /\ \/ NonEmpty /\ Goto(t, "pop")
     \/ ~NonEmpty /\ Return(t)
  /\ UNCHANGED <<queue, attempt, created, draining, held, raised, history>>

\* pop(0) of a list that another thread has emptied since Check.
PopEmpty(t) ==
  /\ pc[t] = "pop"
  /\ queue = <<>>
  /\ Raise(t, "IndexError")
  /\ UNCHANGED <<queue, attempt, created, held, history>>

\* pop(0), the exhaustion test, and the delay of the next attempt.
Pop(t) ==
  /\ pc[t] = "pop"
  /\ queue # <<>>
  /\ TakeHead
  /\ \/ /\ Spent(Head(queue), attempt[Head(queue)])
        /\ held' = [held EXCEPT ![t] = Head(queue)]
        /\ Goto(t, "exhausted")
        /\ UNCHANGED <<draining, raised, fate>>
     \/ /\ ~Spent(Head(queue), attempt[Head(queue)])
        /\ \/ /\ ~DelayRaises(attempt[Head(queue)])
              /\ held' = [held EXCEPT ![t] = Head(queue)]
              /\ Goto(t, "waiting")
              /\ UNCHANGED <<draining, raised, fate>>
           \/ /\ DelayRaises(attempt[Head(queue)])
              /\ fate' = [fate EXCEPT ![Head(queue)] = "lost"]
              /\ Raise(t, "OverflowError")
              /\ UNCHANGED held
  /\ UNCHANGED <<attempt, created, calls, routed>>

\* The sleep is over, or was not needed: the handler is entered.
StartHandler(t) ==
  /\ pc[t] = "waiting"
  /\ calls' = [calls EXCEPT ![held[t]] = @ + 1]
  /\ Goto(t, "handler")
  /\ UNCHANGED <<queue, attempt, created, draining, held, raised,
                 fate, routed, bypass>>

Succeed(t) ==
  /\ pc[t] = "handler"
  /\ fate' = [fate EXCEPT ![held[t]] = "succeeded"]
  /\ held' = [held EXCEPT ![t] = NoMsg]
  /\ Return(t)
  /\ UNCHANGED <<queue, attempt, created, draining, raised,
                 calls, routed, bypass>>

\* The handler raised an Exception: count it, then retry or give up.
Fail(t) ==
  /\ pc[t] = "handler"
  /\ CountFailure(held[t])
  /\ \/ /\ MayRetry(held[t])
        /\ Join(held[t])
        /\ held' = [held EXCEPT ![t] = NoMsg]
        /\ Return(t)
     \/ /\ ~MayRetry(held[t])
        /\ Goto(t, "exhausted")
        /\ UNCHANGED <<queue, bypass, held>>
  /\ UNCHANGED <<created, draining, raised, fate, calls, routed>>

\* KeyboardInterrupt, SystemExit: no Exception, so nothing catches it.
Interrupt(t) ==
  /\ pc[t] \in {"waiting", "handler"}
  /\ fate' = [fate EXCEPT ![held[t]] = "lost"]
  /\ held' = [held EXCEPT ![t] = NoMsg]
  /\ Raise(t, "Interrupt")
  /\ UNCHANGED <<queue, attempt, created, calls, routed, bypass>>

\* on_exhausted(msg), if there is one; it may raise.
GiveUp(t) ==
  /\ pc[t] = "exhausted"
  /\ fate' = [fate EXCEPT ![held[t]] = "exhausted"]
  /\ held' = [held EXCEPT ![t] = NoMsg]
  /\ routed' = [routed EXCEPT ![held[t]] = IF HasCallback THEN @ + 1 ELSE @]
  /\ \/ Return(t) /\ UNCHANGED <<draining, raised>>
     \/ HasCallback /\ Raise(t, "CallbackError")
  /\ UNCHANGED <<queue, attempt, created, calls, bypass>>

\* What a thread does by itself once a call is in progress.
Step(t) ==
  \/ DrainTest(t) \/ Check(t) \/ PopEmpty(t) \/ Pop(t) \/ StartHandler(t)
  \/ Succeed(t) \/ Fail(t) \/ Interrupt(t) \/ GiveUp(t)

Next ==
  \/ Enqueue
  \/ \E t \in Threads : CallProcessNext(t) \/ CallDrain(t) \/ Step(t)

Spec == Init /\ [][Next]_vars

\* A call in progress keeps running: handlers, callbacks and sleeps end.
FairSpec == Spec /\ \A t \in Threads : WF_vars(Step(t))

-------------------------------------------------------------------------------

(* What each variable holds; the code carries no types (queue.py:12-42). *)
TypeOK ==
  /\ queue \in Seq(Msgs)
  /\ attempt \in [Msgs -> Nat]
  /\ created \in 0 .. MsgLimit
  /\ pc \in [Threads -> Places]
  /\ draining \in [Threads -> BOOLEAN]
  /\ held \in [Threads -> Msgs \cup {NoMsg}]
  /\ raised \in [Threads -> Errors]
  /\ fate \in [Msgs -> Fates]
  /\ calls \in [Msgs -> Nat]
  /\ routed \in [Msgs -> Nat]
  /\ bypass \in [Msgs -> SUBSET Msgs]

Queued(m)   == \E i \in 1 .. Len(queue) : queue[i] = m
HeldBy(t,m) == pc[t] \in Busy /\ held[t] = m

(* A message is in one place: made but not disposed of, it is in the list  *)
(* once or in the hands of one thread, and otherwise in neither.  Popping  *)
(* without a lock (queue.py:60) and appending again (queue.py:81) could    *)
(* lose a message or run its handler twice at once.                        *)
OnePlace ==
  /\ \A m \in Msgs : (m <= created /\ fate[m] = "pending")
                       <=> (Queued(m) \/ \E t \in Threads : HeldBy(t, m))
  /\ \A i, j \in 1 .. Len(queue) : queue[i] = queue[j] => i = j
  /\ \A t \in Threads, m \in Msgs : HeldBy(t, m) => ~Queued(m)
  /\ \A t, u \in Threads, m \in Msgs : HeldBy(t, m) /\ HeldBy(u, m) => t = u

(* The handler is not called with one message more than max_attempts       *)
(* times, and a message is dead-lettered exactly when the handler has      *)
(* failed on it that often, on_exhausted being called once for it          *)
(* (queue.py:61-65 and 77-83).                                             *)
AttemptsHonest ==
  \A m \in Msgs :
    /\ calls[m] > 0 => calls[m] <= MaxAttempts[m]
    /\ attempt[m] <= calls[m]
    /\ fate[m] = "exhausted" => calls[m] = attempt[m] /\ Spent(m, attempt[m])
    /\ routed[m] = IF HasCallback /\ fate[m] = "exhausted" THEN 1 ELSE 0

(* With a positive max_attempts no exhausted message is ever in the list:  *)
(* the test at queue.py:61-65 is for max_attempts <= 0 only, which the     *)
(* constructor lets through.                                               *)
QueuedHaveAttempts ==
  \A i \in 1 .. Len(queue) :
    LET m == queue[i] IN MaxAttempts[m] > 0 => ~Spent(m, attempt[m])

(* Retried messages go to the tail (queue.py:81), so a message that keeps  *)
(* failing takes no second turn while another waits: whatever is ahead of  *)
(* a message has not been popped since that message joined the list.       *)
NoSecondTurn ==
  \A i, j \in 1 .. Len(queue) : i < j => queue[i] \notin bypass[queue[j]]

(* get_delay is called before the exception handler is set up              *)
(* (queue.py:67): if it overflows within the budget of attempts, no        *)
(* message is ever dead-lettered; those that keep failing are lost.        *)
OverflowSkipsDeadLetter ==
  \A m \in Msgs :
    OverflowAt < MaxAttempts[m] => fate[m] # "exhausted" /\ attempt[m] <= OverflowAt

(* README.md:58 calls the processing concurrency-safe; queue.py:57 and     *)
(* queue.py:60 test and pop in two steps.  Nobody's pop finds the list     *)
(* empty.                                                                  *)
NoIndexError == \A t \in Threads : raised[t] # "IndexError"

(* The queue keeps the promise of RetryPromise. *)
Promise == INSTANCE RetryPromise WITH
  made    <- 1 .. created,
  running <- {held[t] : t \in {u \in Threads : pc[u] = "handler"}},
  tries   <- attempt
KeepsPromise == Promise!Spec

(* drain() comes to an end (queue.py:87-94): each round spends an attempt  *)
(* of a message or disposes of it.                                         *)
DrainReturns == \A t \in Threads : pc[t] = "loop" ~> pc[t] = "idle"

(* A drain() that raises nothing disposes of every message that was in the *)
(* list when it tested the list (queue.py:90), but for those another       *)
(* thread's call takes out of its reach.                                   *)
DrainResolves ==
  \A t \in Threads, m \in Msgs :
    (pc[t] = "loop" /\ Queued(m)) ~>
      \/ fate[m] # "pending" \/ raised[t] # "none"
      \/ \E u \in Threads \ {t} : HeldBy(u, m)

===============================================================================
