------------------------------- MODULE MCRequeue -------------------------------
(***************************************************************************)
(* Two ways back into a queue for TLC, one of them in each behaviour:      *)
(* PriorityRetryQueue's own, whose messages are 1 .. 3, one of them        *)
(* enqueued twice, and Redelivery's, from the hands of the caller.  The    *)
(* two share no state; what one does leaves the variables of the other     *)
(* alone.                                                                  *)
(***************************************************************************)
EXTENDS PriorityRetryQueue

CONSTANTS
  Threads, Replayers, Letters, Attempts, Strategies, Base, Multiplier, MaxDelay,
  MaxTime, MaxSchedules, MaxReplays   \* those of Redelivery

VARIABLES
  part,         \* which of the two a behaviour is about
  strategy, clock, scheduled, queue, dead, tries, call, made, replays, joins, done, doubtful

OneTwice == [m \in Msgs |-> IF m = 1 THEN 2 ELSE 1]

\* A message with two attempts, and one with none.
SomeNone == [m \in Letters |-> IF m = CHOOSE x \in Letters : TRUE THEN 2 ELSE 0]

Redelivered == INSTANCE Redelivery WITH Msgs <- Letters, MaxAttempts <- Attempts

ASSUME RequeueAssumption == Redelivered!RedeliveryAssumption

returning   == <<strategy, clock, scheduled, queue, dead, tries, call, made, replays, joins,
                 done, doubtful>>
requeueVars == <<part, vars, returning>>

RequeueInit ==
  /\ part \in {"priority", "redelivery"}
  /\ Init /\ Redelivered!Init
  /\ part = "redelivery" => ~tracked
  /\ part = "priority" => strategy = "constant"

RequeueNext ==
  \/ part = "priority" /\ Next /\ UNCHANGED <<part, returning>>
  \/ part = "redelivery" /\ Redelivered!Next /\ UNCHANGED <<part, vars>>

RequeueSpec == RequeueInit /\ [][RequeueNext]_requeueVars

\* The fairness of the two, each where a behaviour is about it.
FairRequeueSpec ==
  /\ RequeueSpec
  /\ WF_vars(part = "priority" /\ ProcessNext)
  /\ WF_vars(part = "priority" /\ Finish)
  /\ WF_returning(part = "redelivery" /\ Redelivered!Tick)
  /\ \A t \in Threads :
       WF_returning(part = "redelivery" /\ (Redelivered!Flush(t) \/ Redelivered!Handle(t)))

(* Nothing is lost on its way back, nor about twice unless a replay that   *)
(* enqueued it raised.                                                     *)
OneCopy == Redelivered!OneCopy

(* No flush releases an entry before its time.                             *)
NotEarly == Redelivered!NotEarly

(* max_attempts tries at most for each time a message joined the queue.    *)
AttemptsBounded == Redelivered!AttemptsBounded

(* What is scheduled is enqueued in the end.                               *)
EventuallyQueued == Redelivered!EventuallyQueued

===============================================================================
