------------------------------- MODULE MCClocked -------------------------------
(***************************************************************************)
(* The components whose calls order reads and writes against the clock,    *)
(* for TLC: CircuitBreakerThreads, CircuitBreaker, RateLimiter,            *)
(* TokenBucket, SlidingWindow and TimeoutPolicy.  They do not meet; a      *)
(* behaviour is about one of them, chosen at the start, and the others     *)
(* rest.                                                                   *)
(***************************************************************************)
EXTENDS CircuitBreakerThreads

CONSTANTS
  Requests,                                   \* of CircuitBreaker
  Callers,                                    \* of RateLimiter and TokenBucket
  Limit, Window, MaxTime,                     \* of RateLimiter
  Capacity, Rate, Amounts, BucketTime,        \* of TokenBucket
  Span, MaxEvents, WindowTime,                \* of SlidingWindow
  Limits, Depth, AlarmTime                    \* of TimeoutPolicy

VARIABLES
  part,                                                     \* whose behaviour it is
  clock,                                                    \* of the last four
  circuit, failed, openFor, inFlight, stumbled,             \* of CircuitBreaker
  timestamps, lPc, asking, now, kept, grants,               \* of RateLimiter
  tokens, lastRefill, bPc, asked, bNow, sum, taken,         \* of TokenBucket
  events, wPc, wAsking, time, intact, recorded, collided,   \* of SlidingWindow
  timer, installed, calls, outcome                          \* of TimeoutPolicy

Breaker == INSTANCE CircuitBreaker WITH
  state <- circuit, failures <- failed, since <- openFor, asserted <- stumbled
Limiter == INSTANCE RateLimiter WITH Threads <- Callers, pc <- lPc
Bucket == INSTANCE TokenBucket WITH
  Threads <- Callers, Requests <- Amounts, pc <- bPc, now <- bNow, MaxTime <- BucketTime
Sliding == INSTANCE SlidingWindow WITH
  pc <- wPc, asking <- wAsking, overlapped <- collided, Window <- Span, MaxTime <- WindowTime
Alarm == INSTANCE TimeoutPolicy WITH MaxTime <- AlarmTime

ASSUME ClockedAssumption ==
  /\ Breaker!BreakerAssumption /\ Limiter!LimiterAssumption /\ Bucket!BucketAssumption
  /\ Sliding!WindowAssumption /\ Alarm!TimeoutAssumption

threadsVars == vars
breakerVars == <<circuit, failed, openFor, inFlight, stumbled>>
limiterVars == <<timestamps, lPc, asking, now, kept, grants>>
bucketVars  == <<tokens, lastRefill, bPc, asked, bNow, sum, taken>>
slidingVars == <<events, wPc, wAsking, time, intact, recorded, collided>>
alarmVars   == <<timer, installed, calls, outcome>>
allVars     == <<part, clock, threadsVars, breakerVars, limiterVars, bucketVars, slidingVars,
                 alarmVars>>

ClockedInit ==
  /\ part \in {"threads", "breaker", "limiter", "bucket", "sliding", "alarm"}
  /\ Init /\ Breaker!Init /\ Limiter!Init /\ Bucket!Init /\ Sliding!Init /\ Alarm!Init

ClockedNext ==
  /\ UNCHANGED part
  /\ \/ /\ part = "threads" /\ Next
        /\ UNCHANGED <<clock, breakerVars, limiterVars, bucketVars, slidingVars, alarmVars>>
     \/ /\ part = "breaker" /\ Breaker!Next
        /\ UNCHANGED <<clock, threadsVars, limiterVars, bucketVars, slidingVars, alarmVars>>
     \/ /\ part = "limiter" /\ Limiter!Next
        /\ UNCHANGED <<threadsVars, breakerVars, bucketVars, slidingVars, alarmVars>>
     \/ /\ part = "bucket" /\ Bucket!Next
        /\ UNCHANGED <<threadsVars, breakerVars, limiterVars, slidingVars, alarmVars>>
     \/ /\ part = "sliding" /\ Sliding!Next
        /\ UNCHANGED <<threadsVars, breakerVars, limiterVars, bucketVars, alarmVars>>
     \/ /\ part = "alarm" /\ Alarm!Next
        /\ UNCHANGED <<threadsVars, breakerVars, limiterVars, bucketVars, slidingVars>>

ClockedSpec == ClockedInit /\ [][ClockedNext]_allVars

\* Time passes for an open circuit; nothing is assumed of the requests.
FairClockedSpec == ClockedSpec /\ WF_breakerVars(part = "breaker" /\ Breaker!Tick)

-------------------------------------------------------------------------------

(* What each variable of the components holds; for the threads of a        *)
(* breaker, TypeOK says it.                                                *)
TypesOK ==
  /\ part = "breaker" => Breaker!TypeOK
  /\ part = "limiter" => Limiter!TypeOK
  /\ part = "bucket" => Bucket!TypeOK
  /\ part = "sliding" => Sliding!TypeOK
  /\ part = "alarm" => Alarm!TypeOK

(* The properties of the modules: how a breaker stays in step, shut and    *)
(* able to recover (circuit_breaker.py:45-79), how much a limiter and a    *)
(* bucket let out and what they turn away (ratelimit.py:44-60,             *)
(* throttle.py:42-60), what a window counts (window.py:83-86), whom an     *)
(* alarm hits and who hears of it (timeout.py:48-61).                      *)
FieldsAgree          == Breaker!FieldsAgree
ShutUntilRecovery    == Breaker!ShutUntilRecovery
FailedProbeReopens   == Breaker!FailedProbeReopens
Recovers             == Breaker!Recovers
LimitHeld            == Limiter!LimitHeld
RefusesOnlyWhenFull  == Limiter!RefusesOnlyWhenFull
ThrottleHeld         == Bucket!ThrottleHeld
RejectsOnlyWhenShort == Bucket!RejectsOnlyWhenShort
StatsExact           == Sliding!StatsExact
NoStrayAlarm         == Alarm!NoStrayAlarm
FlaggedByOwnAlarm    == Alarm!FlaggedByOwnAlarm
LateIsNoticed        == Alarm!LateIsNoticed

===============================================================================
