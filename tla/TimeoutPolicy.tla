----------------------------- MODULE TimeoutPolicy -----------------------------
(***************************************************************************)
(* TimeoutPolicy.enforce() of retryq/timeout.py: a handler runs under an   *)
(* alarm that raises a flag; the flag is looked at when the handler is     *)
(* back.  SIGALRM, its Python handler and the interval timer belong to the *)
(* process, so a handler that calls enforce() in turn replaces the timer   *)
(* of its caller.                                                          *)
(*                                                                         *)
(* An action is what the main thread does up to its next call into the     *)
(* signal module.  The alarm comes between any two actions once it is due, *)
(* and time does not go on before it has come.                             *)
(*                                                                         *)
(* For the messages of retryq/queue.py, which have no id, the TimeoutError *)
(* at the end is an AttributeError, an exception all the same.             *)
(***************************************************************************)
EXTENDS Integers, SequencesExt

CONSTANTS
  Limits,       \* the values of seconds, in ticks
  Depth,        \* bound: how deep enforce() calls nest
  MaxTime       \* bound: the last tick of the clock

TimeoutAssumption ==
  /\ Limits \subseteq Nat \ {0}     \* __post_init__ raises ValueError for others
  /\ Depth \in Nat /\ MaxTime \in Nat

Off      == -1
Original == 0   \* the signal handler from before the first call

VARIABLES
  clock,
  timer,        \* when ITIMER_REAL expires, or Off
  installed,    \* whose _alarm_handler is installed: the depth of the call, or Original
  calls,        \* the enforce() calls in progress, the innermost last
  outcome       \* how the last call ended

vars == <<clock, timer, installed, calls, outcome>>

Times  == 0 .. MaxTime
Places == {"arm", "handler", "disarm", "restore", "decide"}

(* A call in progress: where it is, its limit, old_handler, timed_out[0],  *)
(* whether the handler raised; and, as history, when the timer was set,    *)
(* when the handler was back, and whether the handler called enforce().    *)
Frames == [at : Places, limit : Limits, old : 0 .. Depth, flagged : BOOLEAN,
           failed : BOOLEAN, armed : Times, back : Times, nested : BOOLEAN]

Top       == calls[Len(calls)]
SetTop(f) == calls' = [calls EXCEPT ![Len(calls)] = f]
At(place) == calls # <<>> /\ Top.at = place

Init ==
  /\ clock = 0
  /\ timer = Off
  /\ installed = Original
  /\ calls = <<>>
  /\ outcome = "none"

-------------------------------------------------------------------------------

\* The alarm: the flag of the call whose handler is installed goes up.
Alarm ==
  /\ timer # Off /\ timer <= clock
  /\ timer' = Off
  /\ calls' = [d \in DOMAIN calls |->
                 IF d = installed THEN [calls[d] EXCEPT !.flagged = TRUE] ELSE calls[d]]
  /\ UNCHANGED <<clock, installed, outcome>>

Tick ==
  /\ clock < MaxTime
  /\ timer = Off \/ timer > clock
  /\ clock' = clock + 1
  /\ UNCHANGED <<timer, installed, calls, outcome>>

\* enforce() by the caller or by a handler: old_handler = signal.signal(...)
Install(limit) ==
  /\ Len(calls) < Depth
  /\ calls = <<>> \/ At("handler")
  /\ calls' = Append([d \in DOMAIN calls |-> [calls[d] EXCEPT !.nested = TRUE]],
                     [at |-> "arm", limit |-> limit, old |-> installed, flagged |-> FALSE,
                      failed |-> FALSE, armed |-> clock, back |-> clock, nested |-> FALSE])
  /\ installed' = Len(calls) + 1
  /\ UNCHANGED <<clock, timer, outcome>>

\* signal.setitimer(signal.ITIMER_REAL, self.seconds)
Arm_UnlessRunning ==
  /\ At("arm")
  /\ timer' = IF timer = Off THEN clock + Top.limit ELSE timer
  /\ SetTop([Top EXCEPT !.at = "handler", !.armed = clock])
  /\ UNCHANGED <<clock, installed, outcome>>
Arm ==
  /\ At("arm")
  /\ timer' = clock + Top.limit
  /\ SetTop([Top EXCEPT !.at = "handler", !.armed = clock])
  /\ UNCHANGED <<clock, installed, outcome>>

\* The handler returns, or raises; time it takes passes in Tick.
HandlerBack(failed) ==
  /\ At("handler")
  /\ SetTop([Top EXCEPT !.at = "disarm", !.failed = failed, !.back = clock])
  /\ UNCHANGED <<clock, timer, installed, outcome>>

\* finally: setitimer(ITIMER_REAL, 0)
Disarm_Skipped ==
  /\ At("disarm")
  /\ SetTop([Top EXCEPT !.at = "restore"])
  /\ UNCHANGED <<clock, timer, installed, outcome>>
Disarm ==
  /\ At("disarm")
  /\ timer' = Off
  /\ SetTop([Top EXCEPT !.at = "restore"])
  /\ UNCHANGED <<clock, installed, outcome>>

\* signal.signal(SIGALRM, old_handler)
Restore_OneTooFar ==
  /\ At("restore")
  /\ installed' = Top.old - 1
  /\ SetTop([Top EXCEPT !.at = "decide"])
  /\ UNCHANGED <<clock, timer, outcome>>
Restore ==
  /\ At("restore")
  /\ installed' = Top.old
  /\ SetTop([Top EXCEPT !.at = "decide"])
  /\ UNCHANGED <<clock, timer, outcome>>

\* The exception of the handler goes on; otherwise the flag decides between
\* TimeoutError (or False) and the result.
Decide ==
  /\ At("decide")
  /\ calls' = Front(calls)
  /\ outcome' = IF Top.failed THEN "raised" ELSE IF Top.flagged THEN "timeout" ELSE "result"
  /\ UNCHANGED <<clock, timer, installed>>

Next ==
  \/ Alarm \/ Tick \/ Arm \/ Disarm \/ Restore \/ Decide
  \/ \E limit \in Limits : Install(limit)
  \/ \E failed \in BOOLEAN : HandlerBack(failed)

Spec == Init /\ [][Next]_vars
-------------------------------------------------------------------------------

(* What each variable holds (timeout.py:43-49). *)
TypeOK ==
  /\ clock \in Times
  /\ timer \in {Off} \cup Nat
  /\ installed \in 0 .. Depth
  /\ calls \in Seq(Frames) /\ Len(calls) <= Depth
  /\ outcome \in {"none", "raised", "timeout", "result"}

(* An armed timer always finds one of the policy's own handlers installed, *)
(* at whatever point of nested calls it expires, and when no call is in    *)
(* progress the process has its handler and no timer: the default action   *)
(* of SIGALRM would end it (timeout.py:48-54).                             *)
NoStrayAlarm ==
  /\ timer # Off => installed # Original
  /\ calls = <<>> => timer = Off /\ installed = Original

(* Once a call has set the timer no alarm but its own flags it: the flag   *)
(* then says that the call has run for its own limit.  The rest of a       *)
(* caller's timer, replaced at line 49 or cancelled at line 53 of a nested *)
(* call, reaches neither the nested call nor the caller (timeout.py:45-53).*)
FlaggedByOwnAlarm ==
  [][Alarm => \A d \in DOMAIN calls :
       calls[d].at # "arm" /\ ~calls[d].flagged /\ calls'[d].flagged
         => clock - calls[d].armed >= calls[d].limit]_vars

(* A handler that comes back after its limit is reported as timed out      *)
(* unless it raised, in nested calls as well; only a call whose handler    *)
(* called enforce() itself, and so lost its timer, may be missed           *)
(* (timeout.py:49 and 56-61).                                              *)
LateIsNoticed ==
  [][Decide /\ ~Top.nested /\ ~Top.failed /\ Top.back - Top.armed > Top.limit
       => outcome' = "timeout"]_vars

(* timeout.py:13: TimeoutError is "Raised when a handler exceeds its       *)
(* allotted processing time."  (Not so for a nested call: the alarm of its *)
(* caller may still come between lines 48 and 49.)                         *)
TimeoutMeansOverrun ==
  [][Decide /\ outcome' = "timeout" => clock - Top.armed >= Top.limit]_vars

(* timeout.py:28: the policy "Defines how long a handler may run before    *)
(* being cancelled."                                                       *)
CancelledInTime ==
  \A d \in DOMAIN calls : calls[d].at = "handler" => clock - calls[d].armed <= calls[d].limit

===============================================================================
