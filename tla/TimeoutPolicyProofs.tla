-------------------------- MODULE TimeoutPolicyProofs --------------------------
(***************************************************************************)
(* What the alarm of TimeoutPolicy does to nested calls, for every set of  *)
(* limits, depth of nesting and bound on the clock.                        *)
(***************************************************************************)
EXTENDS TimeoutPolicy, TLAPS

(* The calls in progress form a stack: each has found the handler of the   *)
(* one around it installed, and all but the innermost are in their         *)
(* handlers, which have called enforce().  What is installed is the        *)
(* innermost call's, until it has put the old handler back.                *)
Stacked ==
  /\ \A d \in DOMAIN calls :
       /\ calls[d].old = d - 1
       /\ d < Len(calls) => calls[d].at = "handler" /\ calls[d].nested
  /\ installed = IF At("decide") THEN Len(calls) - 1 ELSE Len(calls)

(* A running timer is not overdue, no call that has disarmed it is left,   *)
(* and it is that of the innermost call, but for one that is yet to set    *)
(* its own.                                                                *)
TimerOwned ==
  timer # Off =>
    /\ clock <= timer
    /\ calls # <<>> /\ Top.at \in {"arm", "handler", "disarm"}
    /\ Top.at # "arm" => timer = Top.armed + Top.limit

(* A call whose handler did not call enforce() has its timer running or    *)
(* its flag up as long as the handler runs; so a late one is flagged.      *)
Watched ==
  \A d \in DOMAIN calls : ~calls[d].nested =>
    /\ calls[d].at = "handler" => calls[d].flagged \/ timer = calls[d].armed + calls[d].limit
    /\ calls[d].at \in {"disarm", "restore", "decide"} =>
         calls[d].flagged \/ calls[d].back - calls[d].armed <= calls[d].limit

Inv == TypeOK /\ Stacked /\ TimerOwned /\ Watched

-------------------------------------------------------------------------------

(* What a step does that changes the innermost call alone. *)
LEMMA SetTopChanges ==
  ASSUME TypeOK, calls # <<>>, NEW f \in Frames, SetTop(f)
  PROVE  /\ Len(calls) \in Nat \ {0} /\ DOMAIN calls = 1 .. Len(calls)
         /\ \A d \in DOMAIN calls : calls[d] \in Frames
         /\ calls' \in Seq(Frames) /\ Len(calls') = Len(calls)
         /\ DOMAIN calls' = 1 .. Len(calls) /\ calls' # <<>>
         /\ calls'[Len(calls)] = f
         /\ \A d \in DOMAIN calls : d < Len(calls) => calls'[d] = calls[d]
BY DEF TypeOK, SetTop

(* What is left of the calls when the innermost one ends. *)
LEMMA FrontIsShorter ==
  ASSUME TypeOK, calls # <<>>
  PROVE  /\ Front(calls) \in Seq(Frames) /\ Len(Front(calls)) = Len(calls) - 1
         /\ DOMAIN Front(calls) = 1 .. Len(calls) - 1
         /\ \A d \in 1 .. Len(calls) - 1 : Front(calls)[d] = calls[d]
<1>1. calls \in Seq(Frames) /\ Len(calls) \in Nat \ {0}
  BY DEF TypeOK
<1>2. Front(calls) = SubSeq(calls, 1, Len(calls) - 1)
  BY DEF Front
<1>3. Front(calls) = [d \in 1 .. Len(calls) - 1 |-> calls[d]]
  BY <1>1, <1>2
<1> QED
  BY <1>1, <1>3

LEMMA TypeStep == TimeoutAssumption /\ TypeOK /\ [Next]_vars => TypeOK'
<1> SUFFICES ASSUME TimeoutAssumption, TypeOK, [Next]_vars PROVE TypeOK'
  OBVIOUS
<1> USE DEF TypeOK, Times, Off, TimeoutAssumption
<1>1. CASE Alarm
  <2>1. \A f \in Frames : [f EXCEPT !.flagged = TRUE] \in Frames
    BY DEF Frames
  <2>2. calls' \in Seq(Frames) /\ Len(calls') = Len(calls)
    BY <1>1, <2>1 DEF Alarm
  <2> QED
    BY <1>1, <2>2 DEF Alarm
<1>2. CASE Tick
  BY <1>2 DEF Tick
<1>3. ASSUME At("arm") \/ At("handler") \/ At("disarm") \/ At("restore") \/ At("decide")
      PROVE  /\ calls # <<>> /\ Len(calls) \in 1 .. Depth /\ Top \in Frames
             /\ Top.limit \in Nat /\ Top.old \in 0 .. Depth
  <2>1. calls # <<>> /\ Len(calls) \in 1 .. Depth /\ Top \in Frames
    BY <1>3 DEF At, Top
  <2> QED
    BY <2>1 DEF Frames
<1>4. CASE Arm
  <2>1. [Top EXCEPT !.at = "handler", !.armed = clock] \in Frames
    BY <1>3, <1>4 DEF Arm, Frames, Places
  <2> QED
    BY <1>3, <1>4, <2>1 DEF Arm, SetTop
<1>5. CASE \E limit \in Limits : Install(limit)
  <2> PICK limit \in Limits : Install(limit)
    BY <1>5
  <2> DEFINE outer == [d \in DOMAIN calls |-> [calls[d] EXCEPT !.nested = TRUE]]
             new   == [at |-> "arm", limit |-> limit, old |-> installed, flagged |-> FALSE,
                       failed |-> FALSE, armed |-> clock, back |-> clock, nested |-> FALSE]
  <2>1. outer \in Seq(Frames) /\ Len(outer) = Len(calls)
    <3>1. \A f \in Frames : [f EXCEPT !.nested = TRUE] \in Frames
      BY DEF Frames
    <3> QED
      BY <3>1
  <2>2. new \in Frames
    BY DEF Frames, Places
  <2>3. calls' = Append(outer, new)
    BY DEF Install
  <2>4. calls' \in Seq(Frames) /\ Len(calls') = Len(calls) + 1
    BY <2>1, <2>2, <2>3
  <2> QED
    BY <2>4 DEF Install
<1>6. CASE \E failed \in BOOLEAN : HandlerBack(failed)
  <2> PICK failed \in BOOLEAN : HandlerBack(failed)
    BY <1>6
  <2>1. [Top EXCEPT !.at = "disarm", !.failed = failed, !.back = clock] \in Frames
    BY <1>3, <1>6 DEF HandlerBack, Frames, Places
  <2> QED
    BY <1>3, <2>1 DEF HandlerBack, SetTop
<1>7. CASE Disarm
  <2>1. [Top EXCEPT !.at = "restore"] \in Frames
    BY <1>3, <1>7 DEF Disarm, Frames, Places
  <2> QED
    BY <1>3, <1>7, <2>1 DEF Disarm, SetTop
<1>8. CASE Restore
  <2>1. [Top EXCEPT !.at = "decide"] \in Frames
    BY <1>3, <1>8 DEF Restore, Frames, Places
  <2> QED
    BY <1>3, <1>8, <2>1 DEF Restore, SetTop
<1>9. CASE Decide
  <2>1. calls' \in Seq(Frames) /\ Len(calls') = Len(calls) - 1
    BY <1>3, <1>9, FrontIsShorter DEF Decide
  <2> QED
    BY <1>3, <1>9, <2>1 DEF Decide
<1>10. CASE UNCHANGED vars
  BY <1>10 DEF vars
<1> QED
  BY <1>1, <1>2, <1>4, <1>5, <1>6, <1>7, <1>8, <1>9, <1>10 DEF Next

(* What the members of Frames are, where arithmetic is about them. *)
LEMMA FramesFields ==
  ASSUME TimeoutAssumption, NEW f \in Frames
  PROVE  /\ f.limit \in Nat \ {0} /\ f.armed \in Nat /\ f.back \in Nat /\ f.old \in Nat
         /\ f.at \in {"arm", "handler", "disarm", "restore", "decide"}
         /\ f.flagged \in BOOLEAN /\ f.nested \in BOOLEAN /\ f.failed \in BOOLEAN
<1>1. f.limit \in Limits /\ f.armed \in Times /\ f.back \in Times /\ f.old \in 0 .. Depth
  BY DEF Frames
<1>2. /\ f.at \in {"arm", "handler", "disarm", "restore", "decide"}
      /\ f.flagged \in BOOLEAN /\ f.nested \in BOOLEAN /\ f.failed \in BOOLEAN
  BY DEF Frames, Places
<1>3. f.limit \in Nat \ {0} /\ f.armed \in Nat /\ f.back \in Nat /\ f.old \in Nat
  <2>1. f.limit \in Nat \ {0}
    BY <1>1 DEF TimeoutAssumption
  <2>2. f.armed \in Nat /\ f.back \in Nat /\ f.old \in Nat
    BY <1>1 DEF TimeoutAssumption, Times
  <2> QED
    BY <2>1, <2>2
<1> QED
  BY <1>2, <1>3, Zenon

(* A frame and what has become of it, but for the flag. *)
Same(f, g) ==
  /\ f.at = g.at /\ f.old = g.old /\ f.nested = g.nested
  /\ f.limit = g.limit /\ f.armed = g.armed /\ f.back = g.back

LEMMA InvInit == TimeoutAssumption /\ Init => Inv
<1> SUFFICES ASSUME TimeoutAssumption, Init PROVE Inv
  OBVIOUS
<1>1. calls = <<>> /\ timer = Off /\ installed = 0 /\ Len(calls) = 0 /\ DOMAIN calls = {}
  BY DEF Init, Original
<1>2. TypeOK
  BY <1>1 DEF Init, TypeOK, Times, TimeoutAssumption
<1>3. Stacked /\ TimerOwned /\ Watched
  BY <1>1 DEF Stacked, TimerOwned, Watched, At
<1> QED
  BY <1>2, <1>3 DEF Inv

(* What a step that changes the innermost call alone, to f, has to see to  *)
(* for each part of the invariant.                                         *)
LEMMA TopStep ==
  ASSUME TimeoutAssumption, Inv, calls # <<>>, NEW f \in Frames, SetTop(f)
  PROVE  /\ /\ f.old = Top.old
            /\ installed' = IF f.at = "decide" THEN Len(calls) - 1 ELSE Len(calls)
            => Stacked'
         /\ /\ ~f.nested /\ f.at = "handler" => f.flagged \/ timer' = f.armed + f.limit
            /\ ~f.nested /\ f.at \in {"disarm", "restore", "decide"} =>
                 f.flagged \/ f.back - f.armed <= f.limit
            => Watched'
<1> DEFINE L == Len(calls)
<1>1. /\ L \in Nat /\ L \in DOMAIN calls /\ DOMAIN calls' = 1 .. L
      /\ DOMAIN calls = 1 .. L /\ Len(calls') = L
      /\ calls' # <<>> /\ calls'[L] = f /\ Top = calls[L] /\ Top' = f
      /\ \A d \in 1 .. L : d # L => calls'[d] = calls[d] /\ d < L
  BY SetTopChanges DEF Inv, Top
<1>2. Stacked /\ Watched
  BY DEF Inv
<1>3. ASSUME NEW d \in 1 .. L, d # L
      PROVE  calls'[d] = calls[d] /\ calls[d].at = "handler" /\ calls[d].nested
             /\ calls[d].old = d - 1
  BY <1>1, <1>2, <1>3 DEF Stacked
<1>4. calls[L].old = L - 1 /\ L = Len(calls)
  BY <1>1, <1>2 DEF Stacked
<1> HIDE DEF L
<1>5. ASSUME f.old = Top.old, installed' = IF f.at = "decide" THEN L - 1 ELSE L PROVE Stacked'
  <2>1. \A d \in DOMAIN calls' :
          /\ calls'[d].old = d - 1
          /\ d < Len(calls') => calls'[d].at = "handler" /\ calls'[d].nested
    <3>1. ASSUME NEW d \in 1 .. L
          PROVE  calls'[d].old = d - 1 /\ (d < L => calls'[d].at = "handler" /\ calls'[d].nested)
      <4>1. CASE d = L
        <5>1. calls'[L].old = calls[L].old
          BY <1>1, <1>5, Zenon
        <5>2. L \in Nat /\ Len(calls') = L
          BY <1>1
        <5> QED
          BY <1>4, <4>1, <5>1, <5>2
      <4>2. CASE d # L
        BY <1>3, <4>2
      <4> QED
        BY <4>1, <4>2
    <3> QED
      BY <1>1, <3>1
  <2>2. At("decide")' <=> f.at = "decide"
    BY <1>1 DEF At
  <2> QED
    BY <1>1, <1>5, <2>1, <2>2 DEF Stacked
<1>6. ASSUME /\ ~f.nested /\ f.at = "handler" => f.flagged \/ timer' = f.armed + f.limit
             /\ ~f.nested /\ f.at \in {"disarm", "restore", "decide"} =>
                  f.flagged \/ f.back - f.armed <= f.limit
      PROVE  Watched'
  BY <1>1, <1>3, <1>6 DEF Watched
<1> QED
  BY <1>4, <1>5, <1>6

LEMMA InvStep == TimeoutAssumption /\ Inv /\ [Next]_vars => Inv'
<1> SUFFICES ASSUME TimeoutAssumption, Inv, [Next]_vars PROVE Inv'
  OBVIOUS
<1>1. /\ TypeOK /\ TypeOK'
      /\ Stacked /\ TimerOwned /\ Watched
  BY TypeStep DEF Inv
<1>2. /\ clock \in Nat /\ clock' \in Nat /\ timer \in {Off} \cup Nat /\ timer' \in {Off} \cup Nat
      /\ calls \in Seq(Frames) /\ calls' \in Seq(Frames)
      /\ DOMAIN calls = 1 .. Len(calls) /\ Len(calls) \in Nat
      /\ \A d \in DOMAIN calls : calls[d] \in Frames
  BY <1>1 DEF TypeOK, Times, TimeoutAssumption
<1>3. CASE Alarm
  <2>1. DOMAIN calls' = DOMAIN calls /\ Len(calls') = Len(calls)
    BY <1>2, <1>3 DEF Alarm
  <2>2. /\ \A d \in DOMAIN calls : Same(calls'[d], calls[d])
        /\ \A d \in DOMAIN calls : d # installed => calls'[d] = calls[d]
        /\ installed \in DOMAIN calls => calls'[installed].flagged
    BY <1>2, <1>3, FramesFields DEF Alarm, Frames, Same
  <2>3. At("decide")' <=> At("decide")
    BY <1>2, <2>1, <2>2 DEF At, Top, Same
  <2>4. installed = Len(calls) /\ installed \in DOMAIN calls
    <3>1. calls # <<>> /\ Top.at # "decide"
      BY <1>1, <1>3 DEF Alarm, TimerOwned
    <3> QED
      BY <1>1, <1>2, <3>1 DEF Stacked, At
  <2>5. Stacked' /\ TimerOwned'
    <3>1. timer' = Off /\ installed' = installed
      BY <1>3 DEF Alarm
    <3> QED
      BY <1>1, <1>2, <2>1, <2>2, <2>3, <3>1 DEF Stacked, TimerOwned, Same
  <2>6. Watched'
    BY <1>1, <1>2, <1>3, <2>1, <2>2, <2>4 DEF Watched, Stacked, Same
  <2> QED
    BY <1>1, <2>5, <2>6 DEF Inv
<1>4. CASE Tick
  <2>1. UNCHANGED <<timer, installed, calls>> /\ clock' = clock + 1 /\ (timer = Off \/ timer > clock)
    BY <1>4 DEF Tick
  <2>2. Stacked' /\ Watched'
    BY <1>1, <2>1 DEF Stacked, Watched, At, Top
  <2>3. TimerOwned'
    BY <1>1, <1>2, <2>1 DEF TimerOwned, Top
  <2> QED
    BY <1>1, <2>2, <2>3 DEF Inv
<1>5. CASE \E limit \in Limits : Install(limit)
  <2> PICK limit \in Limits : Install(limit)
    BY <1>5
  <2> DEFINE L == Len(calls)
             outer == [d \in DOMAIN calls |-> [calls[d] EXCEPT !.nested = TRUE]]
             new   == [at |-> "arm", limit |-> limit, old |-> installed, flagged |-> FALSE,
                       failed |-> FALSE, armed |-> clock, back |-> clock, nested |-> FALSE]
  <2>1. calls' = Append(outer, new) /\ installed' = L + 1 /\ UNCHANGED <<clock, timer>>
    BY DEF Install
  <2>2. outer \in Seq(Frames) /\ Len(outer) = L
    <3>1. \A f \in Frames : [f EXCEPT !.nested = TRUE] \in Frames
      BY DEF Frames
    <3> QED
      BY <1>2, <3>1
  <2>3. /\ Len(calls') = L + 1 /\ DOMAIN calls' = 1 .. L + 1
        /\ \A d \in DOMAIN calls : calls'[d] = [calls[d] EXCEPT !.nested = TRUE]
        /\ calls'[L + 1] = new
    BY <1>2, <2>1, <2>2
  <2>4. \A d \in DOMAIN calls :
          /\ calls'[d].nested /\ calls'[d].at = calls[d].at /\ calls'[d].old = calls[d].old
          /\ calls'[d].limit = calls[d].limit /\ calls'[d].armed = calls[d].armed
          /\ calls'[d].flagged = calls[d].flagged
    BY <1>2, <2>3 DEF Frames
  <2>5. /\ calls'[L + 1].at = "arm" /\ calls'[L + 1].old = installed
        /\ ~calls'[L + 1].flagged
    BY <2>3
  <2>6. installed = L /\ (calls # <<>> => calls[L].at = "handler")
    BY <1>1 DEF Install, Stacked, At, Top
  <2> HIDE DEF L, outer, new
  <2>7. L = Len(calls) /\ L \in Nat
    BY <1>2 DEF L
  <2>8. Stacked'
    <3>1. At("decide")' <=> FALSE
      BY <1>2, <2>3, <2>5, <2>7 DEF At, Top
    <3>2. \A d \in DOMAIN calls : calls[d].at = "handler" /\ calls[d].old = d - 1
      <4>1. ASSUME NEW d \in DOMAIN calls PROVE calls[d].at = "handler"
        <5>1. calls # <<>>
          BY <1>2
        <5>2. d = L \/ d < L
          BY <1>2, <2>7
        <5> QED
          BY <1>1, <2>6, <2>7, <5>1, <5>2 DEF Stacked
      <4> QED
        BY <1>1, <4>1 DEF Stacked
    <3> QED
      BY <1>2, <2>1, <2>3, <2>4, <2>5, <2>6, <2>7, <3>1, <3>2 DEF Stacked
  <2>9. TimerOwned'
    <3>1. calls' # <<>> /\ Top'.at = "arm"
      BY <2>3, <2>5, <2>7 DEF Top
    <3> QED
      BY <1>1, <2>1, <3>1 DEF TimerOwned
  <2>10. Watched'
    BY <1>2, <2>3, <2>4, <2>5, <2>7 DEF Watched
  <2> QED
    BY <1>1, <2>8, <2>9, <2>10 DEF Inv
<1>6. ASSUME NEW f \in Frames, calls # <<>>, SetTop(f)
      PROVE  /\ Len(calls) \in DOMAIN calls /\ DOMAIN calls' = DOMAIN calls
             /\ Len(calls') = Len(calls) /\ calls' # <<>> /\ Top' = f
             /\ calls'[Len(calls)] = f
             /\ \A d \in DOMAIN calls : d # Len(calls) => calls'[d] = calls[d] /\ d < Len(calls)
  BY <1>1, <1>2, <1>6, SetTopChanges DEF Top
<1>7. CASE Arm
  <2> DEFINE f == [Top EXCEPT !.at = "handler", !.armed = clock]
  <2>1. calls # <<>> /\ Top.at = "arm" /\ Top \in Frames
    BY <1>2, <1>7 DEF Arm, At, Top
  <2>2. /\ f \in Frames
        /\ f.at = "handler" /\ f.armed = clock /\ f.old = Top.old
        /\ f.limit = Top.limit /\ f.flagged = Top.flagged
    BY <1>1, <2>1 DEF Frames, Places, TypeOK
  <2>3. SetTop(f) /\ timer' = clock + f.limit /\ UNCHANGED <<clock, installed>>
    BY <1>7, <2>2 DEF Arm
  <2> HIDE DEF f
  <2>4. installed = Len(calls)
    BY <1>1, <2>1 DEF Stacked, At
  <2>5. Stacked' /\ Watched'
    BY <2>1, <2>2, <2>3, <2>4, TopStep
  <2>6. TimerOwned'
    <3>1. f.limit \in Nat /\ f.armed = clock /\ Len(calls) \in DOMAIN calls'
      BY <1>6, <2>1, <2>2, <2>3, FramesFields
    <3>2. clock' <= timer' /\ calls' # <<>> /\ Top'.at = "handler"
      BY <1>2, <1>6, <2>1, <2>2, <2>3, <3>1
    <3>3. timer' = Top'.armed + Top'.limit
      BY <1>6, <2>1, <2>2, <2>3, <3>1
    <3> QED
      BY <3>2, <3>3 DEF TimerOwned
  <2> QED
    BY <1>1, <2>5, <2>6 DEF Inv
<1>8. CASE \E failed \in BOOLEAN : HandlerBack(failed)
  <2> PICK failed \in BOOLEAN : HandlerBack(failed)
    BY <1>8
  <2> DEFINE f == [Top EXCEPT !.at = "disarm", !.failed = failed, !.back = clock]
  <2>1. calls # <<>> /\ Top.at = "handler" /\ Top \in Frames
    BY <1>2 DEF HandlerBack, At, Top
  <2>2. /\ f \in Frames
        /\ f.at = "disarm" /\ f.back = clock /\ f.old = Top.old /\ f.armed = Top.armed
        /\ f.limit = Top.limit /\ f.nested = Top.nested /\ f.flagged = Top.flagged
    BY <1>1, <2>1 DEF Frames, Places, TypeOK
  <2>3. SetTop(f) /\ UNCHANGED <<clock, timer, installed>>
    BY DEF HandlerBack
  <2> HIDE DEF f
  <2>4. installed = Len(calls)
    BY <1>1, <2>1 DEF Stacked, At
  <2>5. f.flagged \/ f.nested \/ f.back - f.armed <= f.limit
    <3>1. CASE timer = f.armed + f.limit
      <4>1. timer # Off /\ clock <= timer
        BY <1>1, <2>2, <3>1, FramesFields DEF Off, TimerOwned
      <4> QED
        BY <1>2, <2>2, <3>1, <4>1, FramesFields
    <3>2. f.flagged \/ f.nested \/ timer = f.armed + f.limit
      BY <1>1, <1>6, <2>1, <2>2, <2>3 DEF Watched, Top
    <3> QED
      BY <3>1, <3>2
  <2>6. Stacked'
    BY <2>1, <2>2, <2>3, <2>4, TopStep
  <2>7. Watched'
    BY <2>1, <2>2, <2>3, <2>5, TopStep
  <2>8. TimerOwned'
    <3>1. calls' # <<>> /\ Top' = f
      BY <1>6, <2>1, <2>2, <2>3
    <3> QED
      BY <1>1, <2>1, <2>2, <2>3, <3>1 DEF TimerOwned
  <2> QED
    BY <1>1, <2>6, <2>7, <2>8 DEF Inv
<1>9. CASE Disarm
  <2> DEFINE f == [Top EXCEPT !.at = "restore"]
  <2>1. calls # <<>> /\ Top.at = "disarm" /\ Top \in Frames /\ Top = calls[Len(calls)]
    BY <1>2, <1>9 DEF Disarm, At, Top
  <2>2. /\ f \in Frames
        /\ f.at = "restore" /\ f.back = Top.back /\ f.old = Top.old /\ f.armed = Top.armed
        /\ f.limit = Top.limit /\ f.nested = Top.nested /\ f.flagged = Top.flagged
    BY <2>1 DEF Frames, Places
  <2>3. SetTop(f) /\ timer' = Off /\ UNCHANGED <<clock, installed>>
    BY <1>9 DEF Disarm
  <2> HIDE DEF f
  <2>4. installed = Len(calls)
    BY <1>1, <2>1 DEF Stacked, At
  <2>5. f.flagged \/ f.nested \/ f.back - f.armed <= f.limit
    BY <1>1, <1>6, <2>1, <2>2, <2>3 DEF Watched
  <2>6. Stacked'
    BY <2>1, <2>2, <2>3, <2>4, TopStep
  <2>7. Watched'
    BY <2>1, <2>2, <2>3, <2>5, TopStep
  <2>8. TimerOwned'
    BY <2>3 DEF TimerOwned
  <2> QED
    BY <1>1, <2>6, <2>7, <2>8 DEF Inv
<1>10. CASE Restore
  <2> DEFINE f == [Top EXCEPT !.at = "decide"]
  <2>1. calls # <<>> /\ Top.at = "restore" /\ Top \in Frames /\ Top = calls[Len(calls)]
    BY <1>2, <1>10 DEF Restore, At, Top
  <2>2. /\ f \in Frames
        /\ f.at = "decide" /\ f.back = Top.back /\ f.old = Top.old /\ f.armed = Top.armed
        /\ f.limit = Top.limit /\ f.nested = Top.nested /\ f.flagged = Top.flagged
    BY <2>1 DEF Frames, Places
  <2>3. SetTop(f) /\ installed' = Top.old /\ UNCHANGED <<clock, timer>>
    BY <1>10 DEF Restore
  <2> HIDE DEF f
  <2>4. timer = Off /\ Top.old = Len(calls) - 1
    BY <1>1, <1>2, <1>6, <2>1, <2>2, <2>3 DEF TimerOwned, Stacked
  <2>5. f.flagged \/ f.nested \/ f.back - f.armed <= f.limit
    BY <1>1, <1>6, <2>1, <2>2, <2>3 DEF Watched
  <2>6. Stacked'
    BY <2>1, <2>2, <2>3, <2>4, TopStep
  <2>7. Watched'
    BY <2>1, <2>2, <2>3, <2>5, TopStep
  <2>8. TimerOwned'
    BY <2>3, <2>4 DEF TimerOwned
  <2> QED
    BY <1>1, <2>6, <2>7, <2>8 DEF Inv
<1>11. CASE Decide
  <2>1. calls # <<>> /\ At("decide") /\ calls' = Front(calls) /\ UNCHANGED <<clock, timer, installed>>
    BY <1>11 DEF Decide, At
  <2>2. /\ Len(calls') = Len(calls) - 1 /\ DOMAIN calls' = 1 .. Len(calls) - 1
        /\ Len(calls) \in Nat \ {0}
        /\ \A d \in DOMAIN calls' : calls'[d] = calls[d] /\ d \in DOMAIN calls /\ d < Len(calls)
    <3>1. /\ Len(calls') = Len(calls) - 1 /\ DOMAIN calls' = 1 .. Len(calls) - 1
          /\ \A d \in 1 .. Len(calls) - 1 : calls'[d] = calls[d]
      BY <1>1, <2>1, FrontIsShorter
    <3>2. Len(calls) \in Nat \ {0}
      BY <1>2, <2>1
    <3> QED
      BY <1>2, <3>1, <3>2
  <2>3. timer = Off /\ installed = Len(calls) - 1
    BY <1>1, <2>1 DEF TimerOwned, Stacked, At
  <2>4. Stacked'
    <3>1. ~At("decide")'
      <4>1. calls' # <<>> => Len(calls') \in DOMAIN calls' /\ Top' = calls'[Len(calls')]
        BY <1>2, <2>2 DEF Top
      <4> QED
        BY <1>1, <2>2, <4>1 DEF At, Stacked
    <3> QED
      BY <1>1, <1>2, <2>1, <2>2, <2>3, <3>1 DEF Stacked
  <2>5. TimerOwned'
    BY <2>1, <2>3 DEF TimerOwned
  <2>6. Watched'
    BY <1>1, <2>1, <2>2 DEF Watched
  <2> QED
    BY <1>1, <2>4, <2>5, <2>6 DEF Inv
<1>12. CASE UNCHANGED vars
  <2>1. UNCHANGED <<clock, timer, installed, calls>>
    BY <1>12 DEF vars
  <2> QED
    BY <1>1, <2>1 DEF Inv, Stacked, TimerOwned, Watched, At, Top
<1> QED
  BY <1>3, <1>4, <1>5, <1>7, <1>8, <1>9, <1>10, <1>11, <1>12 DEF Next

(* Every variable keeps its type (timeout.py:43-49). *)
THEOREM TypeCorrect == ASSUME TimeoutAssumption PROVE Spec => []TypeOK
<1>1. Init => TypeOK
  BY InvInit DEF Inv
<1>2. TypeOK /\ [Next]_vars => TypeOK'
  BY TypeStep
<1> QED
  BY <1>1, <1>2, PTL DEF Spec

LEMMA AlwaysInv == ASSUME TimeoutAssumption PROVE Spec => []Inv
<1>1. Init => Inv
  BY InvInit
<1>2. Inv /\ [Next]_vars => Inv'
  BY InvStep
<1> QED
  BY <1>1, <1>2, PTL DEF Spec

(* The alarm never hits a process without a handler for it, however deep   *)
(* the calls nest (timeout.py:48-54).                                      *)
THEOREM AlarmIsHandled == ASSUME TimeoutAssumption PROVE Spec => []NoStrayAlarm
<1>1. Inv => NoStrayAlarm
  <2> SUFFICES ASSUME Inv PROVE NoStrayAlarm
    OBVIOUS
  <2>1. Len(calls) \in Nat /\ (calls = <<>> <=> Len(calls) = 0)
    BY DEF Inv, TypeOK
  <2>2. timer # Off => calls # <<>> /\ installed = Len(calls)
    BY DEF Inv, Stacked, TimerOwned, At
  <2>3. calls = <<>> => installed = Len(calls)
    BY DEF Inv, Stacked, At
  <2> QED
    BY <2>1, <2>2, <2>3 DEF NoStrayAlarm, Original
<1> QED
  BY <1>1, AlwaysInv, PTL

(* The timer that expires is that of the innermost call, which it flags.   *)
LEMMA OwnAlarm ==
  ASSUME TimeoutAssumption, Inv, Alarm, NEW d \in DOMAIN calls,
         calls[d].at # "arm", ~calls[d].flagged, calls'[d].flagged
  PROVE  clock - calls[d].armed >= calls[d].limit
<1>1. timer # Off /\ timer <= clock /\ clock \in Nat
  BY DEF Alarm, Inv, TypeOK, Times, TimeoutAssumption
<1>2. calls # <<>> /\ Top.at # "decide" /\ (Top.at # "arm" => timer = Top.armed + Top.limit)
  BY <1>1 DEF Inv, TimerOwned
<1>3. installed = Len(calls) /\ Top = calls[Len(calls)]
  BY <1>2 DEF Inv, Stacked, At, Top
<1>4. calls'[d] = IF d = installed THEN [calls[d] EXCEPT !.flagged = TRUE] ELSE calls[d]
  BY DEF Alarm
<1>5. calls[d] = Top
  BY <1>3, <1>4
<1>6. calls[d] \in Frames
  BY DEF Inv, TypeOK
<1>7. timer = calls[d].armed + calls[d].limit
  BY <1>2, <1>5
<1> QED
  BY <1>1, <1>6, <1>7, FramesFields

(* Once a call has set the timer, only its own alarm takes it for late     *)
(* (timeout.py:45-53).                                                     *)
THEOREM FlaggedInTurn == ASSUME TimeoutAssumption PROVE Spec => FlaggedByOwnAlarm
<1>1. Inv /\ [Next]_vars =>
        [Alarm => \A d \in DOMAIN calls :
           calls[d].at # "arm" /\ ~calls[d].flagged /\ calls'[d].flagged
             => clock - calls[d].armed >= calls[d].limit]_vars
  BY OwnAlarm
<1> QED
  BY <1>1, AlwaysInv, PTL DEF Spec, FlaggedByOwnAlarm

(* A handler that overran its limit is reported as timed out               *)
(* (timeout.py:56-61).                                                     *)
THEOREM LateReported == ASSUME TimeoutAssumption PROVE Spec => LateIsNoticed
<1>1. Inv /\ [Next]_vars =>
        [Decide /\ ~Top.nested /\ ~Top.failed /\ Top.back - Top.armed > Top.limit
           => outcome' = "timeout"]_vars
  <2> SUFFICES ASSUME Inv, Decide, ~Top.nested, ~Top.failed, Top.back - Top.armed > Top.limit
               PROVE outcome' = "timeout"
    OBVIOUS
  <2>1. Top = calls[Len(calls)] /\ Len(calls) \in DOMAIN calls /\ Top \in Frames /\ Top.at = "decide"
    BY DEF Decide, At, Top, Inv, TypeOK
  <2>2. Top.flagged \/ Top.back - Top.armed <= Top.limit
    BY <2>1 DEF Inv, Watched
  <2>3. Top.flagged
    BY <2>1, <2>2, FramesFields
  <2> QED
    BY <2>3 DEF Decide
<1> QED
  BY <1>1, AlwaysInv, PTL DEF Spec, LateIsNoticed

===============================================================================
