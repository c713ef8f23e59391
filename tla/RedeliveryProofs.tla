--------------------------- MODULE RedeliveryProofs ---------------------------
(***************************************************************************)
(* Proofs about Redelivery, for any threads, messages, budgets, strategies *)
(* and delays.                                                             *)
(***************************************************************************)
EXTENDS Redelivery, FiniteSetTheorems, SequenceTheorems, TLAPS

Entry == [id : 1 .. made, msg : Msgs, retryAt : 0 .. MaxTime]

\* The entries that a flush may have found due.
Due == {e \in Entry : e.retryAt <= clock}

\* The tries a message gets each time it joins the queue.
Budget(m) == IF MaxAttempts[m] > 0 THEN MaxAttempts[m] ELSE 0

\* What is in the queue: a message with no more failures than that.
Wrapping == {w \in [msg : Msgs, attempt : Nat] : w.attempt <= Budget(w.msg)}

(* The fields of a call, at each of its places. *)
Scanning(c)  == c \in [at : {"scan"}, now : 0 .. clock, i : Nat \ {0}, due : Seq(Due)]
Removing(c)  == c \in [at : {"remove"}, due : Seq(Due)] /\ c.due # <<>>
Enqueuing(c) == c \in [at : {"enqueue"}, entry : Due, due : Seq(Due)]
Replaying(c) ==
  /\ c \in [at : {"replay"}, todo : Seq(Msgs), all : SUBSET Msgs, sent : SUBSET Msgs]
  /\ c.sent \subseteq c.all
  /\ \A i \in 1 .. Len(c.todo) : c.todo[i] \in c.all \ c.sent
  /\ \A i, j \in 1 .. Len(c.todo) : i # j => c.todo[i] # c.todo[j]

Fields(c) == c = Idle \/ Scanning(c) \/ Removing(c) \/ Enqueuing(c) \/ Replaying(c)

Calls == DOMAIN call = Threads /\ \A t \in Threads : Fields(call[t])

Store ==
  /\ strategy \in Strategies /\ clock \in 0 .. MaxTime
  /\ scheduled \in Seq(Entry) /\ made \in 0 .. MaxSchedules
  /\ queue \in Seq(Wrapping)
  /\ dead \subseteq Msgs /\ done \subseteq Msgs /\ doubtful \subseteq Msgs
  /\ tries \in [Msgs -> Nat] /\ joins \in [Msgs -> Nat] /\ replays \in 0 .. MaxReplays

Typed == Store /\ Calls

LEMMA TailOf ==
  ASSUME NEW S, NEW s \in Seq(S), s # <<>>
  PROVE  /\ Head(s) \in S /\ Head(s) = s[1] /\ Tail(s) \in Seq(S)
         /\ Len(s) \in Nat \ {0} /\ Len(Tail(s)) = Len(s) - 1
         /\ \A i \in 1 .. Len(s) - 1 : Tail(s)[i] = s[i + 1]
BY HeadTailProperties

(* What is left of a sequence without its i-th element. *)
LEMMA RemoveAtSeq ==
  ASSUME NEW S, NEW s \in Seq(S), NEW i \in 1 .. Len(s)
  PROVE  /\ RemoveAt(s, i) \in Seq(S) /\ Len(RemoveAt(s, i)) = Len(s) - 1
         /\ \A k \in 1 .. Len(s) - 1 : RemoveAt(s, i)[k] = IF k < i THEN s[k] ELSE s[k + 1]
<1> DEFINE a == SubSeq(s, 1, i - 1)
           b == SubSeq(s, i + 1, Len(s))
<1>1. /\ a \in Seq(S) /\ Len(a) = i - 1
      /\ \A k \in 1 .. i - 1 : a[k] = s[k]
  OBVIOUS
<1>2. /\ b \in Seq(S) /\ Len(b) = Len(s) - i
      /\ \A k \in 1 .. Len(s) - i : b[k] = s[k + i]
  OBVIOUS
<1>3. RemoveAt(s, i) = a \o b
  BY DEF RemoveAt
<1> HIDE DEF a, b
<1>4. /\ a \o b \in Seq(S) /\ Len(a \o b) = Len(s) - 1
      /\ \A k \in 1 .. Len(s) - 1 : (a \o b)[k] = IF k < i THEN a[k] ELSE b[k - i + 1]
  <2>1. a \o b \in Seq(S) /\ Len(a \o b) = Len(a) + Len(b)
    BY <1>1, <1>2, ConcatProperties
  <2>2. ASSUME NEW k \in 1 .. Len(s) - 1
        PROVE  (a \o b)[k] = IF k < i THEN a[k] ELSE b[k - i + 1]
    <3>1. (a \o b)[k] = IF k <= Len(a) THEN a[k] ELSE b[k - Len(a)]
      BY <1>1, <1>2
    <3>2. (k <= Len(a)) <=> (k < i)
      BY <1>1
    <3>3. k - Len(a) = k - i + 1
      BY <1>1
    <3> QED
      BY <3>1, <3>2, <3>3
  <2> QED
    BY <1>1, <1>2, <2>1, <2>2
<1>5. ASSUME NEW k \in 1 .. Len(s) - 1
      PROVE  (a \o b)[k] = IF k < i THEN s[k] ELSE s[k + 1]
  <2>1. (a \o b)[k] = IF k < i THEN a[k] ELSE b[k - i + 1]
    BY <1>4
  <2>2. CASE k < i
    <3>1. k \in 1 .. i - 1
      BY <2>2
    <3> QED
      BY <1>1, <2>1, <2>2, <3>1
  <2>3. CASE ~ (k < i)
    <3>1. k - i + 1 \in 1 .. Len(s) - i /\ (k - i + 1) + i = k + 1
      BY <2>3
    <3>2. b[k - i + 1] = s[(k - i + 1) + i]
      BY <1>2, <3>1
    <3> QED
      BY <2>1, <2>3, <3>1, <3>2
  <2> QED
    BY <2>2, <2>3
<1> QED
  BY <1>3, <1>4, <1>5


LEMMA Consts ==
  ASSUME RedeliveryAssumption
  PROVE  /\ Replayers \subseteq Threads /\ IsFiniteSet(Msgs)
         /\ MaxAttempts \in [Msgs -> Int]
         /\ Strategies \subseteq {"constant", "linear", "exponential", "jittered"}
         /\ Base \in Nat /\ Multiplier \in Nat \ {0, 1} /\ MaxDelay \in Nat
         /\ MaxTime \in Nat /\ MaxSchedules \in Nat /\ MaxReplays \in Nat
BY DEF RedeliveryAssumption

LEMMA Attempted ==
  ASSUME RedeliveryAssumption, NEW m \in Msgs
  PROVE  Budget(m) \in Nat /\ \A n \in Nat : Spent(m, n) <=> n >= Budget(m)
BY DEF RedeliveryAssumption, Budget, Spent

LEMMA Wrapped ==
  ASSUME RedeliveryAssumption, NEW e \in Wrapping
  PROVE  /\ e.msg \in Msgs /\ e.attempt \in 0 .. Budget(e.msg)
         /\ Budget(e.msg) \in Nat /\ e.attempt \in Nat
BY Attempted DEF Wrapping

LEMMA Wraps ==
  ASSUME RedeliveryAssumption, NEW m \in Msgs, NEW n \in Nat, n <= Budget(m)
  PROVE  [msg |-> m, attempt |-> n] \in Wrapping
BY DEF Wrapping

(* A call keeps its fields when entries are added and time passes. *)
LEMMA FieldsStay ==
  ASSUME RedeliveryAssumption, Store, Store', made <= made', clock <= clock', NEW c, Fields(c)
  PROVE  Fields(c)'
<1>1. Due \subseteq Due'
  BY DEF Due, Entry, Store
<1>2. Seq(Due) \subseteq Seq(Due')
  BY <1>1, SeqMonotonic
<1>3. 0 .. clock \subseteq 0 .. clock'
  BY DEF Store
<1>4. ASSUME Scanning(c) PROVE Scanning(c)'
  BY <1>2, <1>3, <1>4 DEF Scanning
<1>5. ASSUME Removing(c) PROVE Removing(c)'
  BY <1>2, <1>5 DEF Removing
<1>6. ASSUME Enqueuing(c) PROVE Enqueuing(c)'
  BY <1>1, <1>2, <1>6 DEF Enqueuing
<1>7. ASSUME Replaying(c) PROVE Replaying(c)'
  BY <1>7 DEF Replaying
<1> QED
  BY <1>4, <1>5, <1>6, <1>7 DEF Fields, Idle

LEMMA CallsStay ==
  ASSUME RedeliveryAssumption, Typed, Store', made <= made', clock <= clock', UNCHANGED call
  PROVE  Calls'
<1>1. \A t \in Threads : Fields(call[t])'
  <2>1. ASSUME NEW t \in Threads PROVE Fields(call[t])'
    <3>1. PICK c : c = call[t]
      OBVIOUS
    <3>2. Fields(c)
      BY <3>1 DEF Typed, Calls
    <3>3. Fields(c)'
      BY <3>2, FieldsStay DEF Typed
    <3>4. call'[t] = c
      BY <3>1
    <3> QED
      BY <3>3, <3>4 DEF Fields, Scanning, Removing, Enqueuing, Replaying
  <2> QED
    BY <2>1
<1> QED
  BY <1>1 DEF Typed, Calls

LEMMA CallsGo ==
  ASSUME RedeliveryAssumption, Typed, Store', made <= made', clock <= clock',
         NEW t \in Threads, NEW c, Goto(t, c), Fields(c)'
  PROVE  Calls'
<1>1. DOMAIN call' = Threads /\ call'[t] = c /\ \A u \in Threads \ {t} : call'[u] = call[u]
  BY DEF Goto, Typed, Calls
<1>2. ASSUME NEW u \in Threads PROVE Fields(call[u])'
  <2>1. CASE u = t
    BY <1>1, <2>1 DEF Fields, Scanning, Removing, Enqueuing, Replaying
  <2>2. CASE u # t
    <3>1. PICK d : d = call[u]
      OBVIOUS
    <3>2. Fields(d)
      BY <3>1 DEF Typed, Calls
    <3>3. Fields(d)'
      BY <3>2, FieldsStay DEF Typed
    <3>4. call'[u] = d
      BY <1>1, <2>2, <3>1
    <3> QED
      BY <3>3, <3>4 DEF Fields, Scanning, Removing, Enqueuing, Replaying
  <2> QED
    BY <2>1, <2>2
<1> QED
  BY <1>1, <1>2 DEF Calls

(* What a call is, by its place. *)
LEMMA Places ==
  ASSUME RedeliveryAssumption, Typed, NEW t \in Threads
  PROVE  /\ Fields(call[t])
         /\ At(t, "idle") => call[t] = Idle
         /\ At(t, "scan") => Scanning(call[t])
         /\ At(t, "remove") => Removing(call[t])
         /\ At(t, "enqueue") => Enqueuing(call[t])
         /\ At(t, "replay") => Replaying(call[t])
BY DEF Typed, Calls, Fields, At, Idle, Scanning, Removing, Enqueuing, Replaying

LEMMA TypedInit == ASSUME RedeliveryAssumption PROVE Init => Typed
BY Consts DEF Init, Typed, Store, Calls, Fields, Entry

LEMMA LoopFields ==
  ASSUME NEW due \in Seq(Due)
  PROVE  Fields(Loop(due))
BY DEF Loop, Fields, Removing, Idle

(* The steps of the queue, and of the calls. *)
LEMMA EnqueueKeeps ==
  ASSUME RedeliveryAssumption, Store, NEW m \in Msgs, Enqueue(m)
  PROVE  /\ queue' \in Seq(Wrapping)
         /\ joins' \in [Msgs -> Nat]
<1>1. [msg |-> m, attempt |-> 0] \in Wrapping
  BY Attempted, Wraps
<1> QED
  BY <1>1 DEF Enqueue, Store

LEMMA TypedQueue ==
  ASSUME RedeliveryAssumption, Typed, Tick \/ Succeed \/ Fail \/ GiveUp
  PROVE  Typed'
<1>1. Store
  BY DEF Typed
<1>2. ASSUME queue # <<>>
      PROVE  /\ Head(queue) \in Wrapping /\ Tail(queue) \in Seq(Wrapping)
             /\ Head(queue).msg \in Msgs /\ Head(queue).attempt \in Nat
  <2>1. Head(queue) \in Wrapping /\ Tail(queue) \in Seq(Wrapping)
    BY <1>1, <1>2, TailOf DEF Store
  <2> QED
    BY <2>1, Wrapped
<1>3. ASSUME Tick PROVE Store' /\ made' = made /\ clock <= clock' /\ UNCHANGED call
  <2>1. /\ clock' = clock + 1 /\ clock < MaxTime /\ MaxTime \in Nat
        /\ UNCHANGED <<strategy, list, target, letters, call>>
    BY <1>3, Consts DEF Tick
  <2>2. clock' \in 0 .. MaxTime /\ clock <= clock'
    BY <1>1, <2>1 DEF Store
  <2> QED
    BY <1>1, <2>1, <2>2 DEF Store, Entry, list, target, letters
<1>4. ASSUME Succeed PROVE Store' /\ made' = made /\ clock' = clock /\ UNCHANGED call
  BY <1>1, <1>2, <1>4 DEF Succeed, Handles, Store, Entry, Wrapping, Budget, list
<1>5. ASSUME Fail PROVE Store' /\ made' = made /\ clock' = clock /\ UNCHANGED call
  <2>1. queue # <<>>
    BY <1>5 DEF Fail, Handles
  <2> DEFINE m == Head(queue).msg
             n == Head(queue).attempt + 1
  <2>2. tries' = [tries EXCEPT ![m] = @ + 1] /\ m \in Msgs
    BY <1>2, <1>5, <2>1 DEF Fail
  <2>3. tries' \in [Msgs -> Nat]
    BY <1>1, <2>2 DEF Store
  <2>4. UNCHANGED <<strategy, clock, list, joins, done, doubtful, replays, call>>
    BY <1>5 DEF Fail
  <2>5. CASE queue' = Tail(queue) /\ dead' = dead \cup {m}
    BY <1>1, <1>2, <2>1, <2>2, <2>3, <2>4, <2>5 DEF Store, Entry, Wrapping, Budget, list
  <2>6. CASE ~Spent(m, n) /\ queue' = Append(Tail(queue), [msg |-> m, attempt |-> n]) /\ UNCHANGED dead
    <3>1. [msg |-> m, attempt |-> n] \in Wrapping
      BY <1>2, <2>1, <2>2, <2>6, Attempted, Wraps
    <3>2. queue' \in Seq(Wrapping)
      BY <1>2, <2>1, <2>6, <3>1
    <3> QED
      BY <1>1, <2>3, <2>4, <2>6, <3>2 DEF Store, Entry, Wrapping, Budget, list
  <2> QED
    BY <1>5, <2>5, <2>6 DEF Fail
<1>8. ASSUME GiveUp PROVE Store' /\ made' = made /\ clock' = clock /\ UNCHANGED call
  BY <1>1, <1>2, <1>8 DEF GiveUp, Store, Entry, Wrapping, Budget, list
<1>6. clock \in Int /\ made \in Int
  BY <1>1, Consts DEF Store
<1>7. Store' /\ made <= made' /\ clock <= clock' /\ UNCHANGED call
  BY <1>3, <1>4, <1>5, <1>6, <1>8
<1> QED
  BY <1>7, CallsStay DEF Typed

LEMMA ScanFields ==
  ASSUME NEW c, Scanning(c), NEW i \in Nat \ {0}, NEW due \in Seq(Due)
  PROVE  Scanning([c EXCEPT !.i = i, !.due = due])
BY DEF Scanning

LEMMA TypedScheduler ==
  ASSUME RedeliveryAssumption, Typed, \/ \E m \in Msgs : Schedule(m)
                \/ \E t \in Threads : Flush(t)
  PROVE  Typed'
<1>1. Store /\ clock \in Nat /\ made \in Nat /\ clock <= MaxTime /\ MaxTime \in Nat
  BY Consts DEF Typed, Store
<1>2. ASSUME NEW m \in Msgs, Schedule(m) PROVE Typed'
  <2>1. PICK d \in 0 .. MaxTime - clock :
          scheduled' = Append(scheduled, [id |-> made + 1, msg |-> m, retryAt |-> clock + d])
    BY <1>2 DEF Schedule
  <2>2. /\ made' = made + 1 /\ made < MaxSchedules /\ dead' = dead \ {m}
        /\ UNCHANGED <<strategy, clock, queue, joins, tries, done, doubtful, replays, call>>
    BY <1>2 DEF Schedule, target
  <2>3. made' \in 0 .. MaxSchedules /\ made <= made' /\ clock <= clock'
    BY <1>1, <2>2, Consts
  <2>4. [id |-> made + 1, msg |-> m, retryAt |-> clock + d] \in Entry'
    <3>1. made + 1 \in 1 .. made' /\ clock + d \in 0 .. MaxTime
      BY <1>1, <2>1, <2>2
    <3> QED
      BY <3>1 DEF Entry
  <2>5. scheduled \in Seq(Entry')
    <3>1. 1 .. made \subseteq 1 .. made'
      BY <1>1, <2>2
    <3>2. Entry \subseteq Entry'
      BY <3>1 DEF Entry
    <3> QED
      BY <1>1, <3>2, SeqMonotonic DEF Store
  <2>6. scheduled' \in Seq(Entry')
    BY <2>1, <2>4, <2>5
  <2>7. Store'
    BY <1>1, <2>2, <2>3, <2>6 DEF Store
  <2> QED
    BY <2>2, <2>3, <2>7, CallsStay DEF Typed
<1>3. ASSUME NEW t \in Threads, Flush(t) PROVE Typed'
  <2>1. /\ At(t, "scan") => Scanning(call[t])
        /\ At(t, "remove") => Removing(call[t])
        /\ At(t, "enqueue") => Enqueuing(call[t])
    BY Places
  <2>2. ASSUME UNCHANGED <<strategy, clock, list, target, letters>>
        PROVE  /\ Store' /\ made <= made' /\ clock <= clock'
               /\ \A c : Fields(c) => Fields(c)'
    <3>1. Store' /\ made <= made' /\ clock <= clock'
      BY <1>1, <2>2 DEF Store, Entry, list, target, letters
    <3> QED
      BY <1>1, <3>1, FieldsStay
  <2>3. CASE FlushDue(t)
    <3>1. Goto(t, [at |-> "scan", now |-> clock, i |-> 1, due |-> <<>>])
      BY <2>3 DEF FlushDue
    <3>2. Fields([at |-> "scan", now |-> clock, i |-> 1, due |-> <<>>])
      BY <1>1 DEF Fields, Scanning
    <3> QED
      BY <2>2, <2>3, <3>1, <3>2, CallsGo DEF FlushDue, Typed
  <2>4. CASE Scan(t)
    <3> DEFINE i == call[t].i
               due == call[t].due
    <3>1. /\ call[t] \in [at : {"scan"}, now : 0 .. clock, i : Nat \ {0}, due : Seq(Due)]
          /\ i \in Nat \ {0} /\ due \in Seq(Due) /\ call[t].now \in 0 .. clock
      BY <2>1, <2>4 DEF Scan, Scanning
    <3>2. ASSUME i <= Len(scheduled),
                 Goto(t, [call[t] EXCEPT !.i = i + 1,
                   !.due = IF IsDue(scheduled[i], call[t].now) THEN Append(due, scheduled[i]) ELSE due])
          PROVE  Typed'
      <4>1. scheduled[i] \in Entry
        BY <1>1, <3>1, <3>2 DEF Store
      <4>2. IsDue(scheduled[i], call[t].now) => scheduled[i] \in Due
        BY <1>1, <3>1, <4>1 DEF IsDue, Due, Entry
      <4>3. PICK more \in Seq(Due) :
              more = IF IsDue(scheduled[i], call[t].now) THEN Append(due, scheduled[i]) ELSE due
        <5>1. CASE IsDue(scheduled[i], call[t].now)
          <6>1. Append(due, scheduled[i]) \in Seq(Due)
            BY <3>1, <4>2, <5>1
          <6> QED
            BY <5>1, <6>1
        <5>2. CASE ~IsDue(scheduled[i], call[t].now)
          BY <3>1, <5>2
        <5> QED
          BY <5>1, <5>2
      <4>4. Goto(t, [call[t] EXCEPT !.i = i + 1, !.due = more])
        BY <3>2, <4>3
      <4>5. Fields([call[t] EXCEPT !.i = i + 1, !.due = more])
        <5>1. i + 1 \in Nat \ {0}
          BY <3>1
        <5>2. Scanning([call[t] EXCEPT !.i = i + 1, !.due = more])
          BY <2>1, <2>4, <4>3, <5>1, ScanFields DEF Scan
        <5> QED
          BY <5>2 DEF Fields
      <4> QED
        BY <2>2, <2>4, <4>4, <4>5, CallsGo DEF Scan, Typed
    <3>3. ASSUME Goto(t, Loop(due)) PROVE Typed'
      BY <2>2, <2>4, <3>1, <3>3, LoopFields, CallsGo DEF Scan, Typed
    <3> QED
      BY <2>4, <3>2, <3>3 DEF Scan
  <2>5. ASSUME At(t, "remove")
        PROVE  /\ Head(call[t].due) \in Due /\ Tail(call[t].due) \in Seq(Due)
    BY <2>1, <2>5, TailOf DEF Removing
  <2>6. CASE TakeOut(t)
    <3>1. PICK i \in 1 .. Len(scheduled) : scheduled' = RemoveAt(scheduled, i)
      BY <2>6 DEF TakeOut
    <3>2. /\ At(t, "remove") /\ UNCHANGED <<strategy, clock, made, target, letters>>
          /\ Goto(t, [at |-> "enqueue", entry |-> Head(call[t].due), due |-> Tail(call[t].due)])
      BY <2>6 DEF TakeOut
    <3>3. scheduled' \in Seq(Entry)
      BY <1>1, <3>1, RemoveAtSeq DEF Store
    <3>4. Store' /\ made <= made' /\ clock <= clock'
      <4>1. Entry' = Entry /\ UNCHANGED <<strategy, clock, made, queue, joins, dead, tries, done, doubtful, replays>>
        BY <3>2 DEF Entry, target, letters
      <4> QED
        BY <1>1, <3>3, <4>1 DEF Store
    <3>5. PICK c : c = [at |-> "enqueue", entry |-> Head(call[t].due), due |-> Tail(call[t].due)]
      OBVIOUS
    <3>6. Fields(c)
      BY <2>5, <3>2, <3>5 DEF Fields, Enqueuing
    <3>7. Fields(c)'
      BY <1>1, <3>4, <3>6, FieldsStay
    <3>8. Goto(t, c)
      BY <3>2, <3>5
    <3> QED
      BY <3>4, <3>7, <3>8, CallsGo DEF Typed
  <2>7. CASE TakenOut(t)
    <3>1. Fields(Idle)
      BY DEF Fields
    <3> QED
      BY <2>2, <2>7, <3>1, CallsGo DEF TakenOut, Typed
  <2>8. CASE EnqueueEntry(t)
    <3>1. /\ call[t].entry \in Due /\ call[t].due \in Seq(Due) /\ call[t].entry.msg \in Msgs
          /\ Enqueue(call[t].entry.msg)
      BY <2>1, <2>8 DEF EnqueueEntry, Enqueuing, Due, Entry
    <3>2. /\ queue' \in Seq(Wrapping)
          /\ joins' \in [Msgs -> Nat]
      BY <1>1, <3>1, EnqueueKeeps
    <3>3. Store' /\ made <= made' /\ clock <= clock'
      BY <1>1, <2>8, <3>2 DEF EnqueueEntry, Store, Entry, list, letters
    <3> QED
      BY <2>8, <3>1, <3>3, LoopFields, FieldsStay, CallsGo DEF EnqueueEntry, Typed
  <2> QED
    BY <1>3, <2>3, <2>4, <2>6, <2>7, <2>8 DEF Flush
<1> QED
  BY <1>2, <1>3

LEMMA SetToSeqsOf ==
  ASSUME NEW S, IsFiniteSet(S), NEW s \in SetToSeqs(S)
  PROVE  s \in Seq(S) /\ \A i, j \in 1 .. Len(s) : i # j => s[i] # s[j]
<1>1. Cardinality(S) \in Nat
  BY FS_CardinalityType
<1>2. s \in [1 .. Cardinality(S) -> S]
  BY DEF SetToSeqs
<1>3. s \in Seq(S) /\ Len(s) = Cardinality(S)
  BY <1>1, <1>2
<1> QED
  BY <1>3 DEF SetToSeqs

LEMMA TodoTail ==
  ASSUME NEW c, Replaying(c), c.todo # <<>>, NEW sent,
         sent = c.sent \/ sent = c.sent \cup {Head(c.todo)}
  PROVE  /\ Replaying([c EXCEPT !.todo = Tail(@), !.sent = sent])
         /\ Head(c.todo) \in c.all \ c.sent /\ Head(c.todo) \in Msgs
<1>1. /\ c \in [at : {"replay"}, todo : Seq(Msgs), all : SUBSET Msgs, sent : SUBSET Msgs]
      /\ c.todo \in Seq(Msgs) /\ c.sent \subseteq c.all /\ c.all \subseteq Msgs
  BY DEF Replaying
<1>2. /\ Head(c.todo) \in Msgs /\ Head(c.todo) = c.todo[1] /\ Tail(c.todo) \in Seq(Msgs)
      /\ Len(c.todo) \in Nat \ {0} /\ Len(Tail(c.todo)) = Len(c.todo) - 1
      /\ \A i \in 1 .. Len(c.todo) - 1 : Tail(c.todo)[i] = c.todo[i + 1]
  BY <1>1, TailOf
<1>3. /\ \A i \in 1 .. Len(c.todo) : c.todo[i] \in c.all \ c.sent
      /\ \A i, j \in 1 .. Len(c.todo) : i # j => c.todo[i] # c.todo[j]
  BY DEF Replaying
<1>4. Head(c.todo) \in c.all \ c.sent
  BY <1>2, <1>3
<1>5. sent \subseteq c.all /\ sent \subseteq Msgs
  BY <1>1, <1>4
<1> DEFINE d == [c EXCEPT !.todo = Tail(@), !.sent = sent]
<1>6. /\ d \in [at : {"replay"}, todo : Seq(Msgs), all : SUBSET Msgs, sent : SUBSET Msgs]
      /\ d.todo = Tail(c.todo) /\ d.all = c.all /\ d.sent = sent
  BY <1>1, <1>2, <1>5
<1> HIDE DEF d
<1>7. ASSUME NEW i \in 1 .. Len(d.todo)
      PROVE  d.todo[i] \in d.all \ d.sent
  <2>1. i + 1 \in 1 .. Len(c.todo) /\ 1 \in 1 .. Len(c.todo) /\ i + 1 # 1 /\ d.todo[i] = c.todo[i + 1]
    BY <1>2, <1>6
  <2>2. c.todo[i + 1] # c.todo[1] /\ c.todo[i + 1] \in c.all \ c.sent
    BY <1>3, <2>1
  <2> QED
    BY <1>2, <1>6, <2>1, <2>2
<1>8. ASSUME NEW i \in 1 .. Len(d.todo), NEW j \in 1 .. Len(d.todo), i # j
      PROVE  d.todo[i] # d.todo[j]
  <2>1. /\ i + 1 \in 1 .. Len(c.todo) /\ j + 1 \in 1 .. Len(c.todo) /\ i + 1 # j + 1
        /\ d.todo[i] = c.todo[i + 1] /\ d.todo[j] = c.todo[j + 1]
    BY <1>2, <1>6, <1>8
  <2> QED
    BY <1>3, <2>1
<1>9. Replaying(d)
  BY <1>5, <1>6, <1>7, <1>8 DEF Replaying
<1> QED
  BY <1>2, <1>4, <1>9 DEF d

LEMMA TypedReplayer ==
  ASSUME RedeliveryAssumption, Typed, \/ \E t \in Replayers : Replay(t)
                \/ \E t \in Threads : Handle(t)
  PROVE  Typed'
<1>1. Store /\ clock \in Nat /\ made \in Nat /\ Replayers \subseteq Threads
  BY Consts DEF Typed, Store
<1>2. ASSUME UNCHANGED <<strategy, clock, list>>,
             queue' \in Seq(Wrapping), joins' \in [Msgs -> Nat],
             dead' \subseteq Msgs, tries' = tries, done' = done, doubtful' \subseteq Msgs,
             replays' \in 0 .. MaxReplays,
             NEW t \in Threads, NEW c, Goto(t, c), Fields(c)
      PROVE  Typed'
  <2>1. Entry' = Entry /\ Store'
    BY <1>1, <1>2 DEF Store, Entry, list
  <2>2. made <= made' /\ clock <= clock'
    BY <1>1, <1>2 DEF list
  <2>3. Fields(c)'
    BY <1>1, <1>2, <2>1, <2>2, FieldsStay
  <2> QED
    BY <1>2, <2>1, <2>2, <2>3, CallsGo DEF Typed
<1>3. ASSUME NEW t \in Replayers, Replay(t) PROVE Typed'
  <2>1. IsFiniteSet(dead) /\ dead \subseteq Msgs
    BY <1>1, Consts, FS_Subset DEF Store
  <2>2. PICK messages \in SetToSeqs(dead) :
          Goto(t, [at |-> "replay", todo |-> messages, all |-> dead, sent |-> {}])
    BY <1>3 DEF Replay
  <2>3. messages \in Seq(dead) /\ \A i, j \in 1 .. Len(messages) : i # j => messages[i] # messages[j]
    BY <2>1, SetToSeqsOf
  <2>4. messages \in Seq(Msgs)
    BY <2>1, <2>3, SeqMonotonic
  <2>5. PICK c : c = [at |-> "replay", todo |-> messages, all |-> dead, sent |-> {}]
    OBVIOUS
  <2>6. c.todo = messages /\ c.all = dead /\ c.sent = {}
    BY <2>5
  <2>7. c \in [at : {"replay"}, todo : Seq(Msgs), all : SUBSET Msgs, sent : SUBSET Msgs]
    BY <2>1, <2>4, <2>5
  <2>8. Replaying(c)
    BY <2>3, <2>6, <2>7 DEF Replaying
  <2>9. /\ UNCHANGED <<strategy, clock, list, target, tries, done, doubtful>>
        /\ dead' = {} /\ replays' = replays + 1 /\ replays < MaxReplays
    BY <1>3 DEF Replay
  <2>10. replays' \in 0 .. MaxReplays
    BY <1>1, <2>9, Consts DEF Store
  <2>11. t \in Threads
    BY <1>1
  <2> QED
    BY <1>1, <1>2, <2>2, <2>5, <2>8, <2>9, <2>10, <2>11 DEF Store, target, Fields
<1>4. ASSUME NEW t \in Threads, Handle(t) PROVE Typed'
  <2>1. At(t, "replay") /\ Replaying(call[t])
    BY <1>4, Places DEF Handle, ReplayMessage, SkipMessage, ReplayEnds, ReplayRaises
  <2>2. call[t].all \subseteq Msgs /\ call[t].sent \subseteq Msgs
    BY <2>1 DEF Replaying
  <2>3. Fields(Idle)
    BY DEF Fields
  <2>4. CASE ReplayMessage(t)
    <3> DEFINE m == Head(call[t].todo)
    <3>1. PICK sent : sent = call[t].sent \cup {m}
      OBVIOUS
    <3>2. call[t].todo # <<>> /\ Enqueue(m) /\ UNCHANGED <<strategy, clock, list, letters>>
      BY <2>4 DEF ReplayMessage
    <3>3. Goto(t, [call[t] EXCEPT !.todo = Tail(@), !.sent = sent])
      <4>1. Goto(t, [call[t] EXCEPT !.todo = Tail(@), !.sent = @ \cup {m}])
        BY <2>4 DEF ReplayMessage
      <4> QED
        BY <4>1, <3>1
    <3>4. Replaying([call[t] EXCEPT !.todo = Tail(@), !.sent = sent]) /\ m \in Msgs
      BY <2>1, <3>1, <3>2, TodoTail
    <3>5. /\ queue' \in Seq(Wrapping) /\ joins' \in [Msgs -> Nat]
      BY <1>1, <3>2, <3>4, EnqueueKeeps
    <3> QED
      BY <1>1, <1>2, <3>2, <3>3, <3>4, <3>5 DEF Store, letters, Fields
  <2>5. CASE SkipMessage(t)
    <3>1. call[t].todo # <<>> /\ UNCHANGED <<strategy, clock, list, target, letters>>
          /\ Goto(t, [call[t] EXCEPT !.todo = Tail(@)])
      BY <2>5 DEF SkipMessage
    <3>2. Replaying([call[t] EXCEPT !.todo = Tail(@), !.sent = call[t].sent])
      BY <2>1, <3>1, TodoTail
    <3>3. [call[t] EXCEPT !.todo = Tail(@), !.sent = call[t].sent] = [call[t] EXCEPT !.todo = Tail(@)]
      BY <2>1 DEF Replaying
    <3> QED
      BY <1>1, <1>2, <3>1, <3>2, <3>3 DEF Store, target, letters, Fields
  <2>6. CASE ReplayEnds(t)
    BY <1>1, <1>2, <2>2, <2>3, <2>6 DEF ReplayEnds, Store, target
  <2>7. CASE ReplayRaises(t)
    BY <1>1, <1>2, <2>2, <2>3, <2>7 DEF ReplayRaises, Store, target
  <2> QED
    BY <1>4, <2>4, <2>5, <2>6, <2>7 DEF Handle
<1> QED
  BY <1>3, <1>4

LEMMA TypedNext ==
  ASSUME RedeliveryAssumption
  PROVE  Typed /\ [Next]_vars => Typed'
<1> SUFFICES ASSUME Typed, [Next]_vars PROVE Typed'
  OBVIOUS
<1>1. CASE UNCHANGED vars
  <2>1. Entry' = Entry
    BY <1>1 DEF vars, list, Entry
  <2>2. Store'
    BY <1>1, <2>1 DEF vars, list, target, letters, Typed, Store
  <2>3. made <= made' /\ clock <= clock'
    BY <1>1, Consts DEF vars, list, Typed, Store
  <2> QED
    BY <1>1, <2>2, <2>3, CallsStay DEF vars, Typed
<1> QED
  BY <1>1, TypedQueue, TypedScheduler, TypedReplayer DEF Next

(* No entry is enqueued before its time (scheduler.py:49-53): what a flush *)
(* has found due remains due, for any number of flushes at any speed.      *)
THEOREM NothingEarly == ASSUME RedeliveryAssumption PROVE Spec => []NotEarly
<1>1. Typed => NotEarly
  <2> SUFFICES ASSUME Typed, NEW t \in Threads, At(t, "enqueue")
               PROVE  clock >= call[t].entry.retryAt
    BY DEF NotEarly
  <2>1. call[t].entry \in Due
    BY Places DEF Enqueuing
  <2> QED
    BY <2>1, Consts DEF Due, Entry, Typed, Store
<1> QED
  BY <1>1, TypedInit, TypedNext, PTL DEF Spec

(* Every variable and every field of a call has its type. *)
THEOREM TypeCorrect == ASSUME RedeliveryAssumption PROVE Spec => []TypeOK
<1>1. Typed => TypeOK
  <2> SUFFICES ASSUME Typed PROVE TypeOK
    OBVIOUS
  <2>1. Due \subseteq Entry /\ Seq(Due) \subseteq Seq(Entry)
    BY SeqMonotonic DEF Due
  <2>2. ASSUME NEW t \in Threads
        PROVE  /\ call[t].at \in {"idle", "scan", "remove", "enqueue", "replay"}
               /\ call[t].at = "enqueue" => call[t].entry \in Entry
               /\ call[t].at \in {"scan", "remove", "enqueue"} => call[t].due \in Seq(Entry)
               /\ call[t].at = "replay" => call[t].todo \in Seq(Msgs) /\ call[t].sent \subseteq call[t].all
    BY <2>1, Places DEF At, Fields, Idle, Scanning, Removing, Enqueuing, Replaying
  <2>3. Seq(Wrapping) \subseteq Seq([msg : Msgs, attempt : Nat])
    <3>1. Wrapping \subseteq [msg : Msgs, attempt : Nat]
      BY DEF Wrapping
    <3> QED
      BY <3>1, SeqMonotonic
  <2> QED
    BY <2>2, <2>3 DEF Typed, Store, TypeOK, Entry
<1> QED
  BY <1>1, TypedInit, TypedNext, PTL DEF Spec

-------------------------------------------------------------------------------

(***************************************************************************)
(* Sizes of sets of marks at the elements of a sequence: W[e] are the      *)
(* marks an element e bears, out of the finite set K.                      *)
(***************************************************************************)
Marks(s, K, W) == {p \in (1 .. Len(s)) \X K : p[2] \in W[s[p[1]]]}
MarksOn(s, K, W, i) == {p \in Marks(s, K, W) : p[1] = i}

LEMMA MarksFinite ==
  ASSUME NEW S, NEW s \in Seq(S), NEW K, IsFiniteSet(K), NEW W
  PROVE  IsFiniteSet(Marks(s, K, W)) /\ Cardinality(Marks(s, K, W)) \in Nat
<1>1. Len(s) \in Nat /\ IsFiniteSet(1 .. Len(s))
  BY FS_Interval
<1>2. IsFiniteSet((1 .. Len(s)) \X K)
  BY <1>1, FS_Product
<1>3. Marks(s, K, W) \subseteq (1 .. Len(s)) \X K
  BY DEF Marks
<1> QED
  BY <1>2, <1>3, FS_Subset, FS_CardinalityType

LEMMA SameSize ==
  ASSUME NEW S, NEW T, IsFiniteSet(S), NEW f \in [S -> T],
         \A x, y \in S : f[x] = f[y] => x = y,
         \A y \in T : \E x \in S : f[x] = y
  PROVE  IsFiniteSet(T) /\ Cardinality(T) = Cardinality(S)
<1>1. f \in Bijection(S, T)
  BY DEF Bijection, Injection, Surjection, IsInjective
<1> QED
  BY <1>1, FS_Bijection DEF ExistsBijection

(* The marks of one element. *)
LEMMA MarksAt ==
  ASSUME NEW S, NEW s \in Seq(S), NEW K, IsFiniteSet(K), NEW W \in [S -> SUBSET K],
         NEW i \in 1 .. Len(s)
  PROVE  /\ IsFiniteSet(MarksOn(s, K, W, i))
         /\ Cardinality(MarksOn(s, K, W, i)) = Cardinality(W[s[i]])
<1> DEFINE T == MarksOn(s, K, W, i)
           f == [k \in W[s[i]] |-> <<i, k>>]
<1>1. W[s[i]] \subseteq K /\ IsFiniteSet(W[s[i]])
  <2>1. s[i] \in S
    OBVIOUS
  <2>2. W[s[i]] \subseteq K
    BY <2>1
  <2> QED
    BY <2>2, FS_Subset
<1>2. \A k \in W[s[i]] : <<i, k>> \in T
  BY <1>1 DEF Marks, MarksOn
<1>3. f \in [W[s[i]] -> T]
  BY <1>2
<1>4. \A x, y \in W[s[i]] : f[x] = f[y] => x = y
  OBVIOUS
<1>5. ASSUME NEW p \in T PROVE \E k \in W[s[i]] : f[k] = p
  <2>1. p \in (1 .. Len(s)) \X K /\ p[1] = i /\ p[2] \in W[s[i]]
    BY <1>5 DEF Marks, MarksOn
  <2>2. p = <<i, p[2]>>
    BY <2>1
  <2> QED
    BY <2>1, <2>2
<1> HIDE DEF T, f
<1>6. IsFiniteSet(T) /\ Cardinality(T) = Cardinality(W[s[i]])
  BY <1>1, <1>3, <1>4, <1>5, SameSize
<1> QED
  BY <1>6 DEF T

LEMMA MarksAppend ==
  ASSUME NEW S, NEW s \in Seq(S), NEW e \in S, NEW K, IsFiniteSet(K), NEW W \in [S -> SUBSET K]
  PROVE  Cardinality(Marks(Append(s, e), K, W)) = Cardinality(Marks(s, K, W)) + Cardinality(W[e])
<1> DEFINE r == Append(s, e)
           n == Len(s) + 1
           A == Marks(s, K, W)
           B == MarksOn(r, K, W, n)
<1>1. /\ r \in Seq(S) /\ Len(r) = n /\ Len(s) \in Nat /\ n \in 1 .. Len(r)
      /\ \A i \in 1 .. Len(s) : r[i] = s[i]
      /\ r[n] = e
  OBVIOUS
<1> HIDE DEF r, n
<1>2. IsFiniteSet(A) /\ Cardinality(A) \in Nat
  BY MarksFinite
<1>3. IsFiniteSet(B) /\ Cardinality(B) = Cardinality(W[e])
  BY <1>1, MarksAt
<1>4. \A i \in 1 .. n : i = n \/ i \in 1 .. Len(s)
  BY <1>1 DEF n
<1>5. \A i \in 1 .. Len(s) : i \in 1 .. n /\ i # n
  BY <1>1 DEF n
<1>6. Marks(r, K, W) = A \cup B /\ A \cap B = {}
  <2>1. ASSUME NEW p PROVE p \in A => p \in Marks(r, K, W) /\ p \notin B
    BY <1>1, <1>5 DEF Marks, MarksOn
  <2>2. ASSUME NEW p PROVE p \in Marks(r, K, W) => p \in A \/ p \in B
    BY <1>1, <1>4 DEF Marks, MarksOn
  <2>3. B \subseteq Marks(r, K, W)
    BY DEF MarksOn
  <2> HIDE DEF A, B
  <2> QED
    BY <2>1, <2>2, <2>3
<1> HIDE DEF A, B
<1>7. Cardinality(A \cup B) = Cardinality(A) + Cardinality(B) - Cardinality(A \cap B)
  BY <1>2, <1>3, FS_Union
<1>8. Cardinality(A \cap B) = 0 /\ Cardinality(B) \in Nat
  BY <1>3, <1>6, FS_EmptySet, FS_CardinalityType
<1>9. Cardinality(Marks(r, K, W)) = Cardinality(A) + Cardinality(B)
  BY <1>2, <1>6, <1>7, <1>8
<1> QED
  BY <1>3, <1>9 DEF A, r

\* r is s without its i-th element.
Without(r, s, i) ==
  Len(r) = Len(s) - 1 /\ \A k \in 1 .. Len(s) - 1 : r[k] = IF k < i THEN s[k] ELSE s[k + 1]

LEMMA MarksWithout ==
  ASSUME NEW S, NEW s \in Seq(S), NEW r \in Seq(S), NEW i \in 1 .. Len(s), Without(r, s, i),
         NEW K, IsFiniteSet(K), NEW W \in [S -> SUBSET K]
  PROVE  Cardinality(Marks(r, K, W)) = Cardinality(Marks(s, K, W)) - Cardinality(W[s[i]])
<1> DEFINE A == Marks(s, K, W)
           B == MarksOn(s, K, W, i)
           R == Marks(r, K, W)
           up == [k \in 1 .. Len(s) - 1 |-> IF k < i THEN k ELSE k + 1]
           f == [p \in R |-> <<up[p[1]], p[2]>>]
<1>1. Len(s) \in Nat /\ i \in Nat /\ 1 <= i /\ i <= Len(s)
  OBVIOUS
<1>2. /\ up \in [1 .. Len(s) - 1 -> (1 .. Len(s)) \ {i}]
      /\ \A j, k \in 1 .. Len(s) - 1 : up[j] = up[k] => j = k
  BY <1>1
<1>3. ASSUME NEW k \in (1 .. Len(s)) \ {i} PROVE \E j \in 1 .. Len(s) - 1 : up[j] = k
  <2>1. CASE k < i
    <3>1. k \in 1 .. Len(s) - 1 /\ up[k] = k
      BY <1>1, <2>1
    <3> QED
      BY <3>1
  <2>2. CASE k > i
    <3>1. k - 1 \in 1 .. Len(s) - 1 /\ up[k - 1] = k
      BY <1>1, <2>2
    <3> QED
      BY <3>1
  <2> QED
    BY <1>1, <2>1, <2>2
<1>4. /\ Len(r) = Len(s) - 1
      /\ \A k \in 1 .. Len(s) - 1 : r[k] = s[up[k]]
  BY DEF Without
<1> HIDE DEF up
<1>5. IsFiniteSet(A) /\ IsFiniteSet(R) /\ Cardinality(A) \in Nat
  BY MarksFinite
<1>6. B \subseteq A /\ Cardinality(B) = Cardinality(W[s[i]])
  <2>1. B \subseteq A
    BY DEF MarksOn
  <2>2. Cardinality(B) = Cardinality(W[s[i]])
    BY MarksAt
  <2> QED
    BY <2>1, <2>2
<1>7. f \in [R -> A \ B]
  <2>1. ASSUME NEW p \in R PROVE <<up[p[1]], p[2]>> \in A \ B
    <3>1. p[1] \in 1 .. Len(s) - 1 /\ p[2] \in K /\ p[2] \in W[r[p[1]]]
      BY <1>4 DEF Marks
    <3>2. up[p[1]] \in 1 .. Len(s) /\ up[p[1]] # i
      BY <1>2, <3>1
    <3>3. p[2] \in W[s[up[p[1]]]]
      BY <1>4, <3>1
    <3> QED
      BY <3>1, <3>2, <3>3 DEF Marks, MarksOn
  <2> QED
    BY <2>1
<1>8. ASSUME NEW p \in R, NEW q \in R, f[p] = f[q] PROVE p = q
  <2>1. p \in (1 .. Len(s) - 1) \X K /\ q \in (1 .. Len(s) - 1) \X K
    BY <1>4 DEF Marks
  <2>2. up[p[1]] = up[q[1]] /\ p[2] = q[2]
    BY <1>8
  <2>3. p[1] = q[1]
    BY <1>2, <2>1, <2>2
  <2> QED
    BY <2>1, <2>2, <2>3
<1>9. ASSUME NEW q \in A \ B PROVE \E p \in R : f[p] = q
  <2>1. q \in (1 .. Len(s)) \X K /\ q[1] \in (1 .. Len(s)) \ {i} /\ q[2] \in W[s[q[1]]] /\ q[2] \in K
    BY <1>9 DEF Marks, MarksOn
  <2>2. PICK j \in 1 .. Len(s) - 1 : up[j] = q[1]
    BY <1>3, <2>1
  <2>3. <<j, q[2]>> \in R
    BY <1>4, <2>1, <2>2 DEF Marks
  <2>4. f[<<j, q[2]>>] = <<q[1], q[2]>>
    BY <2>2, <2>3
  <2>5. q = <<q[1], q[2]>>
    BY <2>1
  <2> QED
    BY <2>3, <2>4, <2>5
<1> HIDE DEF A, B, R, f
<1>10. Cardinality(A \ B) = Cardinality(R)
  <2> DEFINE T == A \ B
  <2>1. f \in [R -> T] /\ \A q \in T : \E p \in R : f[p] = q
    BY <1>7, <1>9
  <2> HIDE DEF T
  <2>2. Cardinality(T) = Cardinality(R)
    BY <1>5, <1>8, <2>1, SameSize
  <2> QED
    BY <2>2 DEF T
<1>11. A \cap B = B
  BY <1>6
<1>12. Cardinality(A \ B) = Cardinality(A) - Cardinality(B)
  <2>1. Cardinality(A \ B) = Cardinality(A) - Cardinality(A \cap B)
    BY <1>5, FS_Difference
  <2> QED
    BY <1>11, <2>1
<1> QED
  BY <1>6, <1>10, <1>12 DEF A, R

-------------------------------------------------------------------------------

(* The attempts ahead of the wrappings of a message that are in the queue. *)
Rest(m)  == [e \in Wrapping |-> {n \in 1 .. Budget(m) : e.msg = m /\ n > e.attempt}]
Ahead(m) == Cardinality(Marks(queue, 1 .. Budget(m), Rest(m)))

LEMMA RestSize ==
  ASSUME RedeliveryAssumption, NEW m \in Msgs, NEW e \in Wrapping
  PROVE  Cardinality(Rest(m)[e]) = IF e.msg = m THEN Budget(m) - e.attempt ELSE 0
<1>1. Budget(m) \in Nat /\ e.attempt \in 0 .. Budget(e.msg)
  BY Attempted, Wrapped
<1>2. CASE e.msg = m
  <2>1. Rest(m)[e] = e.attempt + 1 .. Budget(m)
    BY <1>1, <1>2 DEF Rest
  <2>2. Cardinality(e.attempt + 1 .. Budget(m))
          = IF e.attempt + 1 > Budget(m) THEN 0 ELSE Budget(m) - (e.attempt + 1) + 1
    <3>1. \A a, b \in Int : Cardinality(a .. b) = IF a > b THEN 0 ELSE b - a + 1
      BY FS_Interval
    <3>2. e.attempt + 1 \in Int /\ Budget(m) \in Int
      BY <1>1
    <3> QED
      BY <3>1, <3>2
  <2> QED
    BY <1>1, <1>2, <2>1, <2>2
<1>3. CASE e.msg # m
  <2>1. Rest(m)[e] = {}
    BY <1>3 DEF Rest
  <2> QED
    BY <1>3, <2>1, FS_EmptySet
<1> QED
  BY <1>2, <1>3

LEMMA RestType ==
  ASSUME RedeliveryAssumption, Store, NEW m \in Msgs
  PROVE  /\ Rest(m) \in [Wrapping -> SUBSET (1 .. Budget(m))] /\ IsFiniteSet(1 .. Budget(m))
         /\ queue \in Seq(Wrapping) /\ Ahead(m) \in Nat
<1>1. IsFiniteSet(1 .. Budget(m))
  BY Attempted, FS_Interval
<1>2. queue \in Seq(Wrapping)
  BY DEF Store, Wrapping
<1> QED
  BY <1>1, <1>2, MarksFinite DEF Rest, Ahead

LEMMA AheadAppend ==
  ASSUME RedeliveryAssumption, NEW q \in Seq(Wrapping), NEW e \in Wrapping, NEW m \in Msgs
  PROVE  Cardinality(Marks(Append(q, e), 1 .. Budget(m), Rest(m)))
           = Cardinality(Marks(q, 1 .. Budget(m), Rest(m)))
             + (IF e.msg = m THEN Budget(m) - e.attempt ELSE 0)
<1>1. IsFiniteSet(1 .. Budget(m)) /\ Rest(m) \in [Wrapping -> SUBSET (1 .. Budget(m))]
  BY Attempted, FS_Interval DEF Rest
<1>2. PICK K, W : K = 1 .. Budget(m) /\ W = Rest(m)
  OBVIOUS
<1>3. Cardinality(Marks(Append(q, e), K, W)) = Cardinality(Marks(q, K, W)) + Cardinality(W[e])
  <2>1. IsFiniteSet(K) /\ W \in [Wrapping -> SUBSET K]
    BY <1>1, <1>2
  <2> QED
    BY <2>1, MarksAppend
<1> QED
  BY <1>2, <1>3, RestSize

LEMMA TailIsWithout ==
  ASSUME NEW S, NEW s \in Seq(S), s # <<>>
  PROVE  /\ Head(s) \in S /\ Tail(s) \in Seq(S) /\ 1 \in 1 .. Len(s) /\ s[1] = Head(s)
         /\ Without(Tail(s), s, 1)
<1>1. /\ Head(s) \in S /\ Head(s) = s[1] /\ Tail(s) \in Seq(S)
      /\ Len(s) \in Nat \ {0} /\ Len(Tail(s)) = Len(s) - 1
      /\ \A i \in 1 .. Len(s) - 1 : Tail(s)[i] = s[i + 1]
  BY TailOf
<1> QED
  BY <1>1 DEF Without

LEMMA AheadTail ==
  ASSUME RedeliveryAssumption, NEW q \in Seq(Wrapping), q # <<>>, NEW m \in Msgs
  PROVE  Cardinality(Marks(Tail(q), 1 .. Budget(m), Rest(m)))
           = Cardinality(Marks(q, 1 .. Budget(m), Rest(m)))
             - (IF Head(q).msg = m THEN Budget(m) - Head(q).attempt ELSE 0)
<1>1. IsFiniteSet(1 .. Budget(m)) /\ Rest(m) \in [Wrapping -> SUBSET (1 .. Budget(m))]
  BY Attempted, FS_Interval DEF Rest
<1>2. /\ Head(q) \in Wrapping /\ Tail(q) \in Seq(Wrapping) /\ 1 \in 1 .. Len(q) /\ q[1] = Head(q)
      /\ Without(Tail(q), q, 1)
  BY TailIsWithout
<1>3. Cardinality(Marks(Tail(q), 1 .. Budget(m), Rest(m)))
        = Cardinality(Marks(q, 1 .. Budget(m), Rest(m))) - Cardinality(Rest(m)[q[1]])
  <2>1. PICK K, W : K = 1 .. Budget(m) /\ W = Rest(m)
    OBVIOUS
  <2>2. Cardinality(Marks(Tail(q), K, W)) = Cardinality(Marks(q, K, W)) - Cardinality(W[q[1]])
    <3>1. IsFiniteSet(K) /\ W \in [Wrapping -> SUBSET K]
      BY <1>1, <2>1
    <3>2. PICK r \in Seq(Wrapping) : r = Tail(q) /\ Without(r, q, 1)
      BY <1>2
    <3>3. PICK i \in 1 .. Len(q) : i = 1 /\ Without(r, q, i)
      BY <1>2, <3>2
    <3>4. Cardinality(Marks(r, K, W)) = Cardinality(Marks(q, K, W)) - Cardinality(W[q[i]])
      BY <3>1, <3>3, MarksWithout
    <3> QED
      BY <3>2, <3>3, <3>4
  <2> QED
    BY <2>1, <2>2
<1> QED
  BY <1>2, <1>3, RestSize

Budgets == \A m \in Msgs : tries[m] + Ahead(m) <= Budget(m) * joins[m]

LEMMA AheadIs ==
  ASSUME RedeliveryAssumption, Store, NEW m \in Msgs
  PROVE  Ahead(m) = Cardinality({p \in (DOMAIN queue) \X (1 .. Budget(m)) :
                                   queue[p[1]].msg = m /\ p[2] > queue[p[1]].attempt})
<1>1. queue \in Seq(Wrapping) /\ DOMAIN queue = 1 .. Len(queue)
  BY DEF Store, Wrapping
<1>2. \A i \in 1 .. Len(queue) : queue[i] \in Wrapping
  BY <1>1
<1>3. \A p \in (1 .. Len(queue)) \X (1 .. Budget(m)) :
        p[2] \in Rest(m)[queue[p[1]]] <=> queue[p[1]].msg = m /\ p[2] > queue[p[1]].attempt
  BY <1>2 DEF Rest
<1> QED
  BY <1>1, <1>3 DEF Ahead, Marks

(* The steps, as the queue sees them. *)
LEMMA QueueSteps ==
  ASSUME RedeliveryAssumption, Typed, [Next]_vars
  PROVE  \/ UNCHANGED <<queue, joins, tries, done>>
         \/ Succeed \/ Fail \/ GiveUp
         \/ \E m \in Msgs : Enqueue(m) /\ UNCHANGED <<tries, done>>
<1>1. CASE UNCHANGED vars
  BY <1>1 DEF vars, target, letters
<1>2. CASE Tick
  BY <1>2 DEF Tick, target, letters
<1>3. CASE \E m \in Msgs : Schedule(m)
  BY <1>3 DEF Schedule, target
<1>4. CASE \E t \in Replayers : Replay(t)
  BY <1>4 DEF Replay, target
<1>5. ASSUME NEW t \in Threads, Flush(t), ~EnqueueEntry(t)
      PROVE  UNCHANGED <<queue, joins, tries, done>>
  BY <1>5 DEF Flush, FlushDue, Scan, TakeOut, TakenOut, target, letters
<1>6. ASSUME NEW t \in Threads, EnqueueEntry(t)
      PROVE  \E m \in Msgs : Enqueue(m) /\ UNCHANGED <<tries, done>>
  <2>1. call[t].entry \in Due
    BY <1>6, Places DEF EnqueueEntry, Enqueuing
  <2> QED
    BY <1>6, <2>1 DEF EnqueueEntry, Due, Entry, letters
<1>7. ASSUME NEW t \in Threads, Handle(t), ~ReplayMessage(t)
      PROVE  UNCHANGED <<queue, joins, tries, done>>
  BY <1>7 DEF Handle, SkipMessage, ReplayEnds, ReplayRaises, target, letters
<1>8. ASSUME NEW t \in Threads, ReplayMessage(t)
      PROVE  \E m \in Msgs : Enqueue(m) /\ UNCHANGED <<tries, done>>
  <2>1. Replaying(call[t]) /\ call[t].todo # <<>>
    BY <1>8, Places DEF ReplayMessage
  <2>2. Head(call[t].todo) \in Msgs
    BY <2>1, TodoTail
  <2> QED
    BY <1>8, <2>2 DEF ReplayMessage, letters
<1> QED
  BY <1>1, <1>2, <1>3, <1>4, <1>5, <1>6, <1>7, <1>8 DEF Next

LEMMA BudgetsNext ==
  ASSUME RedeliveryAssumption
  PROVE  Typed /\ Budgets /\ [Next]_vars => Budgets'
<1> SUFFICES ASSUME Typed, Budgets, [Next]_vars, NEW m \in Msgs
             PROVE  tries'[m] + Ahead(m)' <= Budget(m) * joins'[m]
  BY DEF Budgets, Budget
<1>1. Store /\ queue \in Seq(Wrapping) /\ Ahead(m) \in Nat
  BY RestType DEF Typed
<1>2. /\ tries \in [Msgs -> Nat] /\ joins \in [Msgs -> Nat] /\ Budget(m) \in Nat
      /\ tries[m] \in Nat /\ joins[m] \in Nat
  BY <1>1, Attempted DEF Store
<1>3. tries[m] + Ahead(m) <= Budget(m) * joins[m]
  BY DEF Budgets
<1>4. Budget(m) * joins[m] \in Nat
  BY <1>2
<1>5. CASE UNCHANGED <<queue, joins, tries, done>>
  <2>1. Ahead(m)' = Ahead(m)
    BY <1>5 DEF Ahead, Rest, Wrapping, Budget
  <2> QED
    BY <1>3, <1>5, <2>1
<1>6. ASSUME queue # <<>>
      PROVE  /\ Head(queue) \in Wrapping /\ Head(queue).msg \in Msgs
             /\ Head(queue).attempt \in 0 .. Budget(Head(queue).msg) /\ Tail(queue) \in Seq(Wrapping)
             /\ Cardinality(Marks(Tail(queue), 1 .. Budget(m), Rest(m)))
                  = Ahead(m) - (IF Head(queue).msg = m THEN Budget(m) - Head(queue).attempt ELSE 0)
  <2>1. Head(queue) \in Wrapping /\ Tail(queue) \in Seq(Wrapping)
    BY <1>1, <1>6, TailIsWithout
  <2> QED
    BY <1>1, <1>6, <2>1, AheadTail, Wrapped DEF Ahead
<1>7. CASE Succeed \/ GiveUp
  <2>1. queue # <<>> /\ queue' = Tail(queue) /\ UNCHANGED <<joins, tries>>
    BY <1>7 DEF Succeed, GiveUp, Handles
  <2>2. Ahead(m)' = Ahead(m) - (IF Head(queue).msg = m THEN Budget(m) - Head(queue).attempt ELSE 0)
    BY <1>6, <2>1 DEF Ahead, Rest, Wrapping, Budget
  <2>3. Ahead(m)' <= Ahead(m) /\ Ahead(m)' \in Int
    BY <1>1, <1>2, <1>6, <2>1, <2>2
  <2> QED
    BY <1>1, <1>2, <1>3, <1>4, <2>1, <2>3
<1>8. CASE Fail
  <2> DEFINE h == Head(queue).msg
             n == Head(queue).attempt + 1
  <2>1. /\ queue # <<>> /\ tries' = [tries EXCEPT ![h] = @ + 1] /\ UNCHANGED <<joins, done>>
        /\ ~Spent(h, Head(queue).attempt)
    BY <1>8 DEF Fail, Handles
  <2>2. tries'[m] = tries[m] + (IF h = m THEN 1 ELSE 0)
    BY <1>2, <1>6, <2>1
  <2>3. /\ h \in Msgs /\ Head(queue).attempt \in Nat /\ n \in Nat /\ Budget(h) \in Nat
        /\ n <= Budget(h) /\ (Spent(h, n) <=> n = Budget(h))
    BY <1>6, <2>1, Attempted
  <2>4. Ahead(m)' = Ahead(m) - (IF h = m THEN 1 ELSE 0)
    <3>1. CASE Spent(h, n) /\ queue' = Tail(queue)
      <4>1. Ahead(m)' = Ahead(m) - (IF h = m THEN Budget(m) - Head(queue).attempt ELSE 0)
        BY <1>6, <2>1, <3>1 DEF Ahead, Rest, Wrapping, Budget
      <4>2. h = m => Budget(m) - Head(queue).attempt = 1
        BY <2>3, <3>1
      <4> QED
        BY <4>1, <4>2
    <3>2. CASE ~Spent(h, n) /\ queue' = Append(Tail(queue), [msg |-> h, attempt |-> n])
      <4>1. [msg |-> h, attempt |-> n] \in Wrapping
        BY <2>3, Wraps
      <4>2. Ahead(m)' = Cardinality(Marks(queue', 1 .. Budget(m), Rest(m)))
        BY DEF Ahead, Rest, Wrapping, Budget
      <4>3. Cardinality(Marks(queue', 1 .. Budget(m), Rest(m)))
              = Cardinality(Marks(Tail(queue), 1 .. Budget(m), Rest(m)))
                  + (IF h = m THEN Budget(m) - n ELSE 0)
        BY <1>6, <2>1, <3>2, <4>1, AheadAppend
      <4>4. Cardinality(Marks(Tail(queue), 1 .. Budget(m), Rest(m)))
              = Ahead(m) - (IF h = m THEN Budget(m) - Head(queue).attempt ELSE 0)
        BY <1>6, <2>1
      <4> QED
        BY <1>1, <1>2, <2>3, <4>2, <4>3, <4>4
    <3> QED
      BY <1>8, <3>1, <3>2 DEF Fail
  <2> QED
    BY <1>1, <1>2, <1>3, <1>4, <2>1, <2>2, <2>4
<1>9. ASSUME NEW x \in Msgs, Enqueue(x), UNCHANGED <<tries, done>>
      PROVE  tries'[m] + Ahead(m)' <= Budget(m) * joins'[m]
  <2>1. [msg |-> x, attempt |-> 0] \in Wrapping
    BY Attempted, Wraps
  <2>2. queue' = Append(queue, [msg |-> x, attempt |-> 0]) /\ joins' = [joins EXCEPT ![x] = @ + 1]
    BY <1>9 DEF Enqueue
  <2>3. Ahead(m)' = Ahead(m) + (IF x = m THEN Budget(m) - 0 ELSE 0)
    BY <1>1, <2>1, <2>2, AheadAppend DEF Ahead, Rest, Wrapping, Budget
  <2>4. joins'[m] = joins[m] + (IF x = m THEN 1 ELSE 0)
    BY <1>2, <2>2
  <2>5. Budget(m) * (joins[m] + 1) = Budget(m) * joins[m] + Budget(m)
    BY <1>2
  <2>6. CASE x = m
    BY <1>1, <1>2, <1>3, <1>4, <1>9, <2>3, <2>4, <2>5, <2>6
  <2>7. CASE x # m
    <3>1. Ahead(m)' = Ahead(m) /\ joins'[m] = joins[m]
      BY <1>1, <1>2, <2>3, <2>4, <2>7
    <3> QED
      BY <1>3, <1>9, <3>1
  <2> QED
    BY <2>6, <2>7
<1> QED
  BY <1>5, <1>7, <1>8, <1>9, QueueSteps

(* Over all the times a message joined the queue, it has been tried at     *)
(* most max_attempts times each, what is still ahead of it included        *)
(* (queue.py:46-50 and 76-83): neither a replay nor flushes that race      *)
(* grant it more, whatever budget it has, none included.                   *)
THEOREM BudgetsBounded == ASSUME RedeliveryAssumption PROVE Spec => []AttemptsBounded
<1>1. Init => Budgets
  <2> SUFFICES ASSUME Init, NEW m \in Msgs PROVE tries[m] + Ahead(m) = Budget(m) * joins[m]
    <3>1. \A m \in Msgs : Budget(m) \in Nat
      BY Attempted
    <3> QED
      BY <3>1 DEF Budgets, Init
  <2>1. Marks(queue, 1 .. Budget(m), Rest(m)) = {}
    BY DEF Init, Marks
  <2>2. Ahead(m) = 0
    BY <2>1, FS_EmptySet DEF Ahead
  <2>3. Budget(m) * 0 = 0
    BY Attempted
  <2> QED
    BY <2>2, <2>3 DEF Init
<1>2. Typed /\ Budgets => AttemptsBounded
  <2> SUFFICES ASSUME Typed, Budgets PROVE AttemptsBounded
    OBVIOUS
  <2>1. Store
    BY DEF Typed
  <2>2. \A m \in Msgs :
          tries[m] + Cardinality({p \in (DOMAIN queue) \X (1 .. Budget(m)) :
                        queue[p[1]].msg = m /\ p[2] > queue[p[1]].attempt}) <= Budget(m) * joins[m]
    BY <2>1, AheadIs DEF Budgets
  <2> QED
    BY <2>2, Zenon DEF AttemptsBounded, Budget
<1> QED
  BY <1>1, <1>2, TypedInit, TypedNext, BudgetsNext, PTL DEF Spec

-------------------------------------------------------------------------------

(* How many elements of a sequence are in T. *)
Positions(s, T) == {i \in 1 .. Len(s) : s[i] \in T}
Sign(S, T)      == [e \in S |-> IF e \in T THEN {1} ELSE {}]

LEMMA PositionsAreMarks ==
  ASSUME NEW S, NEW s \in Seq(S), NEW T
  PROVE  /\ IsFiniteSet(Positions(s, T)) /\ Cardinality(Positions(s, T)) \in Nat
         /\ Cardinality(Positions(s, T)) = Cardinality(Marks(s, {1}, Sign(S, T)))
<1> DEFINE P == Positions(s, T)
           M == Marks(s, {1}, Sign(S, T))
           f == [i \in P |-> <<i, 1>>]
<1>1. Len(s) \in Nat /\ IsFiniteSet(1 .. Len(s)) /\ P \subseteq 1 .. Len(s)
  BY FS_Interval DEF Positions
<1>2. IsFiniteSet(P) /\ Cardinality(P) \in Nat
  BY <1>1, FS_Subset, FS_CardinalityType
<1>3. ASSUME NEW i \in 1 .. Len(s) PROVE i \in P <=> <<i, 1>> \in M
  <2>1. s[i] \in S
    BY <1>3
  <2>2. Sign(S, T)[s[i]] = IF s[i] \in T THEN {1} ELSE {}
    BY <2>1 DEF Sign
  <2> QED
    BY <2>2 DEF Positions, Marks
<1>4. f \in [P -> M]
  BY <1>1, <1>3
<1>5. \A i, j \in P : f[i] = f[j] => i = j
  OBVIOUS
<1>6. ASSUME NEW p \in M PROVE \E i \in P : f[i] = p
  <2>1. p \in (1 .. Len(s)) \X {1}
    BY <1>6 DEF Marks
  <2>2. p = <<p[1], 1>> /\ p[1] \in 1 .. Len(s)
    BY <2>1
  <2>3. p[1] \in P
    BY <1>3, <2>2
  <2> QED
    BY <2>2, <2>3
<1> HIDE DEF P, M, f
<1>7. Cardinality(M) = Cardinality(P)
  BY <1>2, <1>4, <1>5, <1>6, SameSize
<1> QED
  BY <1>2, <1>7 DEF P, M

LEMMA SignSize ==
  ASSUME NEW S, NEW T
  PROVE  /\ IsFiniteSet({1}) /\ Sign(S, T) \in [S -> SUBSET {1}]
         /\ \A e \in S : Cardinality(Sign(S, T)[e]) = IF e \in T THEN 1 ELSE 0
<1>1. IsFiniteSet({1}) /\ Cardinality({1}) = 1 /\ Cardinality({}) = 0
  BY FS_Singleton, FS_EmptySet
<1> QED
  BY <1>1 DEF Sign

LEMMA PositionsAppend ==
  ASSUME NEW S, NEW s \in Seq(S), NEW e \in S, NEW T
  PROVE  Cardinality(Positions(Append(s, e), T)) = Cardinality(Positions(s, T)) + (IF e \in T THEN 1 ELSE 0)
<1>1. PICK K, W : K = {1} /\ W = Sign(S, T)
  OBVIOUS
<1>2. IsFiniteSet(K) /\ W \in [S -> SUBSET K] /\ Cardinality(W[e]) = IF e \in T THEN 1 ELSE 0
  BY <1>1, SignSize
<1>3. Cardinality(Marks(Append(s, e), K, W)) = Cardinality(Marks(s, K, W)) + Cardinality(W[e])
  BY <1>2, MarksAppend
<1>4. PICK r \in Seq(S) : r = Append(s, e)
  <2>1. Append(s, e) \in Seq(S)
    OBVIOUS
  <2> QED
    BY <2>1
<1>5. Cardinality(Positions(r, T)) = Cardinality(Marks(r, K, W))
  BY <1>1, PositionsAreMarks
<1>6. Cardinality(Positions(s, T)) = Cardinality(Marks(s, K, W))
  BY <1>1, PositionsAreMarks
<1> QED
  BY <1>2, <1>3, <1>4, <1>5, <1>6

LEMMA PositionsWithout ==
  ASSUME NEW S, NEW s \in Seq(S), NEW r \in Seq(S), NEW i \in 1 .. Len(s), Without(r, s, i), NEW T
  PROVE  /\ Cardinality(Positions(r, T)) = Cardinality(Positions(s, T)) - (IF s[i] \in T THEN 1 ELSE 0)
         /\ s[i] \in T => Cardinality(Positions(s, T)) > 0
<1>1. PICK K, W : K = {1} /\ W = Sign(S, T)
  OBVIOUS
<1>2. s[i] \in S
  OBVIOUS
<1>3. IsFiniteSet(K) /\ W \in [S -> SUBSET K] /\ Cardinality(W[s[i]]) = IF s[i] \in T THEN 1 ELSE 0
  BY <1>1, <1>2, SignSize
<1>4. Cardinality(Marks(r, K, W)) = Cardinality(Marks(s, K, W)) - Cardinality(W[s[i]])
  <2>1. IsFiniteSet(K) /\ W \in [S -> SUBSET K]
    BY <1>3
  <2> QED
    BY <2>1, MarksWithout
<1>5. Cardinality(Positions(r, T)) = Cardinality(Marks(r, K, W))
  BY <1>1, PositionsAreMarks
<1>6. Cardinality(Positions(s, T)) = Cardinality(Marks(s, K, W))
  BY <1>1, PositionsAreMarks
<1>7. ASSUME s[i] \in T PROVE Cardinality(Positions(s, T)) > 0
  <2>1. i \in Positions(s, T)
    BY <1>7 DEF Positions
  <2>2. IsFiniteSet(Positions(s, T)) /\ Cardinality(Positions(s, T)) \in Nat
    BY PositionsAreMarks
  <2>3. Cardinality(Positions(s, T)) # 0
    BY <2>1, <2>2, FS_EmptySet
  <2> QED
    BY <2>2, <2>3
<1> QED
  BY <1>3, <1>4, <1>5, <1>6, <1>7

(***************************************************************************)
(* Where a message is: in the list, in the queue, carried by threads, with *)
(* the caller, handled.                                                    *)
(***************************************************************************)
Entries      == [id : Nat, msg : Msgs, retryAt : Nat]
InList(m)    == Cardinality(Positions(scheduled, {e \in Entries : e.msg = m}))
InQueue(m)   == Cardinality(Positions(queue, {e \in Wrapping : e.msg = m}))
Carries(c, m) ==
  \/ c.at = "enqueue" /\ c.entry.msg = m
  \/ c.at = "replay" /\ m \in c.all \ c.sent
Carriers(m)  == {t \in Threads : Carries(call[t], m)}
InTransit(m) == Cardinality(Carriers(m))
InDead(m)    == IF m \in dead THEN 1 ELSE 0
InDone(m)    == IF m \in done THEN 1 ELSE 0
Total(m)     == InList(m) + InQueue(m) + InTransit(m) + InDead(m) + InDone(m)

OnePlace ==
  \A m \in Msgs :
    /\ IsFiniteSet(Carriers(m))
    /\ Total(m) >= 1
    /\ m \notin doubtful => Total(m) = 1

LEMMA PlacesTyped ==
  ASSUME RedeliveryAssumption, Typed, NEW m \in Msgs, IsFiniteSet(Carriers(m))
  PROVE  /\ scheduled \in Seq(Entries) /\ queue \in Seq(Wrapping)
         /\ InList(m) \in Nat /\ InQueue(m) \in Nat /\ InTransit(m) \in Nat
         /\ InDead(m) \in 0 .. 1 /\ InDone(m) \in 0 .. 1
<1>1. scheduled \in Seq(Entries)
  <2>1. Entry \subseteq Entries
    BY Consts DEF Entry, Entries, Typed, Store
  <2> QED
    BY <2>1, SeqMonotonic DEF Typed, Store
<1>2. queue \in Seq(Wrapping)
  BY DEF Typed, Store, Wrapping
<1>3. InList(m) \in Nat /\ InQueue(m) \in Nat /\ InTransit(m) \in Nat
  BY <1>1, <1>2, PositionsAreMarks, FS_CardinalityType DEF InList, InQueue, InTransit
<1> QED
  BY <1>1, <1>2, <1>3 DEF InDead, InDone

LEMMA CarriersGo ==
  ASSUME RedeliveryAssumption, Typed, NEW m, IsFiniteSet(Carriers(m)), NEW t \in Threads, NEW c, Goto(t, c)
  PROVE  /\ IsFiniteSet(Carriers(m)')
         /\ InTransit(m)' = InTransit(m) - (IF Carries(call[t], m) THEN 1 ELSE 0)
                                         + (IF Carries(c, m) THEN 1 ELSE 0)
         /\ Carries(call[t], m) => InTransit(m) > 0
<1>1. /\ DOMAIN call = Threads /\ call'[t] = c
      /\ \A u \in Threads \ {t} : call'[u] = call[u]
  BY DEF Typed, Calls, Goto
<1>2. InTransit(m) \in Nat
  BY FS_CardinalityType DEF InTransit
<1> DEFINE others == Carriers(m) \ {t}
<1>3. /\ t \in Carriers(m) <=> Carries(call[t], m)
      /\ Carriers(m)' = IF Carries(c, m) THEN others \cup {t} ELSE others
  BY <1>1 DEF Carriers, Carries
<1>4. /\ IsFiniteSet(others)
      /\ Cardinality(others) = InTransit(m) - (IF Carries(call[t], m) THEN 1 ELSE 0)
  BY <1>2, <1>3, FS_RemoveElement DEF InTransit
<1>5. t \notin others
  OBVIOUS
<1> HIDE DEF others
<1>6. /\ IsFiniteSet(others \cup {t})
      /\ Cardinality(others \cup {t}) = Cardinality(others) + 1
  BY <1>4, <1>5, FS_AddElement
<1>7. ASSUME Carries(call[t], m) PROVE InTransit(m) > 0
  <2>1. Carriers(m) # {}
    BY <1>3, <1>7
  <2>2. InTransit(m) # 0
    BY <2>1, FS_EmptySet DEF InTransit
  <2> QED
    BY <1>2, <2>2
<1>8. CASE Carries(c, m)
  BY <1>2, <1>3, <1>4, <1>6, <1>7, <1>8 DEF InTransit
<1>9. CASE ~Carries(c, m)
  BY <1>2, <1>3, <1>4, <1>7, <1>9 DEF InTransit
<1> QED
  BY <1>8, <1>9

\* A step moves what there is of m, or takes away one of two, or makes m doubtful.
Moves(m) ==
  /\ IsFiniteSet(Carriers(m)') /\ doubtful \subseteq doubtful'
  /\ \/ Total(m)' = Total(m)
     \/ Total(m) >= 2 /\ Total(m)' >= 1
     \/ m \in doubtful' /\ Total(m)' >= Total(m)

LEMMA QueueMoves ==
  ASSUME RedeliveryAssumption, Typed, Tick \/ Succeed \/ Fail \/ GiveUp, NEW m \in Msgs, IsFiniteSet(Carriers(m))
  PROVE  Moves(m)
<1>1. /\ queue \in Seq(Wrapping)
      /\ InList(m) \in Nat /\ InQueue(m) \in Nat /\ InTransit(m) \in Nat
      /\ InDead(m) \in 0 .. 1 /\ InDone(m) \in 0 .. 1
  BY PlacesTyped
<1>2. /\ UNCHANGED <<scheduled, call, doubtful>>
  BY DEF Tick, Succeed, Fail, GiveUp, list, letters
<1>3. /\ InList(m)' = InList(m) /\ InTransit(m)' = InTransit(m) /\ Carriers(m)' = Carriers(m)
  BY <1>2 DEF InList, Entries, InTransit, Carriers
<1> DEFINE T == {e \in Wrapping : e.msg = m}
<1>4. ASSUME queue # <<>>
      PROVE  /\ Head(queue) \in Wrapping /\ Tail(queue) \in Seq(Wrapping)
             /\ Head(queue) \in T <=> Head(queue).msg = m
             /\ Cardinality(Positions(Tail(queue), T)) = InQueue(m) - (IF Head(queue).msg = m THEN 1 ELSE 0)
             /\ Head(queue).msg = m => InQueue(m) > 0
  <2>1. /\ Head(queue) \in Wrapping /\ Tail(queue) \in Seq(Wrapping) /\ 1 \in 1 .. Len(queue)
        /\ queue[1] = Head(queue) /\ Without(Tail(queue), queue, 1)
    BY <1>1, <1>4, TailIsWithout
  <2>2. Head(queue) \in T <=> Head(queue).msg = m
    BY <2>1
  <2>3. PICK U : U = T
    OBVIOUS
  <2>4. PICK r \in Seq(Wrapping), i \in 1 .. Len(queue) :
          r = Tail(queue) /\ i = 1 /\ Without(r, queue, i)
    BY <2>1
  <2>5. /\ Cardinality(Positions(r, U)) = Cardinality(Positions(queue, U)) - (IF queue[i] \in U THEN 1 ELSE 0)
        /\ queue[i] \in U => Cardinality(Positions(queue, U)) > 0
    <3>1. PICK q \in Seq(Wrapping) : q = queue
      BY <1>1
    <3>2. i \in 1 .. Len(q) /\ Without(r, q, i)
      BY <2>4, <3>1
    <3>3. /\ Cardinality(Positions(r, U)) = Cardinality(Positions(q, U)) - (IF q[i] \in U THEN 1 ELSE 0)
          /\ q[i] \in U => Cardinality(Positions(q, U)) > 0
      BY <3>2, PositionsWithout
    <3> QED
      BY <3>1, <3>3
  <2> QED
    BY <2>1, <2>2, <2>3, <2>4, <2>5 DEF InQueue
<1>5. CASE Tick
  <2>1. InQueue(m)' = InQueue(m) /\ InDead(m)' = InDead(m) /\ InDone(m)' = InDone(m)
    BY <1>5 DEF Tick, target, letters, InQueue, Wrapping, Budget, InDead, InDone
  <2> QED
    BY <1>2, <1>3, <2>1 DEF Moves, Total
<1>6. CASE Succeed
  <2>1. queue # <<>> /\ queue' = Tail(queue) /\ done' = done \cup {Head(queue).msg} /\ dead' = dead
    BY <1>6 DEF Succeed, Handles
  <2>2. /\ InQueue(m)' = InQueue(m) - (IF Head(queue).msg = m THEN 1 ELSE 0)
        /\ InDead(m)' = InDead(m)
        /\ InDone(m)' = IF Head(queue).msg = m THEN 1 ELSE InDone(m)
    BY <1>4, <2>1 DEF InQueue, Wrapping, Budget, InDead, InDone
  <2>3. Total(m)' = Total(m) \/ (Total(m) >= 2 /\ Total(m)' >= 1)
    BY <1>1, <1>3, <1>4, <2>1, <2>2 DEF Total
  <2> QED
    BY <1>2, <1>3, <2>3 DEF Moves
<1>7. CASE Fail
  <2> DEFINE h == Head(queue).msg
             n == Head(queue).attempt + 1
  <2>1. queue # <<>> /\ done' = done
    BY <1>7 DEF Fail, Handles
  <2>2. InDone(m)' = InDone(m)
    BY <2>1 DEF InDone
  <2>3. CASE queue' = Tail(queue) /\ dead' = dead \cup {h}
    <3>1. /\ InQueue(m)' = InQueue(m) - (IF h = m THEN 1 ELSE 0)
          /\ InDead(m)' = IF h = m THEN 1 ELSE InDead(m)
      BY <1>4, <2>1, <2>3 DEF InQueue, Wrapping, Budget, InDead
    <3>2. Total(m)' = Total(m) \/ (Total(m) >= 2 /\ Total(m)' >= 1)
      BY <1>1, <1>3, <1>4, <2>1, <2>2, <3>1 DEF Total
    <3> QED
      BY <1>2, <1>3, <3>2 DEF Moves
  <2>4. CASE ~Spent(h, n) /\ queue' = Append(Tail(queue), [msg |-> h, attempt |-> n]) /\ UNCHANGED dead
    <3>1. [msg |-> h, attempt |-> n] \in Wrapping
      BY <1>4, <2>1, <2>4, Attempted, Wrapped, Wraps
    <3>2. [msg |-> h, attempt |-> n] \in T <=> h = m
      BY <3>1
    <3>3. Cardinality(Positions(queue', T)) = Cardinality(Positions(Tail(queue), T)) + (IF h = m THEN 1 ELSE 0)
      <4>1. PICK q \in Seq(Wrapping), e \in Wrapping, U \in {T} :
              q = Tail(queue) /\ e = [msg |-> h, attempt |-> n]
        BY <1>4, <2>1, <3>1
      <4>2. Cardinality(Positions(Append(q, e), U))
              = Cardinality(Positions(q, U)) + (IF e \in U THEN 1 ELSE 0)
        BY PositionsAppend
      <4> QED
        BY <2>4, <3>2, <4>1, <4>2
    <3>4. InQueue(m)' = InQueue(m) /\ InDead(m)' = InDead(m)
      BY <1>1, <1>4, <2>1, <2>4, <3>3 DEF InQueue, Wrapping, Budget, InDead
    <3> QED
      BY <1>2, <1>3, <2>2, <3>4 DEF Moves, Total
  <2> QED
    BY <1>7, <2>3, <2>4 DEF Fail
<1>8. CASE GiveUp
  <2>1. queue # <<>> /\ queue' = Tail(queue) /\ dead' = dead \cup {Head(queue).msg} /\ done' = done
    BY <1>8 DEF GiveUp
  <2>2. /\ InQueue(m)' = InQueue(m) - (IF Head(queue).msg = m THEN 1 ELSE 0)
        /\ InDead(m)' = IF Head(queue).msg = m THEN 1 ELSE InDead(m)
        /\ InDone(m)' = InDone(m)
    BY <1>4, <2>1 DEF InQueue, Wrapping, Budget, InDead, InDone
  <2>3. Total(m)' = Total(m) \/ (Total(m) >= 2 /\ Total(m)' >= 1)
    BY <1>1, <1>3, <1>4, <2>1, <2>2 DEF Total
  <2> QED
    BY <1>2, <1>3, <2>3 DEF Moves
<1> QED
  BY <1>5, <1>6, <1>7, <1>8

LEMMA JoinsQueue ==
  ASSUME RedeliveryAssumption, Typed, NEW x \in Msgs, Enqueue(x), NEW m \in Msgs
  PROVE  InQueue(m)' = InQueue(m) + (IF x = m THEN 1 ELSE 0)
<1> DEFINE T == {e \in Wrapping : e.msg = m}
           w == [msg |-> x, attempt |-> 0]
<1>1. queue \in Seq(Wrapping) /\ w \in Wrapping /\ queue' = Append(queue, w) /\ (w \in T <=> x = m)
  BY Attempted, Wraps DEF Typed, Store, Enqueue
<1> HIDE DEF w
<1>2. Cardinality(Positions(queue', T)) = Cardinality(Positions(queue, T)) + (IF x = m THEN 1 ELSE 0)
  BY <1>1, PositionsAppend
<1> QED
  BY <1>2 DEF InQueue, Wrapping, Budget

LEMMA SchedulerMoves ==
  ASSUME RedeliveryAssumption, Typed, \/ \E x \in Msgs : Schedule(x)
                \/ \E t \in Threads : Flush(t),
         NEW m \in Msgs, IsFiniteSet(Carriers(m))
  PROVE  Moves(m)
<1> DEFINE T == {e \in Entries : e.msg = m}
<1>1. /\ scheduled \in Seq(Entries)
      /\ InList(m) \in Nat /\ InQueue(m) \in Nat /\ InTransit(m) \in Nat
      /\ InDead(m) \in 0 .. 1 /\ InDone(m) \in 0 .. 1
  BY PlacesTyped
<1>2. ASSUME NEW x \in Msgs, Schedule(x) PROVE Moves(m)
  <2>1. PICK d \in 0 .. MaxTime - clock :
          scheduled' = Append(scheduled, [id |-> made + 1, msg |-> x, retryAt |-> clock + d])
    BY <1>2 DEF Schedule
  <2>2. x \in dead /\ dead' = dead \ {x} /\ UNCHANGED <<queue, done, doubtful, call>>
    BY <1>2 DEF Schedule, target
  <2> DEFINE e == [id |-> made + 1, msg |-> x, retryAt |-> clock + d]
  <2>3. e \in Entries /\ (e \in T <=> x = m)
    BY <2>1, Consts DEF Typed, Store, Entries
  <2>4. scheduled' = Append(scheduled, e)
    BY <2>1
  <2> HIDE DEF e
  <2>5. Cardinality(Positions(scheduled', T)) = Cardinality(Positions(scheduled, T)) + (IF x = m THEN 1 ELSE 0)
    BY <1>1, <2>3, <2>4, PositionsAppend
  <2>6. InList(m)' = InList(m) + (IF x = m THEN 1 ELSE 0)
    BY <2>5 DEF InList, Entries
  <2>7. /\ InQueue(m)' = InQueue(m) /\ InTransit(m)' = InTransit(m) /\ Carriers(m)' = Carriers(m)
        /\ InDone(m)' = InDone(m) /\ InDead(m)' = InDead(m) - (IF x = m THEN 1 ELSE 0)
    BY <2>2 DEF InQueue, Wrapping, Budget, InTransit, Carriers, InDone, InDead
  <2> QED
    BY <1>1, <2>2, <2>6, <2>7 DEF Moves, Total
<1>3. ASSUME NEW t \in Threads, Flush(t) PROVE Moves(m)
  <2>1. /\ At(t, "idle") => call[t] = Idle
        /\ At(t, "remove") => Removing(call[t])
        /\ At(t, "enqueue") => Enqueuing(call[t])
    BY Places
  <2>2. UNCHANGED <<dead, done, doubtful>>
    BY <1>3 DEF Flush, FlushDue, Scan, TakeOut, TakenOut, EnqueueEntry, letters
  <2>3. InDead(m)' = InDead(m) /\ InDone(m)' = InDone(m)
    BY <2>2 DEF InDead, InDone
  <2>4. ASSUME UNCHANGED queue PROVE InQueue(m)' = InQueue(m)
    BY <2>4 DEF InQueue, Wrapping, Budget
  <2>5. ASSUME UNCHANGED scheduled PROVE InList(m)' = InList(m)
    BY <2>5 DEF InList, Entries
  <2>6. \A due : ~Carries(Loop(due), m)
    BY DEF Carries, Loop, Idle
  <2>7. ~Carries(Idle, m)
    BY DEF Carries, Idle
  <2>8. ASSUME FlushDue(t) \/ Scan(t) \/ TakenOut(t) PROVE Moves(m)
    <3>1. PICK c : Goto(t, c) /\ ~Carries(c, m)
      <4>1. CASE FlushDue(t)
        BY <4>1 DEF FlushDue, Carries
      <4>2. CASE Scan(t)
        <5>1. ASSUME NEW i, NEW due PROVE ~Carries([call[t] EXCEPT !.i = i, !.due = due], m)
          <6>1. [call[t] EXCEPT !.i = i, !.due = due].at = "scan"
            BY <4>2, Places DEF Scan, Scanning
          <6> QED
            BY <6>1 DEF Carries
        <5> QED
          BY <4>2, <5>1, <2>6 DEF Scan
      <4>3. CASE TakenOut(t)
        BY <4>3, <2>7 DEF TakenOut
      <4> QED
        BY <2>8, <4>1, <4>2, <4>3
    <3>2. ~Carries(call[t], m)
      BY <2>8 DEF FlushDue, Scan, TakenOut, At, Carries
    <3>3. UNCHANGED <<scheduled, queue>>
      BY <2>8 DEF FlushDue, Scan, TakenOut, list, target
    <3>4. IsFiniteSet(Carriers(m)') /\ InTransit(m)' = InTransit(m)
      BY <1>1, <3>1, <3>2, CarriersGo
    <3> QED
      BY <2>2, <2>3, <2>4, <2>5, <3>3, <3>4 DEF Moves, Total
  <2>9. CASE TakeOut(t)
    <3> DEFINE h == Head(call[t].due)
    <3>1. PICK i \in 1 .. Len(scheduled) : scheduled[i] = h /\ scheduled' = RemoveAt(scheduled, i)
      BY <2>9 DEF TakeOut
    <3>2. /\ scheduled' \in Seq(Entries) /\ Without(scheduled', scheduled, i)
      BY <1>1, <3>1, RemoveAtSeq DEF Without
    <3>3. h \in Entries
      BY <1>1, <3>1
    <3>4. h \in T <=> h.msg = m
      BY <3>3
    <3>5. /\ Cardinality(Positions(scheduled', T))
               = Cardinality(Positions(scheduled, T)) - (IF scheduled[i] \in T THEN 1 ELSE 0)
      BY <1>1, <3>2, PositionsWithout
    <3>6. InList(m)' = InList(m) - (IF h.msg = m THEN 1 ELSE 0)
      BY <3>1, <3>4, <3>5 DEF InList, Entries
    <3>7. PICK c : c = [at |-> "enqueue", entry |-> h, due |-> Tail(call[t].due)]
      OBVIOUS
    <3>8. Goto(t, c) /\ UNCHANGED queue
      BY <2>9, <3>7 DEF TakeOut, target
    <3>9. Carries(c, m) <=> h.msg = m
      BY <3>7 DEF Carries
    <3>10. ~Carries(call[t], m)
      BY <2>9 DEF TakeOut, At, Carries
    <3>11. IsFiniteSet(Carriers(m)') /\ InTransit(m)' = InTransit(m) + (IF h.msg = m THEN 1 ELSE 0)
      BY <1>1, <3>8, <3>9, <3>10, CarriersGo
    <3>12. Total(m)' = Total(m)
      BY <1>1, <2>3, <2>4, <3>6, <3>8, <3>11 DEF Total
    <3> QED
      BY <2>2, <3>11, <3>12 DEF Moves
  <2>10. CASE EnqueueEntry(t)
    <3>1. PICK x \in Msgs : x = call[t].entry.msg
      BY <2>1, <2>10 DEF EnqueueEntry, Enqueuing, Due, Entry
    <3>2. Enqueue(x) /\ UNCHANGED scheduled
      BY <2>10, <3>1 DEF EnqueueEntry, list
    <3>3. InQueue(m)' = InQueue(m) + (IF x = m THEN 1 ELSE 0)
      BY <3>2, JoinsQueue
    <3>4. PICK c : Goto(t, c) /\ ~Carries(c, m)
      BY <2>10, <2>6 DEF EnqueueEntry
    <3>5. Carries(call[t], m) <=> x = m
      BY <2>10, <3>1 DEF EnqueueEntry, At, Carries
    <3>6. IsFiniteSet(Carriers(m)') /\ InTransit(m)' = InTransit(m) - (IF x = m THEN 1 ELSE 0)
      BY <1>1, <3>4, <3>5, CarriersGo
    <3>7. Total(m)' = Total(m)
      BY <1>1, <2>3, <2>5, <3>2, <3>3, <3>6 DEF Total
    <3> QED
      BY <2>2, <3>6, <3>7 DEF Moves
  <2> QED
    BY <1>3, <2>8, <2>9, <2>10 DEF Flush
<1> QED
  BY <1>2, <1>3

LEMMA ReplayerMoves ==
  ASSUME RedeliveryAssumption, Typed, \/ \E t \in Replayers : Replay(t)
                \/ \E t \in Threads : Handle(t),
         NEW m \in Msgs, IsFiniteSet(Carriers(m))
  PROVE  Moves(m)
<1>1. /\ InList(m) \in Nat /\ InQueue(m) \in Nat /\ InTransit(m) \in Nat
      /\ InDead(m) \in 0 .. 1 /\ InDone(m) \in 0 .. 1
  BY PlacesTyped
<1>2. ~Carries(Idle, m)
  BY DEF Carries, Idle
<1>3. UNCHANGED <<scheduled, done>>
  BY DEF Replay, Handle, ReplayMessage, SkipMessage, ReplayEnds, ReplayRaises, list, letters
<1>4. InList(m)' = InList(m) /\ InDone(m)' = InDone(m)
  BY <1>3 DEF InList, Entries, InDone
<1>5. ASSUME UNCHANGED queue PROVE InQueue(m)' = InQueue(m)
  BY <1>5 DEF InQueue, Wrapping, Budget
<1>6. ASSUME NEW t \in Replayers, Replay(t) PROVE Moves(m)
  <2>1. t \in Threads /\ call[t] = Idle
    BY <1>6, Consts, Places DEF Replay
  <2>2. PICK messages : Goto(t, [at |-> "replay", todo |-> messages, all |-> dead, sent |-> {}])
    BY <1>6 DEF Replay
  <2>3. PICK c : c = [at |-> "replay", todo |-> messages, all |-> dead, sent |-> {}]
    OBVIOUS
  <2>4. Carries(c, m) <=> m \in dead
    BY <2>3 DEF Carries
  <2>5. /\ IsFiniteSet(Carriers(m)')
        /\ InTransit(m)' = InTransit(m) + (IF m \in dead THEN 1 ELSE 0)
    BY <1>1, <1>2, <2>1, <2>2, <2>3, <2>4, CarriersGo
  <2>6. dead' = {} /\ UNCHANGED <<queue, doubtful>>
    BY <1>6 DEF Replay, target
  <2>7. InDead(m)' = 0 /\ InDead(m) = IF m \in dead THEN 1 ELSE 0
    BY <2>6 DEF InDead
  <2>8. Total(m)' = Total(m)
    BY <1>1, <1>4, <1>5, <2>5, <2>6, <2>7 DEF Total
  <2> QED
    BY <2>5, <2>6, <2>8 DEF Moves
<1>7. ASSUME NEW t \in Threads, Handle(t) PROVE Moves(m)
  <2>1. At(t, "replay") /\ Replaying(call[t])
    BY <1>7, Places DEF Handle, ReplayMessage, SkipMessage, ReplayEnds, ReplayRaises
  <2>2. Carries(call[t], m) <=> m \in call[t].all \ call[t].sent
    BY <2>1 DEF At, Carries
  <2>3. CASE ReplayMessage(t)
    <3>1. PICK x \in Msgs : x = Head(call[t].todo) /\ x \in call[t].all \ call[t].sent
      BY <2>1, <2>3, TodoTail DEF ReplayMessage
    <3>2. Enqueue(x) /\ UNCHANGED <<dead, doubtful>>
      BY <2>3, <3>1 DEF ReplayMessage, letters
    <3>3. InQueue(m)' = InQueue(m) + (IF x = m THEN 1 ELSE 0)
      BY <3>2, JoinsQueue
    <3>4. PICK c : c = [call[t] EXCEPT !.todo = Tail(@), !.sent = @ \cup {Head(call[t].todo)}]
      OBVIOUS
    <3>5. c.at = "replay" /\ c.all = call[t].all /\ c.sent = call[t].sent \cup {x}
      BY <2>1, <3>1, <3>4 DEF Replaying
    <3>6. Carries(c, m) <=> m \in call[t].all \ call[t].sent /\ m # x
      BY <3>1, <3>5 DEF Carries
    <3>7. Goto(t, c)
      BY <2>3, <3>4 DEF ReplayMessage
    <3>8. IsFiniteSet(Carriers(m)') /\ InTransit(m)' = InTransit(m) - (IF x = m THEN 1 ELSE 0)
      BY <1>1, <2>2, <3>1, <3>6, <3>7, CarriersGo
    <3>9. InDead(m)' = InDead(m)
      BY <3>2 DEF InDead
    <3>10. Total(m)' = Total(m)
      BY <1>1, <1>4, <3>3, <3>8, <3>9 DEF Total
    <3> QED
      BY <3>2, <3>8, <3>10 DEF Moves
  <2>4. CASE SkipMessage(t)
    <3>1. PICK c : c = [call[t] EXCEPT !.todo = Tail(@)]
      OBVIOUS
    <3>2. c.at = "replay" /\ c.all = call[t].all /\ c.sent = call[t].sent
      BY <2>1, <3>1 DEF Replaying
    <3>3. Carries(c, m) <=> m \in call[t].all \ call[t].sent
      BY <3>2 DEF Carries
    <3>4. Goto(t, c) /\ UNCHANGED <<queue, dead, doubtful>>
      BY <2>4, <3>1 DEF SkipMessage, target, letters
    <3>5. IsFiniteSet(Carriers(m)') /\ InTransit(m)' = InTransit(m)
      BY <1>1, <2>2, <3>3, <3>4, CarriersGo
    <3> QED
      BY <1>4, <1>5, <3>4, <3>5 DEF Moves, Total, InDead
  <2>5. ASSUME ReplayEnds(t) \/ ReplayRaises(t)
        PROVE  /\ IsFiniteSet(Carriers(m)')
               /\ InTransit(m)' = InTransit(m) - (IF m \in call[t].all \ call[t].sent THEN 1 ELSE 0)
               /\ m \in call[t].all \ call[t].sent => InTransit(m) > 0
               /\ InQueue(m)' = InQueue(m)
    <3>1. PICK c : c = Idle
      OBVIOUS
    <3>2. Goto(t, c) /\ UNCHANGED queue
      BY <2>5, <3>1 DEF ReplayEnds, ReplayRaises, target
    <3> QED
      BY <1>1, <1>2, <1>5, <2>2, <3>1, <3>2, CarriersGo
  <2>6. CASE ReplayEnds(t)
    <3>1. dead' = dead \cup (call[t].all \ call[t].sent) /\ doubtful' = doubtful
      BY <2>6 DEF ReplayEnds
    <3>2. InDead(m)' = IF m \in call[t].all \ call[t].sent THEN 1 ELSE InDead(m)
      BY <3>1 DEF InDead
    <3>3. Total(m)' = Total(m) \/ (Total(m) >= 2 /\ Total(m)' >= 1)
      BY <1>1, <1>4, <2>5, <2>6, <3>2 DEF Total
    <3> QED
      BY <2>5, <2>6, <3>1, <3>3 DEF Moves
  <2>7. CASE ReplayRaises(t)
    <3>1. dead' = dead \cup call[t].all /\ doubtful' = doubtful \cup call[t].sent
      BY <2>7 DEF ReplayRaises
    <3>2. InDead(m)' = IF m \in call[t].all THEN 1 ELSE InDead(m)
      BY <3>1 DEF InDead
    <3>3. CASE m \in call[t].all \ call[t].sent
      <4>1. Total(m)' = Total(m) \/ (Total(m) >= 2 /\ Total(m)' >= 1)
        BY <1>1, <1>4, <2>5, <2>7, <3>2, <3>3 DEF Total
      <4> QED
        BY <2>5, <2>7, <3>1, <4>1 DEF Moves
    <3>4. CASE m \in call[t].sent
      <4>1. Total(m)' >= Total(m) /\ m \in doubtful'
        BY <1>1, <1>4, <2>5, <2>7, <3>1, <3>2, <3>4 DEF Total
      <4> QED
        BY <2>5, <2>7, <3>1, <4>1 DEF Moves
    <3>5. CASE m \notin call[t].all
      <4>1. Total(m)' = Total(m)
        BY <1>1, <1>4, <2>5, <2>7, <3>2, <3>5 DEF Total
      <4> QED
        BY <2>5, <2>7, <3>1, <4>1 DEF Moves
    <3> QED
      BY <3>3, <3>4, <3>5
  <2> QED
    BY <1>7, <2>3, <2>4, <2>6, <2>7 DEF Handle
<1> QED
  BY <1>6, <1>7

LEMMA OnePlaceInit == ASSUME RedeliveryAssumption PROVE Init => OnePlace
<1> SUFFICES ASSUME Init, NEW m \in Msgs
             PROVE  IsFiniteSet(Carriers(m)) /\ Total(m) = 1
  BY DEF OnePlace
<1>1. Carriers(m) = {}
  BY DEF Init, Carriers, Carries, Idle
<1>2. \A T : Positions(<<>>, T) = {}
  BY DEF Positions
<1>3. InList(m) = 0 /\ InQueue(m) = 0 /\ InTransit(m) = 0
  BY <1>1, <1>2, FS_EmptySet DEF Init, InList, InQueue, InTransit
<1>4. InDead(m) = 1 /\ InDone(m) = 0
  BY DEF Init, InDead, InDone
<1> QED
  BY <1>1, <1>3, <1>4, FS_EmptySet DEF Total

LEMMA OnePlaceNext ==
  ASSUME RedeliveryAssumption
  PROVE  Typed /\ OnePlace /\ [Next]_vars => OnePlace'
<1> SUFFICES ASSUME Typed, OnePlace, [Next]_vars, NEW m \in Msgs
             PROVE  /\ IsFiniteSet(Carriers(m)') /\ Total(m)' >= 1
                    /\ m \notin doubtful' => Total(m)' = 1
  BY DEF OnePlace
<1>1. /\ IsFiniteSet(Carriers(m)) /\ Total(m) >= 1
      /\ m \notin doubtful => Total(m) = 1
  BY DEF OnePlace
<1>2. Total(m) \in Nat
  BY <1>1, PlacesTyped DEF Total
<1>3. CASE UNCHANGED vars
  <2>1. Carriers(m)' = Carriers(m) /\ doubtful' = doubtful
    BY <1>3 DEF vars, letters, Carriers
  <2>2. Total(m)' = Total(m)
    BY <1>3, <2>1 DEF vars, list, target, letters, Total, InList, Entries, InQueue, Wrapping,
                      InTransit, InDead, InDone
  <2> QED
    BY <1>1, <2>1, <2>2
<1>4. CASE Next
  <2>1. Moves(m)
    BY <1>1, <1>4, QueueMoves, SchedulerMoves, ReplayerMoves DEF Next
  <2>2. IsFiniteSet(Carriers(m)') /\ doubtful \subseteq doubtful'
    BY <2>1 DEF Moves
  <2>3. CASE Total(m)' = Total(m)
    BY <1>1, <2>2, <2>3
  <2>4. CASE Total(m) >= 2 /\ Total(m)' >= 1
    BY <1>1, <1>2, <2>2, <2>4
  <2>5. CASE m \in doubtful' /\ Total(m)' >= Total(m)
    <3>1. Total(m)' \in Int
      <4>1. Typed'
        BY TypedNext
      <4>2. /\ InList(m)' \in Nat /\ InQueue(m)' \in Nat /\ InTransit(m)' \in Nat
            /\ InDead(m)' \in 0 .. 1 /\ InDone(m)' \in 0 .. 1
        <5>1. scheduled' \in Seq(Entries) /\ queue' \in Seq(Wrapping)
          <6>1. Entry' \subseteq Entries
            BY <4>1, Consts DEF Entry, Entries, Typed, Store
          <6> QED
            BY <4>1, <6>1, SeqMonotonic DEF Typed, Store, Wrapping
        <5> QED
          BY <5>1, <2>2, PositionsAreMarks, FS_CardinalityType
             DEF InList, InQueue, InTransit, InDead, InDone, Entries, Wrapping
      <4> QED
        BY <4>2 DEF Total
    <3> QED
      BY <1>1, <1>2, <2>2, <2>5, <3>1
  <2> QED
    BY <2>1, <2>3, <2>4, <2>5 DEF Moves
<1> QED
  BY <1>3, <1>4

(* However flushes, replays, scheduling and processing overlap, a message  *)
(* is never lost and is in one place only, unless a replay that enqueued   *)
(* it raised (scheduler.py:52, replay.py:79).                              *)
THEOREM NothingLostOrRepeated ==
  ASSUME RedeliveryAssumption
  PROVE  Spec => []OneCopy
<1>1. ASSUME Typed, OnePlace, NEW m \in Msgs PROVE Presence(m) = Total(m)
  <2>1. scheduled \in Seq(Entries) /\ queue \in Seq(Wrapping)
    BY <1>1, PlacesTyped DEF OnePlace
  <2>2. {i \in DOMAIN scheduled : scheduled[i].msg = m} = Positions(scheduled, {e \in Entries : e.msg = m})
    BY <2>1 DEF Positions
  <2>3. {i \in DOMAIN queue : queue[i].msg = m} = Positions(queue, {e \in Wrapping : e.msg = m})
    BY <2>1 DEF Positions
  <2>4. {t \in Threads : \/ call[t].at = "enqueue" /\ call[t].entry.msg = m
                         \/ call[t].at = "replay" /\ m \in call[t].all \ call[t].sent} = Carriers(m)
    BY DEF Carriers, Carries
  <2>5. \A S : Cardinality({m} \cap S) = IF m \in S THEN 1 ELSE 0
    <3>1. \A S : {m} \cap S = IF m \in S THEN {m} ELSE {}
      OBVIOUS
    <3> QED
      BY <3>1, FS_EmptySet, FS_Singleton
  <2>6. Cardinality({m} \cap dead) = InDead(m) /\ Cardinality({m} \cap done) = InDone(m)
    BY <2>5 DEF InDead, InDone
  <2>7. Presence(m) = Cardinality(Positions(scheduled, {e \in Entries : e.msg = m}))
                      + Cardinality(Positions(queue, {e \in Wrapping : e.msg = m}))
                      + Cardinality(Carriers(m))
                      + Cardinality({m} \cap dead) + Cardinality({m} \cap done)
    BY <2>2, <2>3, <2>4, Zenon DEF Presence
  <2> QED
    BY <2>6, <2>7 DEF Total, InList, InQueue, InTransit
<1>2. Typed /\ OnePlace => OneCopy
  BY <1>1 DEF OnePlace, OneCopy
<1> QED
  BY <1>2, TypedInit, TypedNext, OnePlaceInit, OnePlaceNext, PTL DEF Spec

===============================================================================
