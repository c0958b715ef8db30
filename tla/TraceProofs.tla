----------------------------- MODULE TraceProofs -----------------------------
(***************************************************************************)
(* The safety properties of Trace, for any number of threads, durations    *)
(* and captures, and whatever step of traceCaptureStop fails.              *)
(*                                                                         *)
(* TypeInv says who holds the mutex and how deep, and what a thread has in *)
(* hand.  NothingLost needs no more.  The rest is for a program that       *)
(* starts and stops its captures while nothing is traced: DurationInv says *)
(* where the name of a duration may be, and QuietInv counts the durations  *)
(* that were begun and not ended, in the stacks of the threads and in the  *)
(* event queue.                                                            *)
(***************************************************************************)
EXTENDS Trace, FiniteSetTheorems, SequenceTheorems, TLAPS

\* The steps of a thread that has the mutex.
Inside == {"pushEvent", "pushPrint", "popEvent", "popPrint",
           "stopOpen", "stopTake", "stopWrite", "stopEnd"}

Steps == TracerSteps \cup StopSteps

StepsOK ==
  /\ pc \in [Tracers -> Steps]
  /\ \A t \in Tracers : pc[t] \in TracerSteps \cup (IF t = Main THEN StopSteps ELSE {})

\* The mutex: its owner is inside, or is the one whose capture failed.
LockInv ==
  /\ owner \in Tracers \cup {Nobody} /\ failed \in Nat /\ depth \in 0 .. failed + 1
  /\ \A t \in Tracers : pc[t] \in Inside => owner = t
  /\ failed > 0 => owner = Main
  /\ depth = failed + (IF \E t \in Tracers : pc[t] \in Inside THEN 1 ELSE 0)
  /\ owner = Nobody <=> depth = 0

Args == Durations \cup {Garbage} \cup PrintEvents

\* The name of a begin event is that of a duration.
Named(event) == event.type = "B" => event.name \in Durations

\* What a thread has in hand.
HandsOK ==
  /\ \A t \in Tracers :
       pc[t] \in {"pushLock", "pushEvent", "pushPrint", "popPrint"} => arg[t] \in Durations
  /\ pc[Main] = "stopWrite" => arg[Main] \in PrintEvents /\ Named(arg[Main])
  /\ \A k \in 1 .. Len(print) : Named(print[k])

DataOK ==
  /\ started \in BOOLEAN /\ leaked \in BOOLEAN /\ captures \in 0 .. 2 * MaxCaptures
  /\ events \in Seq(Durations) /\ Len(events) <= Capacity
  /\ print \in Seq(PrintEvents) /\ Len(print) <= 2 * Capacity
  /\ arg \in [Tracers -> Args] /\ freed \subseteq Durations
  /\ stack \in [Tracers -> Seq(Durations)]
  /\ log \in Seq(PrintEvents) /\ written \in Seq(PrintEvents)

TypeInv == DataOK /\ StepsOK /\ LockInv /\ HandsOK

-----------------------------------------------------------------------------
(* The mutex. *)

LEMMA StepNames ==
  /\ {"pushLock", "popLock", "stopLock", "idle"} \cap Inside = {}
  /\ Inside \subseteq Steps /\ {"pushLock", "popLock", "stopLock", "idle"} \subseteq Steps
  /\ StopSteps \cap TracerSteps = {}
BY DEF Inside, Steps, TracerSteps, StopSteps

LEMMA LockLocks ==
  ASSUME TypeInv, NEW t \in Tracers, NEW from, NEW to \in Inside, from \notin Inside,
         Lock(t, from, to)
  PROVE  LockInv'
<1>1. /\ pc[t] \notin Inside /\ owner \in {t, Nobody} /\ owner' = t /\ depth' = depth + 1
      /\ pc' = [pc EXCEPT ![t] = to] /\ failed' = failed
  BY DEF Lock, CanLock, Goto, history
<1>2. /\ pc \in [Tracers -> Steps] /\ failed \in Nat /\ depth \in Nat
      /\ \A u \in Tracers : pc[u] \in Inside => owner = u
      /\ failed > 0 => owner = Main
      /\ depth = failed + (IF \E u \in Tracers : pc[u] \in Inside THEN 1 ELSE 0)
  BY DEF TypeInv, StepsOK, LockInv
<1>3. \A u \in Tracers : pc[u] \notin Inside
  BY <1>1, <1>2, TracersAssumption
<1>4. depth = failed
  BY <1>2, <1>3
<1>5. pc'[t] \in Inside /\ \A u \in Tracers : pc'[u] \in Inside => u = t
  BY <1>1, <1>2, <1>3
<1>6. failed > 0 => t = Main
  BY <1>1, <1>2, TracersAssumption
<1>7. owner' # Nobody
  BY <1>1, TracersAssumption
<1> QED
  BY <1>1, <1>2, <1>4, <1>5, <1>6, <1>7 DEF LockInv

LEMMA UnlockUnlocks ==
  ASSUME TypeInv, NEW t \in Tracers, pc[t] \in Inside, Unlock(t), failed' = failed
  PROVE  LockInv'
<1>1. /\ depth' = depth - 1 /\ owner' = IF depth - 1 = 0 THEN Nobody ELSE owner
      /\ pc' = [pc EXCEPT ![t] = "idle"]
  BY DEF Unlock, Unlocked, Goto
<1>2. /\ pc \in [Tracers -> Steps] /\ failed \in Nat /\ depth \in Nat
      /\ owner = t /\ \A u \in Tracers : pc[u] \in Inside => u = t
      /\ failed > 0 => owner = Main
      /\ depth = failed + 1
  BY DEF TypeInv, StepsOK, LockInv
<1>3. \A u \in Tracers : pc'[u] \notin Inside
  BY <1>1, <1>2, StepNames
<1>4. depth' = failed /\ owner' = IF failed = 0 THEN Nobody ELSE t
  BY <1>1, <1>2
<1>5. t # Nobody
  BY TracersAssumption
<1> QED
  BY <1>2, <1>3, <1>4, <1>5 DEF LockInv

(* Who is inside goes on inside, and who is not stays out.                    *)
LEMMA LockKept ==
  ASSUME TypeInv, UNCHANGED <<owner, depth, failed>>,
         \A t \in Tracers : pc'[t] \in Inside <=> pc[t] \in Inside
  PROVE  LockInv'
<1>1. (\E t \in Tracers : pc'[t] \in Inside) <=> (\E t \in Tracers : pc[t] \in Inside)
  OBVIOUS
<1> QED
  BY <1>1 DEF TypeInv, LockInv

LEMMA LockMoves ==
  ASSUME TypeInv, NEW t \in Tracers, NEW to, Goto(t, to), UNCHANGED <<owner, depth, failed>>,
         to \in Inside <=> pc[t] \in Inside
  PROVE  LockInv'
<1>1. \A u \in Tracers : pc'[u] \in Inside <=> pc[u] \in Inside
  BY DEF Goto, TypeInv, StepsOK
<1> QED
  BY <1>1, LockKept

LEMMA FailKeepsLock ==
  ASSUME TypeInv, StopFails
  PROVE  LockInv'
<1>1. /\ pc[Main] \in Inside /\ failed' = failed + 1 /\ owner' = owner /\ depth' = depth
      /\ pc' = [pc EXCEPT ![Main] = "idle"]
  BY CaptureAssumption DEF StopFails, Goto, lock, Inside
<1>2. /\ pc \in [Tracers -> Steps] /\ failed \in Nat /\ Main \in Tracers
      /\ owner = Main /\ \A u \in Tracers : pc[u] \in Inside => u = Main
      /\ depth = failed + 1
  BY <1>1, TracersAssumption DEF TypeInv, StepsOK, LockInv
<1>3. \A u \in Tracers : pc'[u] \notin Inside
  BY <1>1, <1>2, StepNames
<1>4. Main # Nobody
  BY TracersAssumption
<1> QED
  BY <1>1, <1>2, <1>3, <1>4 DEF LockInv

-----------------------------------------------------------------------------
(* Types. *)

LEMMA GotoType ==
  ASSUME TypeInv, NEW t \in Tracers, NEW to, Goto(t, to),
         to \in TracerSteps \cup (IF t = Main THEN StopSteps ELSE {})
  PROVE  StepsOK' /\ pc'[t] = to /\ \A u \in Tracers \ {t} : pc'[u] = pc[u]
BY DEF TypeInv, StepsOK, Goto, Steps

(* The hands of the others, when t goes on with the argument it has.          *)
LEMMA HandsKept ==
  ASSUME TypeInv, UNCHANGED <<arg, print>>, NEW t \in Tracers,
         \A u \in Tracers \ {t} : pc'[u] = pc[u],
         pc'[t] \in {"pushLock", "pushEvent", "pushPrint", "popPrint"} => arg[t] \in Durations,
         pc'[t] # "stopWrite"
  PROVE  HandsOK'
BY TracersAssumption DEF TypeInv, HandsOK, Named

LEMMA LockType ==
  ASSUME TypeInv, NEW t \in Tracers, NEW from, NEW to \in Inside, from \notin Inside,
         Lock(t, from, to), to \in TracerSteps \cup (IF t = Main THEN StopSteps ELSE {}),
         (from = "pushLock" /\ to = "pushEvent") \/ to \in {"popEvent", "stopOpen"}
  PROVE  TypeInv'
<1>1. LockInv'
  BY LockLocks
<1>2. pc[t] = from /\ Goto(t, to) /\ UNCHANGED <<started, events, print, arg, freed, stack, history>>
  BY DEF Lock
<1>3. StepsOK' /\ pc'[t] = to /\ \A u \in Tracers \ {t} : pc'[u] = pc[u]
  BY <1>2, GotoType
<1>4. to \in {"pushLock", "pushEvent", "pushPrint", "popPrint"} => arg[t] \in Durations
  BY <1>2 DEF TypeInv, HandsOK
<1>5. HandsOK'
  BY <1>2, <1>3, <1>4, HandsKept
<1>6. DataOK'
  BY <1>2 DEF TypeInv, DataOK, history
<1> QED
  BY <1>1, <1>3, <1>5, <1>6 DEF TypeInv

LEMMA PushBeginType ==
  ASSUME TypeInv, NEW t \in Tracers, NEW d \in Durations, PushBegin(t, d)
  PROVE  TypeInv'
<1>1. /\ pc[t] = "idle" /\ stack' = [stack EXCEPT ![t] = Append(@, d)]
      /\ UNCHANGED <<started, events, print, lock, freed, history>>
  BY DEF PushBegin
<1>2. stack' \in [Tracers -> Seq(Durations)]
  BY <1>1 DEF TypeInv, DataOK
<1>3. CASE started
  <2>1. arg' = [arg EXCEPT ![t] = d] /\ Goto(t, "pushLock")
    BY <1>3 DEF PushBegin
  <2>2. StepsOK' /\ pc'[t] = "pushLock" /\ \A u \in Tracers \ {t} : pc'[u] = pc[u]
    BY <2>1, GotoType DEF TracerSteps
  <2>3. LockInv'
    BY <1>1, <2>1, StepNames, LockMoves DEF lock, history
  <2>4. /\ arg' \in [Tracers -> Args] /\ arg'[t] = d
        /\ \A u \in Tracers \ {t} : arg'[u] = arg[u]
    BY <2>1 DEF TypeInv, DataOK, Args
  <2>5. HandsOK'
    BY <1>1, <2>2, <2>4, TracersAssumption DEF TypeInv, HandsOK
  <2> QED
    BY <1>1, <1>2, <2>2, <2>3, <2>4, <2>5 DEF TypeInv, DataOK, history
<1>4. CASE ~started
  <2>1. UNCHANGED <<arg, pc>>
    BY <1>4 DEF PushBegin
  <2>2. LockInv'
    BY <1>1, <2>1, LockKept DEF lock, history
  <2>3. HandsOK'
    BY <1>1, <2>1 DEF TypeInv, HandsOK
  <2> QED
    BY <1>1, <1>2, <2>1, <2>2, <2>3 DEF TypeInv, DataOK, StepsOK, history
<1> QED
  BY <1>3, <1>4

(* A stack that loses its last element.                                       *)
Popped(s) == SubSeq(s, 1, Len(s) - 1)

LEMMA PoppedSeq ==
  ASSUME NEW S, NEW s \in Seq(S)
  PROVE  /\ Popped(s) \in Seq(S)
         /\ s # << >> => /\ Len(s) \in Nat \ {0} /\ Len(Popped(s)) = Len(s) - 1
                         /\ \A k \in 1 .. Len(s) - 1 : Popped(s)[k] = s[k]
<1>1. Len(s) \in Nat /\ \A i \in 1 .. Len(s) : s[i] \in S
  BY ElementOfSeq, LenProperties
<1> DEFINE n == Len(s) - 1
<1>2. n \in Int /\ 1 \in Int /\ \A i \in 1 .. n : s[i] \in S
  BY <1>1
<1> HIDE DEF n
<1>4. /\ SubSeq(s, 1, n) \in Seq(S)
      /\ Len(SubSeq(s, 1, n)) = IF 1 <= n THEN n - 1 + 1 ELSE 0
      /\ \A i \in 1 .. n - 1 + 1 : SubSeq(s, 1, n)[i] = s[1 + i - 1]
  BY <1>2, SubSeqProperties
<1>3. s # << >> => Len(s) # 0
  BY EmptySeq
<1>5. /\ Len(SubSeq(s, 1, n)) = IF 1 <= n THEN n ELSE 0
      /\ \A i \in 1 .. n : SubSeq(s, 1, n)[i] = s[i]
  BY <1>2, <1>4
<1>6. Popped(s) = SubSeq(s, 1, n)
  BY DEF Popped, n
<1>7. s # << >> => n \in Nat /\ Len(s) \in Nat \ {0}
  BY <1>1, <1>3 DEF n
<1>8. Popped(s) \in Seq(S)
  BY <1>4, <1>6
<1>9. s # << >> => Len(Popped(s)) = n /\ \A k \in 1 .. n : Popped(s)[k] = s[k]
  BY <1>5, <1>6, <1>7
<1> QED
  BY <1>7, <1>8, <1>9 DEF n

LEMMA PopBeginType ==
  ASSUME TypeInv, NEW t \in Tracers, PopBegin(t)
  PROVE  TypeInv'
<1>1. pc[t] = "idle" /\ UNCHANGED <<started, events, print, lock, arg, freed, history>>
  BY DEF PopBegin
<1>2. CASE started
  <2>1. Goto(t, "popLock") /\ UNCHANGED stack
    BY <1>2 DEF PopBegin
  <2>2. StepsOK' /\ pc'[t] = "popLock" /\ \A u \in Tracers \ {t} : pc'[u] = pc[u]
    BY <2>1, GotoType DEF TracerSteps
  <2>3. LockInv'
    BY <1>1, <2>1, StepNames, LockMoves DEF lock, history
  <2>4. HandsOK'
    BY <1>1, <2>2, HandsKept
  <2> QED
    BY <1>1, <2>1, <2>2, <2>3, <2>4 DEF TypeInv, DataOK, history
<1>3. CASE ~started
  <2>1. stack' = [stack EXCEPT ![t] = Popped(stack[t])] /\ UNCHANGED pc
    BY <1>3 DEF PopBegin, Popped
  <2>2. stack' \in [Tracers -> Seq(Durations)]
    BY <2>1, PoppedSeq DEF TypeInv, DataOK
  <2>3. LockInv'
    BY <1>1, <2>1, LockKept DEF lock, history
  <2>4. HandsOK'
    BY <1>1, <2>1 DEF TypeInv, HandsOK
  <2> QED
    BY <1>1, <2>1, <2>2, <2>3, <2>4 DEF TypeInv, DataOK, StepsOK, history
<1> QED
  BY <1>2, <1>3

LEMMA AppendType ==
  ASSUME NEW S, NEW s \in Seq(S), NEW e \in S
  PROVE  /\ Append(s, e) \in Seq(S) /\ Len(s) \in Nat /\ Len(Append(s, e)) = Len(s) + 1
         /\ \A k \in 1 .. Len(s) : Append(s, e)[k] = s[k]
         /\ Append(s, e)[Len(s) + 1] = e
BY AppendProperties, LenProperties

LEMMA PushEventType ==
  ASSUME TypeInv, NEW t \in Tracers, PushEvent(t)
  PROVE  TypeInv'
<1>1. /\ pc[t] = "pushEvent" /\ Len(events) < Capacity /\ events' = Append(events, arg[t])
      /\ Goto(t, "pushPrint") /\ UNCHANGED <<started, print, lock, arg, freed, stack, history>>
  BY DEF PushEvent
<1>2. arg[t] \in Durations
  BY <1>1 DEF TypeInv, HandsOK
<1>3. events' \in Seq(Durations) /\ Len(events') <= Capacity
  BY <1>1, <1>2, AppendType, CaptureAssumption DEF TypeInv, DataOK
<1>4. StepsOK' /\ pc'[t] = "pushPrint" /\ \A u \in Tracers \ {t} : pc'[u] = pc[u]
  BY <1>1, GotoType DEF TracerSteps
<1>5. LockInv'
  BY <1>1, LockMoves DEF lock, history, Inside
<1>6. HandsOK'
  BY <1>1, <1>2, <1>4, HandsKept
<1>7. DataOK'
  BY <1>1, <1>3 DEF TypeInv, DataOK, history
<1> QED
  BY <1>4, <1>5, <1>6, <1>7 DEF TypeInv

LEMMA PopEventType ==
  ASSUME TypeInv, NEW t \in Tracers, PopEvent(t)
  PROVE  TypeInv'
<1>1. /\ pc[t] = "popEvent" /\ events # << >> /\ events' = Tail(events)
      /\ arg' = [arg EXCEPT ![t] = Head(events)]
      /\ Goto(t, "popPrint") /\ UNCHANGED <<started, print, lock, freed, stack, history>>
  BY DEF PopEvent, Rest
<1>2. events' \in Seq(Durations) /\ Len(events') <= Capacity /\ Head(events) \in Durations
  <2>1. events \in Seq(Durations) /\ Len(events) <= Capacity
    BY DEF TypeInv, DataOK
  <2>2. Len(events) \in Nat /\ Len(Tail(events)) = Len(events) - 1
        /\ Tail(events) \in Seq(Durations) /\ Head(events) \in Durations
    BY <1>1, <2>1, HeadTailProperties, LenProperties
  <2> QED
    BY <1>1, <2>1, <2>2, CaptureAssumption
<1>3. arg' \in [Tracers -> Args] /\ arg'[t] \in Durations /\ \A u \in Tracers \ {t} : arg'[u] = arg[u]
  BY <1>1, <1>2 DEF TypeInv, DataOK, Args
<1>4. StepsOK' /\ pc'[t] = "popPrint" /\ \A u \in Tracers \ {t} : pc'[u] = pc[u]
  BY <1>1, GotoType DEF TracerSteps
<1>5. LockInv'
  BY <1>1, LockMoves DEF lock, history, Inside
<1>6. HandsOK'
  BY <1>1, <1>3, <1>4, TracersAssumption DEF TypeInv, HandsOK, Named
<1>7. DataOK'
  BY <1>1, <1>2, <1>3 DEF TypeInv, DataOK, history
<1> QED
  BY <1>4, <1>5, <1>6, <1>7 DEF TypeInv

(* An event put on the print queue.                                           *)
LEMMA RecordType ==
  ASSUME TypeInv, NEW e \in PrintEvents, Named(e), Record(e)
  PROVE  /\ print' \in Seq(PrintEvents) /\ Len(print') <= 2 * Capacity
         /\ log' \in Seq(PrintEvents) /\ \A k \in 1 .. Len(print') : Named(print'[k])
<1>1. Len(print) < 2 * Capacity /\ print' = Append(print, e) /\ log' = Append(log, e)
  BY DEF Record
<1>2. print \in Seq(PrintEvents) /\ log \in Seq(PrintEvents) /\ \A k \in 1 .. Len(print) : Named(print[k])
  BY DEF TypeInv, DataOK, HandsOK
<1>3. /\ print' \in Seq(PrintEvents) /\ Len(print) \in Nat /\ Len(print') = Len(print) + 1
      /\ \A k \in 1 .. Len(print) : print'[k] = print[k]
      /\ print'[Len(print) + 1] = e
  BY <1>1, <1>2, AppendType
<1>4. log' \in Seq(PrintEvents)
  BY <1>1, <1>2, AppendType
<1>5. \A k \in 1 .. Len(print') : k \in 1 .. Len(print) \/ k = Len(print) + 1
  BY <1>3
<1>6. \A k \in 1 .. Len(print') : Named(print'[k])
  BY <1>2, <1>3, <1>5
<1> QED
  BY <1>1, <1>3, <1>4, <1>6, CaptureAssumption

LEMMA EventType ==
  /\ \A d \in Durations, t \in Tracers :
       /\ Event(d, "B", t) \in PrintEvents /\ Named(Event(d, "B", t))
       /\ Event(d, "B", t).type = "B" /\ Event(d, "B", t).name = d
  /\ \A d \in Durations \cup {Garbage}, t \in Tracers :
       /\ Event(d, "E", t) \in PrintEvents /\ Named(Event(d, "E", t))
       /\ Event(d, "E", t).type = "E" /\ Event(d, "E", t).name = d
BY DEF Event, PrintEvents, Named

LEMMA PushPrintType ==
  ASSUME TypeInv, NEW t \in Tracers, PushPrint(t)
  PROVE  TypeInv'
<1>1. /\ pc[t] = "pushPrint" /\ Record(Event(arg[t], "B", t)) /\ Unlock(t)
      /\ UNCHANGED <<started, events, arg, freed, stack, captures, written, failed, leaked>>
  BY DEF PushPrint
<1>2. arg[t] \in Durations
  BY <1>1 DEF TypeInv, HandsOK
<1>3. /\ print' \in Seq(PrintEvents) /\ Len(print') <= 2 * Capacity
      /\ log' \in Seq(PrintEvents) /\ \A k \in 1 .. Len(print') : Named(print'[k])
  BY <1>1, <1>2, EventType, RecordType
<1>4. StepsOK' /\ pc'[t] = "idle" /\ \A u \in Tracers \ {t} : pc'[u] = pc[u]
  BY <1>1, GotoType DEF TracerSteps, Unlock
<1>5. LockInv'
  BY <1>1, UnlockUnlocks DEF Inside
<1>6. HandsOK'
  BY <1>1, <1>3, <1>4, TracersAssumption DEF TypeInv, HandsOK, Named
<1>7. DataOK'
  BY <1>1, <1>3 DEF TypeInv, DataOK
<1> QED
  BY <1>4, <1>5, <1>6, <1>7 DEF TypeInv

LEMMA PopPrintType ==
  ASSUME TypeInv, NEW t \in Tracers, PopPrint(t)
  PROVE  TypeInv'
<1>1. /\ pc[t] = "popPrint" /\ Record(Event(NameOf(arg[t]), "E", t)) /\ Unlock(t)
      /\ stack' = [stack EXCEPT ![t] = Popped(stack[t])]
      /\ UNCHANGED <<started, events, arg, freed, captures, written, failed, leaked>>
  BY DEF PopPrint, Popped
<1>2. NameOf(arg[t]) \in Durations \cup {Garbage}
  BY <1>1 DEF TypeInv, HandsOK, NameOf
<1>3. /\ print' \in Seq(PrintEvents) /\ Len(print') <= 2 * Capacity
      /\ log' \in Seq(PrintEvents) /\ \A k \in 1 .. Len(print') : Named(print'[k])
  BY <1>1, <1>2, EventType, RecordType
<1>4. StepsOK' /\ pc'[t] = "idle" /\ \A u \in Tracers \ {t} : pc'[u] = pc[u]
  BY <1>1, GotoType DEF TracerSteps, Unlock
<1>5. LockInv'
  BY <1>1, UnlockUnlocks DEF Inside
<1>6. HandsOK'
  BY <1>1, <1>3, <1>4, TracersAssumption DEF TypeInv, HandsOK, Named
<1>7. stack' \in [Tracers -> Seq(Durations)]
  BY <1>1, PoppedSeq DEF TypeInv, DataOK
<1>8. DataOK'
  BY <1>1, <1>3, <1>7 DEF TypeInv, DataOK
<1> QED
  BY <1>4, <1>5, <1>6, <1>8 DEF TypeInv

(* A step of Main that leaves the mutex and the queues alone.                 *)
LEMMA MainType ==
  ASSUME TypeInv, NEW to \in TracerSteps \cup StopSteps, Goto(Main, to), DataOK', LockInv',
         to \notin {"pushLock", "pushEvent", "pushPrint", "popPrint"},
         \A u \in Tracers \ {Main} : arg'[u] = arg[u],
         \A k \in 1 .. Len(print') : Named(print'[k]),
         to = "stopWrite" => arg'[Main] \in PrintEvents /\ Named(arg'[Main])
  PROVE  TypeInv'
<1>1. StepsOK' /\ pc'[Main] = to /\ \A u \in Tracers \ {Main} : pc'[u] = pc[u]
  BY GotoType, TracersAssumption
<1>2. HandsOK'
  BY <1>1, TracersAssumption DEF TypeInv, HandsOK, Named
<1> QED
  BY <1>1, <1>2 DEF TypeInv

LEMMA CaptureStartType ==
  ASSUME TypeInv, CaptureStart
  PROVE  TypeInv'
<1>1. /\ started' = TRUE /\ captures' = captures + 1 /\ captures < 2 * MaxCaptures
      /\ UNCHANGED <<events, print, lock, pc, arg, freed, stack, log, written, failed, leaked>>
  BY DEF CaptureStart
<1>2. captures' \in 0 .. 2 * MaxCaptures
  BY <1>1, CaptureAssumption DEF TypeInv, DataOK
<1>3. DataOK'
  BY <1>1, <1>2 DEF TypeInv, DataOK
<1>4. LockInv'
  BY <1>1, LockKept DEF lock
<1>5. StepsOK' /\ HandsOK'
  BY <1>1 DEF TypeInv, StepsOK, HandsOK, Named
<1> QED
  BY <1>3, <1>4, <1>5 DEF TypeInv

LEMMA CaptureStopType ==
  ASSUME TypeInv, CaptureStop
  PROVE  TypeInv'
<1>1. /\ captures' = captures + 1 /\ captures % 2 = 1 /\ pc[Main] = "idle" /\ Goto(Main, "stopLock")
      /\ UNCHANGED <<started, events, print, lock, arg, freed, stack, log, written, failed, leaked>>
  BY DEF CaptureStop
<1>2. captures' \in 0 .. 2 * MaxCaptures
  <2>1. captures \in 0 .. 2 * MaxCaptures /\ MaxCaptures \in Nat
    BY CaptureAssumption DEF TypeInv, DataOK
  <2>2. (2 * MaxCaptures) % 2 = 0
    BY <2>1, SMT
  <2>3. captures # 2 * MaxCaptures
    BY <1>1, <2>2
  <2> QED
    BY <1>1, <2>1, <2>3
<1>3. DataOK'
  BY <1>1, <1>2 DEF TypeInv, DataOK
<1>4. LockInv'
  BY <1>1, LockMoves, TracersAssumption, StepNames DEF lock
<1> QED
  BY <1>1, <1>3, <1>4, MainType DEF StopSteps, TypeInv, HandsOK, Named

LEMMA StopOpenType ==
  ASSUME TypeInv, StopOpen
  PROVE  TypeInv'
<1>1. /\ started' = FALSE /\ pc[Main] = "stopOpen" /\ Goto(Main, "stopTake")
      /\ UNCHANGED <<events, print, lock, arg, freed, stack, history>>
  BY DEF StopOpen
<1>2. DataOK'
  BY <1>1 DEF TypeInv, DataOK, history
<1>3. LockInv'
  BY <1>1, LockMoves, TracersAssumption DEF lock, history, Inside
<1> QED
  BY <1>1, <1>2, <1>3, MainType DEF StopSteps, TypeInv, HandsOK, Named

LEMMA StopTakeType ==
  ASSUME TypeInv, StopTake
  PROVE  TypeInv'
<1>1. /\ pc[Main] = "stopTake" /\ print # << >> /\ print' = Tail(print)
      /\ arg' = [arg EXCEPT ![Main] = Head(print)] /\ Goto(Main, "stopWrite")
      /\ UNCHANGED <<started, events, lock, freed, stack, history>>
  BY DEF StopTake
<1>2. print \in Seq(PrintEvents) /\ Len(print) <= 2 * Capacity /\ \A k \in 1 .. Len(print) : Named(print[k])
  BY DEF TypeInv, DataOK, HandsOK
<1>3. /\ Len(print) \in Nat \ {0} /\ Len(print') = Len(print) - 1 /\ print' \in Seq(PrintEvents)
      /\ Head(print) \in PrintEvents /\ Head(print) = print[1]
      /\ \A k \in 1 .. Len(print') : print'[k] = print[k + 1]
  BY <1>1, <1>2, HeadTailProperties, EmptySeq
<1>4. Named(Head(print)) /\ \A k \in 1 .. Len(print') : Named(print'[k])
  BY <1>2, <1>3
<1>5. /\ arg' \in [Tracers -> Args] /\ arg'[Main] = Head(print)
      /\ \A u \in Tracers \ {Main} : arg'[u] = arg[u]
  BY <1>1, <1>3, TracersAssumption DEF TypeInv, DataOK, Args
<1>6. Len(print') <= 2 * Capacity
  BY <1>2, <1>3, CaptureAssumption
<1>7. DataOK'
  BY <1>1, <1>3, <1>5, <1>6 DEF TypeInv, DataOK, history
<1>8. LockInv'
  BY <1>1, LockMoves, TracersAssumption DEF lock, history, Inside
<1> QED
  BY <1>1, <1>3, <1>4, <1>5, <1>7, <1>8, MainType DEF StopSteps

LEMMA StopWriteType ==
  ASSUME TypeInv, StopWrite
  PROVE  TypeInv'
<1>1. /\ pc[Main] = "stopWrite" /\ written' = Append(written, arg[Main])
      /\ freed' = IF arg[Main].type = "B" THEN freed \cup {arg[Main].name} ELSE freed
      /\ Goto(Main, IF Drained(print) THEN "stopEnd" ELSE "stopTake")
      /\ UNCHANGED <<started, events, print, lock, arg, stack, captures, log, failed, leaked>>
  BY DEF StopWrite
<1>2. arg[Main] \in PrintEvents /\ Named(arg[Main])
  BY <1>1 DEF TypeInv, HandsOK
<1>3. written' \in Seq(PrintEvents) /\ freed' \subseteq Durations
  BY <1>1, <1>2, AppendType DEF TypeInv, DataOK, Named
<1>4. DataOK'
  BY <1>1, <1>3 DEF TypeInv, DataOK
<1>5. PICK to \in {"stopEnd", "stopTake"} : Goto(Main, to)
  BY <1>1
<1>6. LockInv'
  BY <1>1, <1>5, LockMoves, TracersAssumption DEF lock, Inside
<1> QED
  BY <1>1, <1>4, <1>5, <1>6, MainType DEF StopSteps, TypeInv, HandsOK, Named

LEMMA StopEndType ==
  ASSUME TypeInv, StopEnd
  PROVE  TypeInv'
<1>1. /\ pc[Main] = "stopEnd" /\ Unlock(Main)
      /\ UNCHANGED <<started, events, print, arg, freed, stack, history>>
  BY DEF StopEnd
<1>2. DataOK'
  BY <1>1 DEF TypeInv, DataOK, history
<1>3. LockInv'
  BY <1>1, UnlockUnlocks, TracersAssumption DEF history, Inside
<1>4. Goto(Main, "idle")
  BY <1>1 DEF Unlock
<1> QED
  BY <1>1, <1>2, <1>3, <1>4, MainType DEF TracerSteps, TypeInv, HandsOK, Named

LEMMA StopFailsType ==
  ASSUME TypeInv, StopFails
  PROVE  TypeInv'
<1>1. /\ leaked' = (leaked \/ pc[Main] = "stopWrite") /\ Goto(Main, "idle")
      /\ UNCHANGED <<started, events, print, lock, arg, freed, stack, captures, log, written>>
  BY DEF StopFails
<1>2. DataOK'
  BY <1>1 DEF TypeInv, DataOK
<1>3. LockInv'
  BY FailKeepsLock
<1> QED
  BY <1>1, <1>2, <1>3, MainType DEF TracerSteps, TypeInv, HandsOK, Named

LEMMA NextType ==
  ASSUME TypeInv, [Next]_vars
  PROVE  TypeInv'
<1>1. ASSUME NEW t \in Tracers, NEW d \in Durations, PushBegin(t, d) PROVE TypeInv'
  BY <1>1, PushBeginType
<1>2. ASSUME NEW t \in Tracers, PushLock(t) \/ PopLock(t) PROVE TypeInv'
  BY <1>2, LockType DEF PushLock, PopLock, Inside, TracerSteps
<1>3. ASSUME StopLock PROVE TypeInv'
  BY <1>3, LockType, TracersAssumption DEF StopLock, Inside, StopSteps
<1>4. ASSUME NEW t \in Tracers,
             PushEvent(t) \/ PushPrint(t) \/ PopBegin(t) \/ PopEvent(t) \/ PopPrint(t)
      PROVE  TypeInv'
  BY <1>4, PushEventType, PushPrintType, PopBeginType, PopEventType, PopPrintType
<1>5. ASSUME CaptureStart \/ CaptureStop \/ StopOpen \/ StopTake \/ StopWrite \/ StopEnd \/ StopFails
      PROVE  TypeInv'
  BY <1>5, CaptureStartType, CaptureStopType, StopOpenType, StopTakeType, StopWriteType,
     StopEndType, StopFailsType
<1>6. ASSUME UNCHANGED vars PROVE TypeInv'
  BY <1>6 DEF vars, lock, history, TypeInv, DataOK, StepsOK, LockInv, HandsOK, Named
<1> QED
  BY <1>1, <1>2, <1>3, <1>4, <1>5, <1>6 DEF Next, Push, Continue

LEMMA InitType == Init => TypeInv
<1> SUFFICES ASSUME Init PROVE TypeInv
  OBVIOUS
<1>1. \A t \in Tracers : pc[t] = "idle"
  BY DEF Init
<1>2. StepsOK
  BY DEF Init, StepsOK, Steps, TracerSteps
<1>3. LockInv
  BY <1>1, TracersAssumption DEF Init, LockInv, Inside
<1>4. HandsOK
  BY <1>1, TracersAssumption DEF Init, HandsOK
<1>5. DataOK
  <2>1. \A S : << >> \in Seq(S) /\ Len(<< >>) = 0
    BY EmptySeq
  <2>2. stack \in [Tracers -> Seq(Durations)]
    BY <2>1 DEF Init
  <2>3. events = << >> /\ print = << >> /\ log = << >> /\ written = << >>
    BY DEF Init
  <2>4. /\ events \in Seq(Durations) /\ Len(events) <= Capacity
        /\ print \in Seq(PrintEvents) /\ Len(print) <= 2 * Capacity
        /\ log \in Seq(PrintEvents) /\ written \in Seq(PrintEvents)
    <3>1. 0 <= Capacity /\ 0 <= 2 * Capacity
      BY CaptureAssumption
    <3> QED
      BY <2>1, <2>3, <3>1
  <2>5. started \in BOOLEAN /\ leaked \in BOOLEAN /\ captures \in 0 .. 2 * MaxCaptures
        /\ freed \subseteq Durations
    <3>1. started = FALSE /\ leaked = FALSE /\ captures = 0 /\ freed = {}
      BY DEF Init
    <3>2. 0 \in 0 .. 2 * MaxCaptures
      BY CaptureAssumption
    <3> QED
      BY <3>1, <3>2
  <2>6. arg \in [Tracers -> Args]
    BY DEF Init, Args
  <2> QED
    BY <2>2, <2>4, <2>5, <2>6 DEF DataOK
<1> QED
  BY <1>2, <1>3, <1>4, <1>5 DEF TypeInv

LEMMA TypingInv == Spec => []TypeInv
<1>1. TypeInv /\ [Next]_vars => TypeInv'
  BY NextType
<1> QED
  BY <1>1, InitType, PTL DEF Spec

(* trace.c 44-98, 108-167: every variable has its type; the mutex is held by  *)
(* one thread, once more for every traceCaptureStop that returned early.      *)
THEOREM Typing == Spec => []TypeOK
<1>1. TypeInv => TypeOK
  BY DEF TypeInv, DataOK, StepsOK, LockInv, TypeOK, Args
<1> QED
  BY <1>1, TypingInv, PTL

-----------------------------------------------------------------------------
(* What is recorded is written. *)

(* What goes to the end of one part goes to the end of the whole.             *)
LEMMA ConcatAppend ==
  ASSUME NEW S, NEW s \in Seq(S), NEW t \in Seq(S), NEW e \in S
  PROVE  s \o Append(t, e) = Append(s \o t, e)
<1>1. <<e>> \in Seq(S) /\ s \o t \in Seq(S)
  BY ConcatProperties
<1>2. Append(t, e) = t \o <<e>> /\ Append(s \o t, e) = (s \o t) \o <<e>>
  BY <1>1, AppendIsConcat
<1> QED
  BY <1>1, <1>2, ConcatAssociative

\* A step that no event takes.
EventsStay ==
  /\ UNCHANGED <<log, written, print, leaked>> /\ Hand' = Hand
  /\ pc'[Main] = "stopEnd" => pc[Main] = "stopEnd"

LEMMA StayLost == ASSUME NothingLost, EventsStay PROVE NothingLost'
BY DEF NothingLost, EventsStay

(* Only traceCaptureStop moves its event on.                                  *)
LEMMA MovesStay ==
  ASSUME TypeInv, NEW t \in Tracers, NEW to, Goto(t, to),
         UNCHANGED <<log, written, print, leaked>>, \A u \in Tracers \ {t} : arg'[u] = arg[u],
         pc[t] # "stopWrite", to \notin {"stopWrite", "stopEnd"}
  PROVE  EventsStay
<1>1. pc' = [pc EXCEPT ![t] = to] /\ pc \in [Tracers -> Steps]
  BY DEF Goto, TypeInv, StepsOK
<1>2. pc'[t] = to /\ \A u \in Tracers \ {t} : pc'[u] = pc[u]
  BY <1>1
<1>3. CASE t = Main
  BY <1>2, <1>3 DEF EventsStay, Hand
<1>4. CASE t # Main
  BY <1>2, <1>4, TracersAssumption DEF EventsStay, Hand
<1> QED
  BY <1>3, <1>4

LEMMA RecordLost ==
  ASSUME TypeInv, NothingLost, NEW t \in Tracers, pc[t] \in Inside, pc[t] # "stopWrite",
         NEW e \in PrintEvents, Record(e), Unlock(t),
         UNCHANGED <<arg, written, leaked>>
  PROVE  NothingLost'
<1>1. pc' = [pc EXCEPT ![t] = "idle"] /\ pc \in [Tracers -> Steps] /\ Main \in Tracers
  BY TracersAssumption DEF Unlock, Goto, TypeInv, StepsOK
<1>2. \A u \in Tracers \ {t} : pc[u] \notin Inside
  BY DEF TypeInv, LockInv
<1>3. pc'[Main] \notin {"stopWrite", "stopEnd"} /\ Hand = << >> /\ Hand' = << >>
  BY <1>1, <1>2 DEF Hand, Inside
<1>4. print' = Append(print, e) /\ log' = Append(log, e)
  BY DEF Record
<1>5. written \in Seq(PrintEvents) /\ print \in Seq(PrintEvents) /\ << >> \in Seq(PrintEvents)
  BY EmptySeq DEF TypeInv, DataOK
<1>6. ASSUME ~leaked PROVE log' = written \o Hand' \o print'
  <2>1. log = (written \o << >>) \o print
    BY <1>3, <1>6 DEF NothingLost
  <2> DEFINE s == written \o << >>
  <2>2. s \in Seq(PrintEvents)
    BY <1>5, ConcatProperties
  <2> HIDE DEF s
  <2>3. s \o Append(print, e) = Append(s \o print, e)
    BY <1>5, <2>2, ConcatAppend
  <2> QED
    BY <1>3, <1>4, <2>1, <2>3 DEF s
<1> QED
  BY <1>3, <1>6 DEF NothingLost

LEMMA StopTakeLost == ASSUME TypeInv, NothingLost, StopTake PROVE NothingLost'
<1>1. /\ pc[Main] = "stopTake" /\ print # << >> /\ print' = Tail(print)
      /\ arg' = [arg EXCEPT ![Main] = Head(print)] /\ pc' = [pc EXCEPT ![Main] = "stopWrite"]
      /\ UNCHANGED <<log, written, leaked>>
  BY DEF StopTake, Goto, history
<1>2. pc'[Main] = "stopWrite" /\ arg'[Main] = Head(print)
  BY <1>1, TracersAssumption DEF TypeInv, DataOK, StepsOK
<1>3. Hand = << >> /\ Hand' = <<Head(print)>>
  BY <1>1, <1>2 DEF Hand
<1>4. written \in Seq(PrintEvents) /\ print \in Seq(PrintEvents)
  BY DEF TypeInv, DataOK
<1> DEFINE h == <<Head(print)>>
<1>5. h \in Seq(PrintEvents) /\ Tail(print) \in Seq(PrintEvents)
  BY <1>1, <1>4, HeadTailProperties
<1>6. print = h \o Tail(print)
  <2>1. Len(print) \in Nat \ {0} /\ 1 \in 1 .. Len(print) /\ Len(print) \in 1 .. Len(print)
    BY <1>1, <1>4, EmptySeq
  <2>2. SubSeq(print, 1, Len(print)) = <<print[1]>> \o SubSeq(print, 2, Len(print))
    BY <1>4, <2>1, SubSeqRecursiveFirst
  <2>3. Tail(print) = SubSeq(print, 2, Len(print)) /\ print = SubSeq(print, 1, Len(print))
    BY <1>1, <1>4, TailIsSubSeq, SubSeqFull
  <2> QED
    BY <1>4, <2>2, <2>3
<1> HIDE DEF h
<1>7. ASSUME ~leaked PROVE log = written \o h \o Tail(print)
  <2>1. log = (written \o << >>) \o print /\ written \o << >> = written
    BY <1>3, <1>4, <1>7, ConcatEmptySeq DEF NothingLost
  <2>2. log = written \o (h \o Tail(print))
    BY <1>6, <2>1
  <2> QED
    BY <1>4, <1>5, <2>2, ConcatAssociative
<1> QED
  BY <1>1, <1>2, <1>3, <1>7 DEF NothingLost, h

LEMMA StopWriteLost == ASSUME TypeInv, NothingLost, StopWrite PROVE NothingLost'
<1>1. /\ pc[Main] = "stopWrite" /\ written' = Append(written, arg[Main])
      /\ pc' = [pc EXCEPT ![Main] = IF Drained(print) THEN "stopEnd" ELSE "stopTake"]
      /\ UNCHANGED <<arg, print, log, leaked>>
  BY DEF StopWrite, Goto
<1>2. /\ pc'[Main] = IF Drained(print) THEN "stopEnd" ELSE "stopTake"
  BY <1>1, TracersAssumption DEF TypeInv, StepsOK
<1>3. Hand = <<arg[Main]>> /\ Hand' = << >>
  BY <1>1, <1>2 DEF Hand
<1>4. written \in Seq(PrintEvents) /\ arg[Main] \in PrintEvents
  BY <1>1 DEF TypeInv, DataOK, HandsOK
<1>5. written' \in Seq(PrintEvents) /\ written' = written \o Hand
  BY <1>1, <1>3, <1>4, AppendProperties, AppendIsConcat
<1>6. written' \o Hand' = written \o Hand
  BY <1>3, <1>5, ConcatEmptySeq
<1> QED
  BY <1>1, <1>2, <1>6 DEF NothingLost, Drained

LEMMA StopFailsLost == ASSUME TypeInv, NothingLost, StopFails PROVE NothingLost'
<1>1. /\ leaked' = (leaked \/ pc[Main] = "stopWrite") /\ Goto(Main, "idle")
      /\ UNCHANGED <<print, arg, log, written>>
  BY DEF StopFails
<1>2. pc'[Main] = "idle"
  BY <1>1, TracersAssumption DEF TypeInv, StepsOK, Goto
<1>3. Hand' = << >>
  BY <1>2 DEF Hand
<1>4. CASE pc[Main] = "stopWrite"
  BY <1>1, <1>2, <1>4 DEF NothingLost
<1>5. CASE pc[Main] # "stopWrite"
  <2>1. Hand = << >> /\ leaked' = leaked
    BY <1>1, <1>5 DEF Hand, TypeInv, DataOK
  <2> QED
    BY <1>1, <1>2, <1>3, <2>1 DEF NothingLost
<1> QED
  BY <1>4, <1>5

LEMMA NextLost ==
  ASSUME TypeInv, NothingLost, [Next]_vars
  PROVE  NothingLost'
<1>1. ASSUME NEW t \in Tracers, NEW d \in Durations, PushBegin(t, d) PROVE EventsStay
  <2>1. CASE started
    <3>1. /\ pc[t] = "idle" /\ Goto(t, "pushLock") /\ arg' = [arg EXCEPT ![t] = d]
          /\ UNCHANGED <<log, written, print, leaked>>
      BY <1>1, <2>1 DEF PushBegin, history
    <3>2. \A u \in Tracers \ {t} : arg'[u] = arg[u]
      BY <3>1 DEF TypeInv, DataOK
    <3> QED
      BY <3>1, <3>2, MovesStay
  <2>2. CASE ~started
    BY <1>1, <2>2 DEF PushBegin, history, EventsStay, Hand
  <2> QED
    BY <2>1, <2>2
<1>2. ASSUME NEW t \in Tracers, PopBegin(t) PROVE EventsStay
  <2>1. CASE started
    <3>1. /\ pc[t] = "idle" /\ Goto(t, "popLock") /\ arg' = arg
          /\ UNCHANGED <<log, written, print, leaked>>
      BY <1>2, <2>1 DEF PopBegin, history
    <3> QED
      BY <3>1, MovesStay
  <2>2. CASE ~started
    BY <1>2, <2>2 DEF PopBegin, history, EventsStay, Hand
  <2> QED
    BY <2>1, <2>2
<1>3. ASSUME NEW t \in Tracers, PushLock(t) \/ PopLock(t) PROVE EventsStay
  BY <1>3, MovesStay DEF PushLock, PopLock, Lock, history
<1>4. ASSUME StopLock PROVE EventsStay
  BY <1>4, MovesStay, TracersAssumption DEF StopLock, Lock, history
<1>5. ASSUME NEW t \in Tracers, PushEvent(t) PROVE EventsStay
  BY <1>5, MovesStay DEF PushEvent, history
<1>6. ASSUME NEW t \in Tracers, PopEvent(t) PROVE EventsStay
  <2>1. \A u \in Tracers \ {t} : arg'[u] = arg[u]
    BY <1>6 DEF PopEvent, TypeInv, DataOK
  <2> QED
    BY <1>6, <2>1, MovesStay DEF PopEvent, history
<1>7. ASSUME NEW t \in Tracers, PushPrint(t) PROVE NothingLost'
  <2>1. arg[t] \in Durations /\ pc[t] = "pushPrint"
    BY <1>7 DEF PushPrint, TypeInv, HandsOK
  <2>2. Event(arg[t], "B", t) \in PrintEvents
    BY <2>1, EventType
  <2> QED
    BY <1>7, <2>1, <2>2, RecordLost DEF PushPrint, Inside
<1>8. ASSUME NEW t \in Tracers, PopPrint(t) PROVE NothingLost'
  <2>1. NameOf(arg[t]) \in Durations \cup {Garbage} /\ pc[t] = "popPrint"
    BY <1>8 DEF PopPrint, TypeInv, HandsOK, NameOf
  <2>2. Event(NameOf(arg[t]), "E", t) \in PrintEvents
    BY <2>1, EventType
  <2> QED
    BY <1>8, <2>1, <2>2, RecordLost DEF PopPrint, Inside
<1>9. ASSUME CaptureStart PROVE EventsStay
  BY <1>9 DEF CaptureStart, EventsStay, Hand
<1>10. ASSUME CaptureStop PROVE EventsStay
  BY <1>10, MovesStay, TracersAssumption DEF CaptureStop
<1>11. ASSUME StopOpen PROVE EventsStay
  BY <1>11, MovesStay, TracersAssumption DEF StopOpen, history
<1>12. ASSUME StopEnd PROVE EventsStay
  BY <1>12, MovesStay, TracersAssumption DEF StopEnd, Unlock, history
<1>13. ASSUME UNCHANGED vars PROVE EventsStay
  BY <1>13 DEF vars, history, EventsStay, Hand
<1> QED
  BY <1>1, <1>2, <1>3, <1>4, <1>5, <1>6, <1>7, <1>8, <1>9, <1>10, <1>11, <1>12, <1>13,
     StayLost, StopTakeLost, StopWriteLost, StopFailsLost DEF Next, Push, Continue

(* trace.c 64-98, 139-167: the event that a thread puts on the print queue    *)
(* goes to the file, in the order of recording, or is still in the queue or   *)
(* in the hands of traceCaptureStop, unless one of its writes failed.         *)
THEOREM AllWritten == Spec => []NothingLost
<1>1. ASSUME Init PROVE NothingLost
  <2>1. << >> \o << >> = << >>
    BY EmptySeq, ConcatEmptySeq
  <2>2. pc[Main] = "idle" /\ log = << >> /\ written = << >> /\ print = << >>
    BY <1>1, TracersAssumption DEF Init
  <2>3. Hand = << >>
    BY <2>2 DEF Hand
  <2>4. log = (written \o Hand) \o print
    BY <2>1, <2>2, <2>3, Zenon
  <2> QED
    BY <2>2, <2>4 DEF NothingLost
<1>2. NothingLost /\ TypeInv /\ [Next]_vars => NothingLost'
  BY NextLost
<1> QED
  BY <1>1, <1>2, TypingInv, PTL DEF Spec

-----------------------------------------------------------------------------
(* Durations begin and end once. *)

PushSteps == {"pushLock", "pushEvent", "pushPrint"}
PopSteps  == {"popLock", "popEvent", "popPrint"}

\* The places of the open durations.
Places == {p \in Tracers \X Nat : 1 <= p[2] /\ p[2] <= Len(stack[p[1]])}
NameAt(p) == stack[p[1]][p[2]]
Top(t) == stack[t][Len(stack[t])]

Ended == {log[k].name : k \in {j \in 1 .. Len(log) : log[j].type = "E"}}

\* Between traceDurationPush and the begin event, a name is in one stack, at its
\* top, and nowhere else.
StackInv ==
  /\ \A p, q \in Places : NameAt(p) = NameAt(q) => p = q
  /\ \A t \in Tracers : pc[t] \in PushSteps \cup PopSteps => stack[t] # << >>
  /\ \A t \in Tracers : pc[t] \in PushSteps => arg[t] = Top(t) /\ arg[t] \notin Begun

\* From there on it has begun; until its end event it is once in the event queue,
\* or in the hands of one pop, and is not freed.
DurationInv ==
  /\ Ended \cup freed \subseteq Begun
  /\ \A j, k \in 1 .. Len(events) : events[j] = events[k] => j = k
  /\ \A k \in 1 .. Len(events) :
       /\ events[k] \in Begun \/ \E t \in Tracers : pc[t] = "pushPrint" /\ arg[t] = events[k]
       /\ events[k] \notin Ended \cup freed
  /\ \A t \in Tracers : pc[t] = "popPrint" =>
       /\ arg[t] \in Begun \ (Ended \cup freed)
       /\ \A k \in 1 .. Len(events) : events[k] # arg[t]
  /\ \A k \in 1 .. Len(print) : print[k].type = "B" => print[k].name \in Begun
  /\ pc[Main] = "stopWrite" /\ arg[Main].type = "B" => arg[Main].name \in Begun

Coming == {t \in Tracers : pc[t] \in {"pushLock", "pushEvent"}}
Going  == {t \in Tracers : pc[t] = "popPrint"}

\* While a capture runs, the open durations are as many as the events queued, with
\* those that are about to be and without those a pop has in hand; while none
\* does, nothing is queued.  A capture ends when nothing is open.
QuietInv ==
  /\ IsFiniteSet(Places) /\ IsFiniteSet(Coming) /\ IsFiniteSet(Going)
  /\ pc[Main] \in StopSteps =>
       \A t \in Tracers : stack[t] = << >> /\ (t # Main => pc[t] = "idle")
  /\ ~started => events = << >> /\ \A t \in Tracers : pc[t] \notin PushSteps \cup PopSteps
  /\ started =>
       Cardinality(Places) = Len(events) + Cardinality(Coming) + Cardinality(Going)

OrderlyInv == StackInv /\ DurationInv /\ QuietInv

LEMMA PushPopNames ==
  /\ PushSteps \cap Inside = {"pushEvent", "pushPrint"}
  /\ PushSteps \cap PopSteps = {} /\ StopSteps \cap (PushSteps \cup PopSteps) = {}
  /\ "idle" \notin PushSteps \cup PopSteps \cup StopSteps
BY DEF PushSteps, PopSteps, StopSteps, Inside

LEMMA StackType ==
  ASSUME TypeInv, NEW t \in Tracers
  PROVE  /\ stack[t] \in Seq(Durations) /\ Len(stack[t]) \in Nat
         /\ stack[t] # << >> <=> Len(stack[t]) >= 1
<1>1. stack[t] \in Seq(Durations)
  BY DEF TypeInv, DataOK
<1> QED
  BY <1>1, EmptySeq, LenProperties

LEMMA TopPlace ==
  ASSUME TypeInv, NEW t \in Tracers, stack[t] # << >>
  PROVE  <<t, Len(stack[t])>> \in Places /\ NameAt(<<t, Len(stack[t])>>) = Top(t)
BY StackType DEF Places, NameAt, Top

LEMMA PlaceType ==
  ASSUME TypeInv, NEW p \in Places
  PROVE  /\ p = <<p[1], p[2]>> /\ p[1] \in Tracers /\ p[2] \in Nat
         /\ p[2] \in 1 .. Len(stack[p[1]]) /\ NameAt(p) \in Open
<1>1. p = <<p[1], p[2]>> /\ p[1] \in Tracers /\ p[2] \in Nat
      /\ 1 <= p[2] /\ p[2] <= Len(stack[p[1]])
  BY DEF Places
<1>2. p[2] \in 1 .. Len(stack[p[1]])
  BY <1>1, StackType
<1> QED
  BY <1>1, <1>2 DEF Open, NameAt

LEMMA SamePlaces ==
  ASSUME stack' = stack
  PROVE  /\ Places' = Places /\ \A p : NameAt(p)' = NameAt(p)
         /\ \A t : Top(t)' = Top(t)
BY DEF Places, NameAt, Top

LEMMA SameNames == ASSUME log' = log PROVE Begun' = Begun /\ Ended' = Ended
BY DEF Begun, Ended

(* The names in the log are those of its events.                              *)
LEMMA BegunIs ==
  ASSUME NEW d
  PROVE  /\ d \in Begun <=> \E k \in 1 .. Len(log) : log[k].type = "B" /\ log[k].name = d
         /\ d \in Ended <=> \E k \in 1 .. Len(log) : log[k].type = "E" /\ log[k].name = d
BY DEF Begun, Ended

LEMMA BegunIsNext ==
  ASSUME NEW d
  PROVE  /\ d \in Begun' <=> \E k \in 1 .. Len(log') : log'[k].type = "B" /\ log'[k].name = d
         /\ d \in Ended' <=> \E k \in 1 .. Len(log') : log'[k].type = "E" /\ log'[k].name = d
BY DEF Begun, Ended

LEMMA RecordNames ==
  ASSUME TypeInv, NEW e \in PrintEvents, Record(e)
  PROVE  /\ e.type = "B" => Begun' = Begun \cup {e.name} /\ Ended' = Ended
         /\ e.type = "E" => Begun' = Begun /\ Ended' = Ended \cup {e.name}
         /\ Len(log) \in Nat /\ Len(log') = Len(log) + 1 /\ log'[Len(log) + 1] = e
         /\ \A k \in 1 .. Len(log) : log'[k] = log[k]
<1> DEFINE n == Len(log)  type == e.type  name == e.name
<1>1. n \in Nat /\ Len(log') = n + 1 /\ log'[n + 1] = e /\ \A k \in 1 .. n : log'[k] = log[k]
  BY AppendType DEF Record, TypeInv, DataOK
<1>2. 1 .. Len(log') = 1 .. n \cup {n + 1}
  BY <1>1
<1>3. log'[n + 1].type = type /\ log'[n + 1].name = name
  BY <1>1
<1> HIDE DEF n, type, name
<1>4. \A d : /\ d \in Begun' <=> d \in Begun \/ (type = "B" /\ d = name)
             /\ d \in Ended' <=> d \in Ended \/ (type = "E" /\ d = name)
  <2> TAKE d
  <2>1. /\ d \in Begun <=> \E k \in 1 .. n : log[k].type = "B" /\ log[k].name = d
        /\ d \in Begun' <=> \E k \in 1 .. Len(log') : log'[k].type = "B" /\ log'[k].name = d
    BY BegunIs, BegunIsNext DEF n
  <2>2. /\ d \in Ended <=> \E k \in 1 .. n : log[k].type = "E" /\ log[k].name = d
        /\ d \in Ended' <=> \E k \in 1 .. Len(log') : log'[k].type = "E" /\ log'[k].name = d
    BY BegunIs, BegunIsNext DEF n
  <2>3. d \in Begun' <=> d \in Begun \/ (type = "B" /\ d = name)
    BY <1>1, <1>2, <1>3, <2>1
  <2>4. d \in Ended' <=> d \in Ended \/ (type = "E" /\ d = name)
    BY <1>1, <1>2, <1>3, <2>2
  <2> QED
    BY <2>3, <2>4
<1>5. ASSUME type = "B" PROVE Begun' = Begun \cup {name} /\ Ended' = Ended
  BY <1>4, <1>5
<1>6. ASSUME type = "E" PROVE Begun' = Begun /\ Ended' = Ended \cup {name}
  BY <1>4, <1>6
<1> QED
  BY <1>1, <1>5, <1>6 DEF n, type, name

-----------------------------------------------------------------------------
(* Steps that leave the stacks and the log alone. *)

LEMMA MoveStack ==
  ASSUME TypeInv, StackInv, NEW t \in Tracers, NEW to, Goto(t, to),
         UNCHANGED <<stack, log>>, arg'[t] = arg[t] \/ to \notin PushSteps,
         \A u \in Tracers \ {t} : arg'[u] = arg[u],
         to \in PushSteps => pc[t] \in PushSteps,
         to \in PopSteps => stack[t] # << >>
  PROVE  StackInv'
<1>1. /\ Places' = Places /\ (\A p : NameAt(p)' = NameAt(p)) /\ (\A u : Top(u)' = Top(u))
      /\ Begun' = Begun
  BY SamePlaces, SameNames
<1>2. pc'[t] = to /\ \A u \in Tracers \ {t} : pc'[u] = pc[u]
  BY DEF Goto, TypeInv, StepsOK
<1>3. \A p, q \in Places' : NameAt(p)' = NameAt(q)' => p = q
  BY <1>1 DEF StackInv
<1>4. \A u \in Tracers : pc'[u] \in PushSteps \cup PopSteps => stack'[u] # << >>
  BY <1>2 DEF StackInv
<1>5. \A u \in Tracers : pc'[u] \in PushSteps => arg'[u] = Top(u)' /\ arg'[u] \notin Begun'
  BY <1>1, <1>2 DEF StackInv
<1> QED
  BY <1>3, <1>4, <1>5 DEF StackInv

LEMMA MoveDuration ==
  ASSUME TypeInv, DurationInv, NEW t \in Tracers, NEW to, Goto(t, to),
         UNCHANGED <<log, events, print, freed>>,
         \A u \in Tracers : pc[u] # "idle" => arg'[u] = arg[u],
         pc[t] # "pushPrint", to \notin {"popPrint", "stopWrite"}
  PROVE  DurationInv'
<1>1. Begun' = Begun /\ Ended' = Ended
  BY SameNames
<1>2. pc'[t] = to /\ \A u \in Tracers \ {t} : pc'[u] = pc[u]
  BY DEF Goto, TypeInv, StepsOK
<1>3. \A k \in 1 .. Len(events) :
        \/ events[k] \in Begun'
        \/ \E u \in Tracers : pc'[u] = "pushPrint" /\ arg'[u] = events[k]
  BY <1>1, <1>2 DEF DurationInv
<1>4. \A u \in Tracers : pc'[u] = "popPrint" => pc[u] = "popPrint" /\ arg'[u] = arg[u]
  BY <1>2
<1>5. pc'[Main] = "stopWrite" => pc[Main] = "stopWrite" /\ arg'[Main] = arg[Main]
  BY <1>2, TracersAssumption
<1> QED
  BY <1>1, <1>3, <1>4, <1>5 DEF DurationInv

LEMMA QuietKept ==
  ASSUME QuietInv, UNCHANGED <<started, events, stack>>, Coming' = Coming, Going' = Going,
         pc'[Main] \in StopSteps =>
           pc[Main] \in StopSteps /\ \A u \in Tracers \ {Main} : pc'[u] = pc[u],
         ~started => \A u \in Tracers : pc'[u] \notin PushSteps \cup PopSteps
  PROVE  QuietInv'
<1>1. Places' = Places
  BY SamePlaces
<1> QED
  BY <1>1 DEF QuietInv

LEMMA MoveQuiet ==
  ASSUME TypeInv, QuietInv, NEW t \in Tracers, NEW to, Goto(t, to),
         UNCHANGED <<started, events, stack>>,
         to \in {"pushLock", "pushEvent"} <=> pc[t] \in {"pushLock", "pushEvent"},
         to # "popPrint", pc[t] # "popPrint",
         to \in StopSteps => t = Main /\ pc[t] \in StopSteps,
         t # Main => pc[Main] \notin StopSteps,
         to \in PushSteps \cup PopSteps => started \/ pc[t] \in PushSteps \cup PopSteps
  PROVE  QuietInv'
<1>1. pc'[t] = to /\ \A u \in Tracers \ {t} : pc'[u] = pc[u]
  BY DEF Goto, TypeInv, StepsOK
<1>2. Coming' = Coming /\ Going' = Going
  BY <1>1 DEF Coming, Going
<1>3. pc'[Main] \in StopSteps => pc[Main] \in StopSteps /\ t = Main
  BY <1>1, TracersAssumption
<1>4. ~started => \A u \in Tracers : pc'[u] \notin PushSteps \cup PopSteps
  BY <1>1 DEF QuietInv
<1> QED
  BY <1>1, <1>2, <1>3, <1>4, QuietKept

-----------------------------------------------------------------------------
(* The steps of traceDurationPush and traceDurationPop. *)

LEMMA Movers ==
  ASSUME TypeInv, NEW t \in Tracers, NEW to, Goto(t, to)
  PROVE  /\ pc'[t] = to /\ \A u \in Tracers \ {t} : pc'[u] = pc[u]
         /\ Coming' = (Coming \ {t}) \cup (IF to \in {"pushLock", "pushEvent"} THEN {t} ELSE {})
         /\ Going' = (Going \ {t}) \cup (IF to = "popPrint" THEN {t} ELSE {})
<1>1. pc'[t] = to /\ \A u \in Tracers \ {t} : pc'[u] = pc[u]
  BY DEF Goto, TypeInv, StepsOK
<1>2. Coming' = (Coming \ {t}) \cup (IF to \in {"pushLock", "pushEvent"} THEN {t} ELSE {})
  BY <1>1 DEF Coming
<1>3. Going' = (Going \ {t}) \cup (IF to = "popPrint" THEN {t} ELSE {})
  BY <1>1 DEF Going
<1> QED
  BY <1>1, <1>2, <1>3

(* A stack that grows. *)
LEMMA GrowPlaces ==
  ASSUME TypeInv, NEW t \in Tracers, NEW d \in Durations,
         stack' = [stack EXCEPT ![t] = Append(@, d)]
  PROVE  /\ <<t, Len(stack[t]) + 1>> \notin Places
         /\ Places' = Places \cup {<<t, Len(stack[t]) + 1>>}
         /\ \A p \in Places' : NameAt(p)' = IF p \in Places THEN NameAt(p) ELSE d
         /\ stack'[t] # << >> /\ Top(t)' = d /\ \A u \in Tracers \ {t} : stack'[u] = stack[u]
<1>1. /\ stack'[t] = Append(stack[t], d) /\ \A u \in Tracers \ {t} : stack'[u] = stack[u]
      /\ stack[t] \in Seq(Durations)
  BY DEF TypeInv, DataOK
<1> DEFINE n == Len(stack[t])
<1>2. /\ n \in Nat /\ Len(stack'[t]) = n + 1 /\ stack'[t][n + 1] = d
      /\ \A k \in 1 .. n : stack'[t][k] = stack[t][k]
      /\ stack'[t] # << >>
  BY <1>1, AppendProperties, LenProperties
<1>3. <<t, n + 1>> \notin Places
  BY <1>2 DEF Places
<1>4. <<t, n + 1>> \in Places'
  BY <1>2 DEF Places
<1>5. \A p \in Places : p \in Places' /\ NameAt(p)' = NameAt(p)
  <2> TAKE p \in Places
  <2>1. p = <<p[1], p[2]>> /\ p[1] \in Tracers /\ p[2] \in Nat /\ p[2] \in 1 .. Len(stack[p[1]])
    BY PlaceType
  <2>2. CASE p[1] = t
    BY <1>2, <2>1, <2>2 DEF Places, NameAt
  <2>3. CASE p[1] # t
    BY <1>1, <2>1, <2>3 DEF Places, NameAt
  <2> QED
    BY <2>2, <2>3
<1>6. \A p \in Places' : p \in Places \/ p = <<t, n + 1>>
  <2> TAKE p \in Places'
  <2>1. p = <<p[1], p[2]>> /\ p[1] \in Tracers /\ p[2] \in Nat /\ 1 <= p[2] /\ p[2] <= Len(stack'[p[1]])
    BY DEF Places
  <2>2. CASE p[1] = t
    <3>1. p[2] <= n \/ p[2] = n + 1
      BY <1>2, <2>1, <2>2
    <3> QED
      BY <2>1, <2>2, <3>1 DEF Places
  <2>3. CASE p[1] # t
    BY <1>1, <2>1, <2>3 DEF Places
  <2> QED
    BY <2>2, <2>3
<1>7. (\A p : p = <<t, n + 1>> => NameAt(p)' = d) /\ Top(t)' = d
  BY <1>2 DEF NameAt, Top
<1> HIDE DEF n
<1>8. Places' = Places \cup {<<t, n + 1>>}
  BY <1>4, <1>5, <1>6
<1>9. \A p \in Places' : NameAt(p)' = IF p \in Places THEN NameAt(p) ELSE d
  BY <1>5, <1>6, <1>7
<1> QED
  BY <1>1, <1>2, <1>3, <1>7, <1>8, <1>9 DEF n

(* A stack that loses its top. *)
LEMMA ShrinkPlaces ==
  ASSUME TypeInv, NEW t \in Tracers, stack[t] # << >>,
         stack' = [stack EXCEPT ![t] = Popped(stack[t])]
  PROVE  /\ <<t, Len(stack[t])>> \in Places
         /\ Places' = Places \ {<<t, Len(stack[t])>>}
         /\ \A p \in Places' : NameAt(p)' = NameAt(p)
         /\ \A u \in Tracers \ {t} : stack'[u] = stack[u]
<1>1. /\ stack'[t] = Popped(stack[t]) /\ \A u \in Tracers \ {t} : stack'[u] = stack[u]
      /\ stack[t] \in Seq(Durations)
  BY DEF TypeInv, DataOK
<1> DEFINE n == Len(stack[t])
<1>2. /\ n \in Nat \ {0} /\ Len(stack'[t]) = n - 1
      /\ \A k \in 1 .. n - 1 : stack'[t][k] = stack[t][k]
  BY <1>1, PoppedSeq
<1>3. <<t, n>> \in Places /\ <<t, n>> \notin Places'
  BY <1>2 DEF Places
<1>4. \A p \in Places' : p \in Places /\ NameAt(p)' = NameAt(p)
  <2> TAKE p \in Places'
  <2>1. p = <<p[1], p[2]>> /\ p[1] \in Tracers /\ p[2] \in Nat /\ 1 <= p[2] /\ p[2] <= Len(stack'[p[1]])
    BY DEF Places
  <2>2. CASE p[1] = t
    <3>1. p[2] \in 1 .. n - 1 /\ p[2] <= n
      BY <1>2, <2>1, <2>2
    <3> QED
      BY <1>2, <2>1, <2>2, <3>1 DEF Places, NameAt
  <2>3. CASE p[1] # t
    BY <1>1, <2>1, <2>3 DEF Places, NameAt
  <2> QED
    BY <2>2, <2>3
<1>5. \A p \in Places : p \in Places' \/ p = <<t, n>>
  <2> TAKE p \in Places
  <2>1. p = <<p[1], p[2]>> /\ p[1] \in Tracers /\ p[2] \in Nat /\ 1 <= p[2] /\ p[2] <= Len(stack[p[1]])
    BY DEF Places
  <2>2. CASE p[1] = t
    <3>1. p[2] <= n - 1 \/ p[2] = n
      BY <1>2, <2>1, <2>2
    <3> QED
      BY <1>2, <2>1, <2>2, <3>1 DEF Places
  <2>3. CASE p[1] # t
    BY <1>1, <2>1, <2>3 DEF Places
  <2> QED
    BY <2>2, <2>3
<1> HIDE DEF n
<1>6. Places' = Places \ {<<t, n>>}
  BY <1>3, <1>4, <1>5
<1> QED
  BY <1>1, <1>3, <1>4, <1>6 DEF n

(* Nothing happens around a traceCaptureStop. *)
LEMMA StopQuiet ==
  ASSUME TypeInv, QuietInv, pc[Main] \in StopSteps
  PROVE  /\ events = << >>
         /\ \A t \in Tracers : stack[t] = << >> /\ (t # Main => pc[t] = "idle")
         /\ \A t \in Tracers : pc[t] \notin PushSteps \cup PopSteps
<1>1. \A t \in Tracers : stack[t] = << >> /\ (t # Main => pc[t] = "idle")
  BY DEF QuietInv
<1>2. \A t \in Tracers : pc[t] \notin PushSteps \cup PopSteps
  BY <1>1, PushPopNames
<1>3. CASE started
  <2>1. Places = {} /\ Coming = {} /\ Going = {}
    <3>1. Coming = {} /\ Going = {}
      BY <1>2 DEF Coming, Going, PushSteps, PopSteps
    <3>2. Places = {}
      <4> SUFFICES ASSUME NEW p \in Places PROVE FALSE
        OBVIOUS
      <4> QED
        BY <1>1, PlaceType, StackType
    <3> QED
      BY <3>1, <3>2
  <2>2. Len(events) = 0
    <3>1. Cardinality({}) = 0
      BY FS_EmptySet
    <3>2. 0 = Len(events) + 0 + 0 /\ Len(events) \in Nat
      BY <1>3, <2>1, <3>1, LenProperties DEF QuietInv, TypeInv, DataOK
    <3> QED
      BY <3>2
  <2> QED
    BY <1>1, <1>2, <2>2, EmptySeq DEF TypeInv, DataOK
<1>4. CASE ~started
  BY <1>1, <1>2, <1>4 DEF QuietInv
<1> QED
  BY <1>3, <1>4

(* Who has the mutex has it alone. *)
LEMMA Alone ==
  ASSUME TypeInv, NEW t \in Tracers, pc[t] \in Inside
  PROVE  \A u \in Tracers \ {t} : pc[u] \notin Inside
BY DEF TypeInv, LockInv

LEMMA PushBeginOrderly ==
  ASSUME Orderly, TypeInv, OrderlyInv, NEW t \in Tracers, NEW d \in Durations, PushBegin(t, d)
  PROVE  OrderlyInv'
<1>1. /\ pc[t] = "idle" /\ d \notin Begun \cup Open /\ pc[Main] \notin StopSteps
      /\ stack' = [stack EXCEPT ![t] = Append(@, d)]
      /\ UNCHANGED <<started, events, print, freed, log>>
  BY DEF PushBegin, history
<1>2. Begun' = Begun /\ Ended' = Ended
  BY <1>1, SameNames
<1> DEFINE place == <<t, Len(stack[t]) + 1>>
<1>3. /\ place \notin Places /\ Places' = Places \cup {place}
      /\ \A p \in Places' : NameAt(p)' = IF p \in Places THEN NameAt(p) ELSE d
      /\ stack'[t] # << >> /\ Top(t)' = d /\ \A u \in Tracers \ {t} : stack'[u] = stack[u]
  BY <1>1, GrowPlaces
<1> HIDE DEF place
<1>4. \A u \in Tracers \ {t} : Top(u)' = Top(u)
  BY <1>3 DEF Top
<1>5. \A p, q \in Places' : NameAt(p)' = NameAt(q)' => p = q
  <2>1. \A p \in Places : NameAt(p) # d
    BY <1>1, PlaceType
  <2>2. \A p, q \in Places : NameAt(p) = NameAt(q) => p = q
    BY DEF OrderlyInv, StackInv
  <2> QED
    BY <1>3, <2>1, <2>2
<1>6. IsFiniteSet(Places') /\ Cardinality(Places') = Cardinality(Places) + 1
      /\ Cardinality(Places) \in Nat
  BY <1>3, FS_AddElement, FS_CardinalityType DEF OrderlyInv, QuietInv
<1>7. CASE started
  <2>1. arg' = [arg EXCEPT ![t] = d] /\ Goto(t, "pushLock")
    BY <1>7 DEF PushBegin
  <2>2. arg'[t] = d /\ \A u \in Tracers \ {t} : arg'[u] = arg[u]
    BY <2>1 DEF TypeInv, DataOK
  <2>3. /\ pc'[t] = "pushLock" /\ \A u \in Tracers \ {t} : pc'[u] = pc[u]
        /\ Coming' = Coming \cup {t} /\ Going' = Going
    BY <1>1, <2>1, Movers DEF Coming, Going
  <2>4. StackInv'
    <3>1. \A u \in Tracers : pc'[u] \in PushSteps \cup PopSteps => stack'[u] # << >>
      BY <1>3, <2>3 DEF OrderlyInv, StackInv
    <3>2. \A u \in Tracers : pc'[u] \in PushSteps => arg'[u] = Top(u)' /\ arg'[u] \notin Begun'
      BY <1>1, <1>2, <1>3, <1>4, <2>2, <2>3 DEF OrderlyInv, StackInv
    <3> QED
      BY <1>5, <3>1, <3>2 DEF StackInv
  <2>5. DurationInv'
    BY <1>1, <2>1, <2>2, MoveDuration DEF OrderlyInv
  <2>6. t \notin Coming
    BY <1>1 DEF Coming
  <2>7. /\ IsFiniteSet(Coming') /\ Cardinality(Coming') = Cardinality(Coming) + 1
        /\ Cardinality(Coming) \in Nat
    BY <2>3, <2>6, FS_AddElement, FS_CardinalityType DEF OrderlyInv, QuietInv
  <2>8. IsFiniteSet(Going') /\ Cardinality(Going') = Cardinality(Going) /\ Cardinality(Going) \in Nat
    BY <2>3, FS_CardinalityType DEF OrderlyInv, QuietInv
  <2>9. pc'[Main] \notin StopSteps
    BY <1>1, <2>3, TracersAssumption DEF StopSteps
  <2>10. Cardinality(Places) = Len(events) + Cardinality(Coming) + Cardinality(Going)
         /\ Len(events) \in Nat
    BY <1>7, LenProperties DEF OrderlyInv, QuietInv, TypeInv, DataOK
  <2>11. Cardinality(Places') = Len(events') + Cardinality(Coming') + Cardinality(Going')
    BY <1>1, <1>6, <2>7, <2>8, <2>10
  <2>12. started'
    BY <1>1, <1>7
  <2>13. QuietInv'
    BY <1>6, <2>7, <2>8, <2>9, <2>11, <2>12 DEF QuietInv
  <2> QED
    BY <2>4, <2>5, <2>13 DEF OrderlyInv
<1>8. CASE ~started
  <2>1. arg' = arg /\ pc' = pc
    BY <1>8 DEF PushBegin
  <2>2. StackInv'
    <3>1. \A u \in Tracers : pc'[u] \in PushSteps \cup PopSteps => stack'[u] # << >>
      BY <1>3, <2>1 DEF OrderlyInv, StackInv
    <3>2. \A u \in Tracers : pc'[u] \in PushSteps => arg'[u] = Top(u)' /\ arg'[u] \notin Begun'
      BY <1>1, <1>2, <1>4, <2>1, PushPopNames DEF OrderlyInv, StackInv
    <3> QED
      BY <1>5, <3>1, <3>2 DEF StackInv
  <2>3. DurationInv'
    BY <1>1, <1>2, <2>1 DEF OrderlyInv, DurationInv
  <2>4. Coming' = Coming /\ Going' = Going
    BY <2>1 DEF Coming, Going
  <2>5. QuietInv'
    BY <1>1, <1>6, <1>8, <2>1, <2>4 DEF OrderlyInv, QuietInv
  <2> QED
    BY <2>2, <2>3, <2>5 DEF OrderlyInv
<1> QED
  BY <1>7, <1>8

LEMMA PushEventOrderly ==
  ASSUME TypeInv, OrderlyInv, NEW t \in Tracers, PushEvent(t)
  PROVE  OrderlyInv'
<1>1. /\ pc[t] = "pushEvent" /\ events' = Append(events, arg[t]) /\ Goto(t, "pushPrint")
      /\ UNCHANGED <<started, print, arg, freed, stack, log>>
  BY DEF PushEvent, history
<1>2. Begun' = Begun /\ Ended' = Ended
  BY <1>1, SameNames
<1>3. /\ pc'[t] = "pushPrint" /\ \A u \in Tracers \ {t} : pc'[u] = pc[u]
      /\ Coming' = Coming \ {t} /\ Going' = Going
  BY <1>1, Movers DEF Coming, Going
<1>4. StackInv'
  BY <1>1, MoveStack, PushPopNames DEF OrderlyInv, PushSteps, PopSteps
<1> DEFINE n == Len(events)
<1>5. /\ events \in Seq(Durations) /\ arg[t] \in Durations
  BY <1>1 DEF TypeInv, DataOK, HandsOK
<1>6. /\ n \in Nat /\ Len(events') = n + 1 /\ events'[n + 1] = arg[t]
      /\ \A k \in 1 .. n : events'[k] = events[k]
  BY <1>1, <1>5, AppendType
<1>7. 1 .. Len(events') = 1 .. n \cup {n + 1} /\ n + 1 \notin 1 .. n
  BY <1>6
<1> HIDE DEF n
<1>8. arg[t] \notin Begun /\ arg[t] \notin Ended \cup freed
  BY <1>1 DEF OrderlyInv, StackInv, DurationInv, PushSteps
<1>9. \A u \in Tracers : pc[u] # "pushPrint" /\ pc[u] # "popPrint"
  BY <1>1, Alone DEF Inside
<1>10. \A k \in 1 .. n : events[k] \in Begun /\ events[k] \notin Ended \cup freed
  BY <1>9 DEF OrderlyInv, DurationInv, n
<1>11. \A j, k \in 1 .. Len(events') : events'[j] = events'[k] => j = k
  <2>1. \A j, k \in 1 .. n : events[j] = events[k] => j = k
    BY DEF OrderlyInv, DurationInv, n
  <2> QED
    BY <1>6, <1>7, <1>8, <1>10, <2>1
<1>12. \A k \in 1 .. Len(events') :
         /\ events'[k] \in Begun' \/ \E u \in Tracers : pc'[u] = "pushPrint" /\ arg'[u] = events'[k]
         /\ events'[k] \notin Ended' \cup freed'
  BY <1>1, <1>2, <1>3, <1>6, <1>7, <1>8, <1>10
<1>13. \A u \in Tracers : pc'[u] # "popPrint"
  BY <1>3, <1>9
<1>14. pc'[Main] = "stopWrite" => pc[Main] = "stopWrite"
  BY <1>3, TracersAssumption
<1>15. DurationInv'
  BY <1>1, <1>2, <1>11, <1>12, <1>13, <1>14 DEF OrderlyInv, DurationInv
<1>16. Places' = Places
  BY <1>1, SamePlaces
<1>17. /\ IsFiniteSet(Coming') /\ Cardinality(Coming') = Cardinality(Coming) - 1
       /\ Cardinality(Coming) \in Nat /\ Cardinality(Going) \in Nat
  <2>1. t \in Coming
    BY <1>1 DEF Coming
  <2>2. IsFiniteSet(Coming) /\ IsFiniteSet(Going)
    BY DEF OrderlyInv, QuietInv
  <2> QED
    BY <1>3, <2>1, <2>2, FS_RemoveElement, FS_CardinalityType
<1>18. /\ started /\ pc'[Main] \notin StopSteps
  <2>1. pc[t] \in PushSteps
    BY <1>1 DEF PushSteps
  <2>2. pc[Main] \notin StopSteps
    BY <2>1, StopQuiet DEF OrderlyInv
  <2> QED
    BY <1>3, <2>1, <2>2, TracersAssumption DEF OrderlyInv, QuietInv, StopSteps
<1>19. Cardinality(Places') = Len(events') + Cardinality(Coming') + Cardinality(Going')
  <2>1. Cardinality(Places) = n + Cardinality(Coming) + Cardinality(Going)
    BY <1>18 DEF OrderlyInv, QuietInv, n
  <2> QED
    BY <1>3, <1>6, <1>16, <1>17, <2>1
<1>20. QuietInv'
  <2>1. IsFiniteSet(Places') /\ IsFiniteSet(Going') /\ started'
    BY <1>1, <1>3, <1>16, <1>18 DEF OrderlyInv, QuietInv
  <2> QED
    BY <1>17, <1>18, <1>19, <2>1 DEF QuietInv
<1> QED
  BY <1>4, <1>15, <1>20 DEF OrderlyInv

LEMMA PushPrintOrderly ==
  ASSUME TypeInv, OrderlyInv, NEW t \in Tracers, PushPrint(t)
  PROVE  OrderlyInv'
<1> DEFINE d == arg[t]
<1>1. /\ pc[t] = "pushPrint" /\ Record(Event(d, "B", t)) /\ Goto(t, "idle")
      /\ UNCHANGED <<started, events, arg, freed, stack>>
  BY DEF PushPrint, Unlock
<1>2. d \in Durations
  BY <1>1 DEF TypeInv, HandsOK
<1>3. /\ Begun' = Begun \cup {d} /\ Ended' = Ended
  BY <1>1, <1>2, EventType, RecordNames
<1>4. /\ pc'[t] = "idle" /\ \A u \in Tracers \ {t} : pc'[u] = pc[u]
      /\ Coming' = Coming /\ Going' = Going
  BY <1>1, Movers DEF Coming, Going
<1>5. \A u \in Tracers \ {t} : pc[u] \notin Inside
  BY <1>1, Alone DEF Inside
<1>6. Places' = Places /\ (\A p : NameAt(p)' = NameAt(p)) /\ \A u : Top(u)' = Top(u)
  BY <1>1, SamePlaces
<1>7. d = Top(t) /\ stack[t] # << >> /\ d \notin Begun
  BY <1>1 DEF OrderlyInv, StackInv, PushSteps
<1>8. \A u \in Tracers \ {t} : stack[u] # << >> => Top(u) # d
  <2> SUFFICES ASSUME NEW u \in Tracers \ {t}, stack[u] # << >>, Top(u) = d PROVE FALSE
    OBVIOUS
  <2>1. /\ <<t, Len(stack[t])>> \in Places /\ NameAt(<<t, Len(stack[t])>>) = d
        /\ <<u, Len(stack[u])>> \in Places /\ NameAt(<<u, Len(stack[u])>>) = d
    BY <1>7, TopPlace
  <2>2. <<t, Len(stack[t])>> = <<u, Len(stack[u])>>
    BY <2>1 DEF OrderlyInv, StackInv
  <2> QED
    BY <2>2
<1> HIDE DEF d
<1>9. StackInv'
  <2>1. \A p, q \in Places' : NameAt(p)' = NameAt(q)' => p = q
    BY <1>6 DEF OrderlyInv, StackInv
  <2>2. \A u \in Tracers : pc'[u] \in PushSteps \cup PopSteps => stack'[u] # << >>
    BY <1>1, <1>4, PushPopNames DEF OrderlyInv, StackInv
  <2>3. \A u \in Tracers : pc'[u] \in PushSteps => u # t /\ pc[u] \in PushSteps
    BY <1>4, PushPopNames
  <2>4. \A u \in Tracers : pc'[u] \in PushSteps => arg'[u] = Top(u)' /\ arg'[u] \notin Begun'
    BY <1>1, <1>3, <1>6, <1>8, <2>3 DEF OrderlyInv, StackInv
  <2> QED
    BY <2>1, <2>2, <2>4 DEF StackInv
<1>10. /\ print \in Seq(PrintEvents) /\ print' = Append(print, Event(d, "B", t))
       /\ Event(d, "B", t) \in PrintEvents /\ Event(d, "B", t).name = d
  BY <1>1, <1>2, EventType DEF Record, TypeInv, DataOK
<1>11. \A k \in 1 .. Len(print') : print'[k].type = "B" => print'[k].name \in Begun'
  <2>1. \A k \in 1 .. Len(print) : print[k].type = "B" => print[k].name \in Begun
    BY DEF OrderlyInv, DurationInv
  <2>2. /\ Len(print) \in Nat /\ Len(print') = Len(print) + 1
        /\ print'[Len(print) + 1] = Event(d, "B", t)
        /\ \A k \in 1 .. Len(print) : print'[k] = print[k]
    BY <1>10, AppendType
  <2>3. \A k \in 1 .. Len(print') : k \in 1 .. Len(print) \/ k = Len(print) + 1
    BY <2>2
  <2> QED
    BY <1>3, <1>10, <2>1, <2>2, <2>3
<1>12. \A k \in 1 .. Len(events') :
         events'[k] \in Begun' /\ events'[k] \notin Ended' \cup freed'
  <2>1. \A u \in Tracers : pc[u] = "pushPrint" => u = t
    BY <1>5 DEF Inside
  <2> QED
    BY <1>1, <1>3, <2>1 DEF OrderlyInv, DurationInv, d
<1>13. \A u \in Tracers : pc'[u] # "popPrint"
  BY <1>4, <1>5 DEF Inside
<1>14. pc'[Main] = "stopWrite" => pc[Main] = "stopWrite"
  BY <1>4, TracersAssumption
<1>15. DurationInv'
  <2>1. Ended' \cup freed' \subseteq Begun'
    BY <1>1, <1>3 DEF OrderlyInv, DurationInv
  <2>2. \A j, k \in 1 .. Len(events') : events'[j] = events'[k] => j = k
    BY <1>1 DEF OrderlyInv, DurationInv
  <2>3. pc'[Main] = "stopWrite" /\ arg'[Main].type = "B" => arg'[Main].name \in Begun'
    BY <1>1, <1>3, <1>14 DEF OrderlyInv, DurationInv
  <2> QED
    BY <1>11, <1>12, <1>13, <2>1, <2>2, <2>3 DEF DurationInv
<1>16. pc[t] \in PushSteps /\ pc'[t] \notin StopSteps
  BY <1>1, <1>4 DEF PushSteps, StopSteps
<1>17. pc[Main] \notin StopSteps /\ started
  BY <1>16, StopQuiet DEF OrderlyInv, QuietInv
<1>18. pc'[Main] \notin StopSteps
  BY <1>4, <1>16, <1>17, TracersAssumption
<1>19. QuietInv'
  BY <1>1, <1>4, <1>17, <1>18, QuietKept DEF OrderlyInv
<1> QED
  BY <1>9, <1>15, <1>19 DEF OrderlyInv

LEMMA PopBeginOrderly ==
  ASSUME TypeInv, OrderlyInv, NEW t \in Tracers, PopBegin(t)
  PROVE  OrderlyInv'
<1>1. /\ pc[t] = "idle" /\ stack[t] # << >>
      /\ UNCHANGED <<started, events, print, arg, freed, log>>
  BY DEF PopBegin, history
<1>2. pc[Main] \notin StopSteps
  BY <1>1, StopQuiet DEF OrderlyInv
<1>3. CASE started
  <2>1. Goto(t, "popLock") /\ UNCHANGED stack
    BY <1>3 DEF PopBegin
  <2>2. StackInv'
    BY <1>1, <2>1, MoveStack, PushPopNames DEF OrderlyInv, PushSteps
  <2>3. DurationInv'
    BY <1>1, <2>1, MoveDuration DEF OrderlyInv
  <2>4. QuietInv'
    BY <1>1, <1>2, <1>3, <2>1, MoveQuiet DEF OrderlyInv, StopSteps
  <2> QED
    BY <2>2, <2>3, <2>4 DEF OrderlyInv
<1>4. CASE ~started
  <2>1. stack' = [stack EXCEPT ![t] = Popped(stack[t])] /\ pc' = pc
    BY <1>4 DEF PopBegin, Popped
  <2>2. /\ Places' = Places \ {<<t, Len(stack[t])>>}
        /\ \A p \in Places' : NameAt(p)' = NameAt(p)
    BY <1>1, <2>1, ShrinkPlaces
  <2>3. \A u \in Tracers : pc'[u] \notin PushSteps \cup PopSteps
    BY <1>4, <2>1 DEF OrderlyInv, QuietInv
  <2>4. StackInv'
    BY <2>2, <2>3 DEF OrderlyInv, StackInv
  <2>5. Begun' = Begun /\ Ended' = Ended
    BY <1>1, SameNames
  <2>6. DurationInv'
    BY <1>1, <2>1, <2>5 DEF OrderlyInv, DurationInv
  <2>7. Coming' = Coming /\ Going' = Going
    BY <2>1 DEF Coming, Going
  <2>8. IsFiniteSet(Places')
    BY <2>2, FS_Subset DEF OrderlyInv, QuietInv
  <2>9. QuietInv'
    BY <1>1, <1>2, <1>4, <2>1, <2>3, <2>7, <2>8 DEF OrderlyInv, QuietInv
  <2> QED
    BY <2>4, <2>6, <2>9 DEF OrderlyInv
<1> QED
  BY <1>3, <1>4

LEMMA PopEventOrderly ==
  ASSUME TypeInv, OrderlyInv, NEW t \in Tracers, PopEvent(t)
  PROVE  OrderlyInv'
<1>1. /\ pc[t] = "popEvent" /\ events # << >> /\ events' = Tail(events)
      /\ arg' = [arg EXCEPT ![t] = Head(events)] /\ Goto(t, "popPrint")
      /\ UNCHANGED <<started, print, freed, stack, log>>
  BY DEF PopEvent, Rest, history
<1>2. Begun' = Begun /\ Ended' = Ended
  BY <1>1, SameNames
<1>3. /\ pc'[t] = "popPrint" /\ \A u \in Tracers \ {t} : pc'[u] = pc[u]
      /\ Coming' = Coming /\ Going' = Going \cup {t}
  BY <1>1, Movers DEF Coming, Going
<1>4. arg'[t] = Head(events) /\ \A u \in Tracers \ {t} : arg'[u] = arg[u]
  BY <1>1 DEF TypeInv, DataOK
<1>5. \A u \in Tracers : pc[u] # "pushPrint" /\ pc[u] # "popPrint"
  BY <1>1, Alone DEF Inside
<1>6. pc[t] \in PopSteps /\ stack[t] # << >>
  BY <1>1 DEF OrderlyInv, StackInv, PopSteps
<1>7. StackInv'
  BY <1>1, <1>4, <1>6, MoveStack DEF OrderlyInv, PushSteps
<1> DEFINE n == Len(events)
<1>8. /\ n \in Nat \ {0} /\ Len(events') = n - 1 /\ Head(events) = events[1]
      /\ \A k \in 1 .. Len(events') : events'[k] = events[k + 1]
  BY <1>1, HeadTailProperties, EmptySeq DEF TypeInv, DataOK
<1>9. \A k \in 1 .. n : events[k] \in Begun /\ events[k] \notin Ended \cup freed
  BY <1>5 DEF OrderlyInv, DurationInv
<1>10. \A j, k \in 1 .. n : events[j] = events[k] => j = k
  BY DEF OrderlyInv, DurationInv
<1> HIDE DEF n
<1>11. 1 \in 1 .. n /\ \A k \in 1 .. Len(events') : k + 1 \in 1 .. n /\ k + 1 # 1
  BY <1>8
<1>12. DurationInv'
  <2>1. \A j, k \in 1 .. Len(events') : events'[j] = events'[k] => j = k
    BY <1>8, <1>10, <1>11
  <2>2. \A k \in 1 .. Len(events') : events'[k] \in Begun' /\ events'[k] \notin Ended' \cup freed'
    BY <1>1, <1>2, <1>8, <1>9, <1>11
  <2>3. \A k \in 1 .. Len(events') : events'[k] # Head(events)
    BY <1>8, <1>10, <1>11
  <2>4. Head(events) \in Begun' \ (Ended' \cup freed')
    BY <1>1, <1>2, <1>8, <1>9, <1>11
  <2>5. \A u \in Tracers : pc'[u] = "popPrint" => u = t
    BY <1>3, <1>5
  <2>6. pc'[Main] = "stopWrite" => pc[Main] = "stopWrite" /\ arg'[Main] = arg[Main]
    BY <1>3, <1>4, TracersAssumption
  <2>7. \A u \in Tracers : pc'[u] = "popPrint" =>
          /\ arg'[u] \in Begun' \ (Ended' \cup freed')
          /\ \A k \in 1 .. Len(events') : events'[k] # arg'[u]
    BY <1>4, <2>3, <2>4, <2>5
  <2>8. Ended' \cup freed' \subseteq Begun'
    BY <1>1, <1>2 DEF OrderlyInv, DurationInv
  <2>9. \A k \in 1 .. Len(print') : print'[k].type = "B" => print'[k].name \in Begun'
    BY <1>1, <1>2 DEF OrderlyInv, DurationInv
  <2>10. pc'[Main] = "stopWrite" /\ arg'[Main].type = "B" => arg'[Main].name \in Begun'
    BY <1>2, <2>6 DEF OrderlyInv, DurationInv
  <2> QED
    BY <2>1, <2>2, <2>7, <2>8, <2>9, <2>10 DEF DurationInv
<1>13. Places' = Places
  BY <1>1, SamePlaces
<1>14. /\ IsFiniteSet(Going') /\ Cardinality(Going') = Cardinality(Going) + 1
       /\ Cardinality(Coming) \in Nat /\ Cardinality(Going) \in Nat
  <2>1. t \notin Going
    BY <1>1 DEF Going
  <2>2. IsFiniteSet(Coming) /\ IsFiniteSet(Going)
    BY DEF OrderlyInv, QuietInv
  <2> QED
    BY <1>3, <2>1, <2>2, FS_AddElement, FS_CardinalityType
<1>15. started /\ pc[Main] \notin StopSteps
  BY <1>6, StopQuiet DEF OrderlyInv, QuietInv
<1>16. pc'[Main] \notin StopSteps
  BY <1>3, <1>15, TracersAssumption DEF StopSteps
<1>17. QuietInv'
  <2>1. Cardinality(Places) = n + Cardinality(Coming) + Cardinality(Going)
    BY <1>15 DEF OrderlyInv, QuietInv, n
  <2>2. Cardinality(Places') = Len(events') + Cardinality(Coming') + Cardinality(Going')
    BY <1>3, <1>8, <1>13, <1>14, <2>1
  <2>3. IsFiniteSet(Places') /\ IsFiniteSet(Coming') /\ started'
    BY <1>1, <1>3, <1>13, <1>15 DEF OrderlyInv, QuietInv
  <2> QED
    BY <1>14, <1>16, <2>2, <2>3 DEF QuietInv
<1> QED
  BY <1>7, <1>12, <1>17 DEF OrderlyInv

(* The end of a duration is recorded by its name.                             *)
LEMMA PopPrintNames ==
  ASSUME TypeInv, DurationInv, NEW t \in Tracers, PopPrint(t)
  PROVE  /\ Record(Event(arg[t], "E", t)) /\ arg[t] \in Durations
         /\ arg[t] \in Begun \ (Ended \cup freed)
         /\ Begun' = Begun /\ Ended' = Ended \cup {arg[t]}
<1>1. pc[t] = "popPrint" /\ Record(Event(NameOf(arg[t]), "E", t))
  BY DEF PopPrint
<1>2. arg[t] \in Durations
  BY <1>1 DEF TypeInv, HandsOK
<1>3. arg[t] \in Begun \ (Ended \cup freed)
  BY <1>1 DEF DurationInv
<1>4. Record(Event(arg[t], "E", t))
  BY <1>1, <1>3 DEF NameOf
<1>5. Begun' = Begun /\ Ended' = Ended \cup {arg[t]}
  BY <1>2, <1>4, EventType, RecordNames
<1> QED
  BY <1>2, <1>3, <1>4, <1>5

LEMMA PopPrintOrderly ==
  ASSUME TypeInv, OrderlyInv, NEW t \in Tracers, PopPrint(t)
  PROVE  OrderlyInv'
<1> DEFINE d == arg[t]
<1>1. /\ pc[t] = "popPrint" /\ Goto(t, "idle") /\ UNCHANGED <<started, events, arg, freed>>
      /\ stack' = [stack EXCEPT ![t] = Popped(stack[t])]
  BY DEF PopPrint, Unlock, Popped
<1>2. /\ Record(Event(d, "E", t)) /\ d \in Durations /\ d \in Begun \ (Ended \cup freed)
      /\ Begun' = Begun /\ Ended' = Ended \cup {d}
  BY PopPrintNames DEF OrderlyInv
<1>3. /\ pc'[t] = "idle" /\ \A u \in Tracers \ {t} : pc'[u] = pc[u]
      /\ Coming' = Coming /\ Going' = Going \ {t}
  BY <1>1, Movers DEF Coming, Going
<1>4. \A u \in Tracers \ {t} : pc[u] \notin Inside
  BY <1>1, Alone DEF Inside
<1>5. pc[t] \in PopSteps /\ stack[t] # << >>
  BY <1>1 DEF OrderlyInv, StackInv, PopSteps
<1>6. /\ <<t, Len(stack[t])>> \in Places /\ Places' = Places \ {<<t, Len(stack[t])>>}
      /\ \A p \in Places' : NameAt(p)' = NameAt(p)
      /\ \A u \in Tracers \ {t} : stack'[u] = stack[u]
  BY <1>1, <1>5, ShrinkPlaces
<1>7. \A u \in Tracers \ {t} : Top(u)' = Top(u)
  BY <1>6 DEF Top
<1>8. \A k \in 1 .. Len(events) : events[k] # d
  BY <1>1 DEF OrderlyInv, DurationInv
<1> HIDE DEF d
<1>9. StackInv'
  <2>1. \A p, q \in Places' : NameAt(p)' = NameAt(q)' => p = q
    BY <1>6 DEF OrderlyInv, StackInv
  <2>2. \A u \in Tracers : pc'[u] \in PushSteps \cup PopSteps => u # t /\ pc[u] = pc'[u]
    BY <1>3, PushPopNames
  <2>3. \A u \in Tracers : pc'[u] \in PushSteps \cup PopSteps => stack'[u] # << >>
    BY <1>6, <2>2 DEF OrderlyInv, StackInv
  <2>4. \A u \in Tracers : pc'[u] \in PushSteps => arg'[u] = Top(u)' /\ arg'[u] \notin Begun'
    BY <1>1, <1>2, <1>7, <2>2 DEF OrderlyInv, StackInv
  <2> QED
    BY <2>1, <2>3, <2>4 DEF StackInv
<1>10. /\ print \in Seq(PrintEvents) /\ print' = Append(print, Event(d, "E", t))
       /\ Event(d, "E", t) \in PrintEvents /\ Event(d, "E", t).type = "E"
  BY <1>2, EventType DEF Record, TypeInv, DataOK
<1>11. \A k \in 1 .. Len(print') : print'[k].type = "B" => print'[k].name \in Begun'
  <2>1. \A k \in 1 .. Len(print) : print[k].type = "B" => print[k].name \in Begun
    BY DEF OrderlyInv, DurationInv
  <2>2. /\ Len(print) \in Nat /\ Len(print') = Len(print) + 1
        /\ print'[Len(print) + 1] = Event(d, "E", t)
        /\ \A k \in 1 .. Len(print) : print'[k] = print[k]
    BY <1>10, AppendType
  <2>3. \A k \in 1 .. Len(print') : k \in 1 .. Len(print) \/ k = Len(print) + 1
    BY <2>2
  <2> QED
    BY <1>2, <1>10, <2>1, <2>2, <2>3
<1>12. \A k \in 1 .. Len(events') : events'[k] \in Begun' /\ events'[k] \notin Ended' \cup freed'
  <2>1. \A u \in Tracers : pc[u] # "pushPrint"
    BY <1>1, <1>4 DEF Inside
  <2> QED
    BY <1>1, <1>2, <1>8, <2>1 DEF OrderlyInv, DurationInv
<1>13. \A u \in Tracers : pc'[u] # "popPrint"
  BY <1>3, <1>4 DEF Inside
<1>14. pc'[Main] = "stopWrite" => pc[Main] = "stopWrite"
  BY <1>3, TracersAssumption
<1>15. DurationInv'
  <2>1. Ended' \cup freed' \subseteq Begun'
    BY <1>1, <1>2 DEF OrderlyInv, DurationInv
  <2>2. \A j, k \in 1 .. Len(events') : events'[j] = events'[k] => j = k
    BY <1>1 DEF OrderlyInv, DurationInv
  <2>3. pc'[Main] = "stopWrite" /\ arg'[Main].type = "B" => arg'[Main].name \in Begun'
    BY <1>1, <1>2, <1>14 DEF OrderlyInv, DurationInv
  <2> QED
    BY <1>11, <1>12, <1>13, <2>1, <2>2, <2>3 DEF DurationInv
<1>16. /\ IsFiniteSet(Places') /\ Cardinality(Places') = Cardinality(Places) - 1
       /\ Cardinality(Places) \in Nat
  <2>1. IsFiniteSet(Places)
    BY DEF OrderlyInv, QuietInv
  <2> QED
    BY <1>6, <2>1, FS_RemoveElement, FS_CardinalityType
<1>17. /\ IsFiniteSet(Going') /\ Cardinality(Going') = Cardinality(Going) - 1
       /\ Cardinality(Going) \in Nat /\ Cardinality(Coming) \in Nat
  <2>1. t \in Going
    BY <1>1 DEF Going
  <2>2. IsFiniteSet(Coming) /\ IsFiniteSet(Going)
    BY DEF OrderlyInv, QuietInv
  <2> QED
    BY <1>3, <2>1, <2>2, FS_RemoveElement, FS_CardinalityType
<1>18. started /\ pc[Main] \notin StopSteps
  BY <1>5, StopQuiet DEF OrderlyInv, QuietInv
<1>19. pc'[Main] \notin StopSteps
  BY <1>3, <1>18, TracersAssumption DEF StopSteps
<1>20. QuietInv'
  <2>1. /\ Cardinality(Places) = Len(events) + Cardinality(Coming) + Cardinality(Going)
        /\ Len(events) \in Nat
    BY <1>18, LenProperties DEF OrderlyInv, QuietInv, TypeInv, DataOK
  <2>2. Cardinality(Places') = Len(events') + Cardinality(Coming') + Cardinality(Going')
    BY <1>1, <1>3, <1>16, <1>17, <2>1
  <2>3. IsFiniteSet(Coming') /\ started'
    BY <1>1, <1>3, <1>18 DEF OrderlyInv, QuietInv
  <2> QED
    BY <1>16, <1>17, <1>19, <2>2, <2>3 DEF QuietInv
<1> QED
  BY <1>9, <1>15, <1>20 DEF OrderlyInv

-----------------------------------------------------------------------------
(* The steps of traceCaptureStart and traceCaptureStop, and the waiting. *)

LEMMA LockOrderly ==
  ASSUME TypeInv, OrderlyInv, NEW t \in Tracers,
         PushLock(t) \/ PopLock(t) \/ (t = Main /\ StopLock)
  PROVE  OrderlyInv'
<1>1. PICK from \in {"pushLock", "popLock", "stopLock"}, to \in {"pushEvent", "popEvent", "stopOpen"} :
        /\ Lock(t, from, to) /\ (from = "pushLock" <=> to = "pushEvent")
        /\ (from = "popLock" <=> to = "popEvent") /\ (from = "stopLock" => t = Main)
  BY DEF PushLock, PopLock, StopLock
<1>2. pc[t] = from /\ Goto(t, to) /\ UNCHANGED <<started, events, print, arg, freed, stack, log>>
  BY <1>1 DEF Lock, history
<1>3. /\ to \in PushSteps <=> from \in PushSteps
      /\ to \in PopSteps <=> from \in PopSteps
      /\ to \in StopSteps <=> from \in StopSteps
      /\ from \in PushSteps \cup PopSteps \/ from = "stopLock"
  BY <1>1 DEF PushSteps, PopSteps, StopSteps
<1>4. StackInv'
  BY <1>2, <1>3, MoveStack DEF OrderlyInv, StackInv
<1>5. DurationInv'
  BY <1>2, MoveDuration DEF OrderlyInv
<1>6. t # Main => pc[Main] \notin StopSteps
  BY <1>1, <1>2, <1>3, StopQuiet DEF OrderlyInv
<1>7. /\ to \in {"pushLock", "pushEvent"} <=> pc[t] \in {"pushLock", "pushEvent"}
      /\ to # "popPrint" /\ pc[t] # "popPrint"
  BY <1>1, <1>2
<1>8. to \in StopSteps => t = Main /\ pc[t] \in StopSteps
  BY <1>1, <1>2, <1>3, PushPopNames
<1>9. to \in PushSteps \cup PopSteps => pc[t] \in PushSteps \cup PopSteps
  BY <1>2, <1>3
<1>10. QuietInv'
  BY <1>2, <1>6, <1>7, <1>8, <1>9, MoveQuiet DEF OrderlyInv
<1> QED
  BY <1>4, <1>5, <1>10 DEF OrderlyInv

LEMMA CaptureStartOrderly ==
  ASSUME Orderly, TypeInv, OrderlyInv, CaptureStart
  PROVE  OrderlyInv'
<1>1. /\ Quiet /\ pc[Main] = "idle" /\ started'
      /\ UNCHANGED <<events, print, pc, arg, freed, stack, log>>
  BY DEF CaptureStart
<1>2. /\ Begun' = Begun /\ Ended' = Ended /\ Places' = Places
      /\ (\A p : NameAt(p)' = NameAt(p)) /\ \A u : Top(u)' = Top(u)
  BY <1>1, SameNames, SamePlaces
<1>3. Coming' = Coming /\ Going' = Going
  BY <1>1 DEF Coming, Going
<1>4. StackInv' /\ DurationInv'
  <2>1. StackInv'
    BY <1>1, <1>2 DEF OrderlyInv, StackInv
  <2>2. DurationInv'
    BY <1>1, <1>2 DEF OrderlyInv, DurationInv
  <2> QED
    BY <2>1, <2>2
<1>5. CASE started
  BY <1>1, <1>2, <1>3, <1>4, <1>5 DEF OrderlyInv, QuietInv
<1>6. CASE ~started
  <2>1. events = << >>
    BY <1>6 DEF OrderlyInv, QuietInv
  <2>2. Coming = {} /\ Going = {}
    BY <1>1 DEF Quiet, Coming, Going
  <2>3. Places = {}
    <3> SUFFICES ASSUME NEW p \in Places PROVE FALSE
      OBVIOUS
    <3> QED
      BY <1>1, PlaceType, StackType DEF Quiet
  <2>4. Len(events) = 0 /\ Cardinality({}) = 0
    BY <2>1, FS_EmptySet, EmptySeq DEF TypeInv, DataOK
  <2>5. Cardinality(Places') = Len(events') + Cardinality(Coming') + Cardinality(Going')
    BY <1>1, <1>2, <1>3, <2>2, <2>3, <2>4
  <2>6. QuietInv'
    BY <1>1, <1>2, <1>3, <2>5 DEF OrderlyInv, QuietInv, StopSteps
  <2> QED
    BY <1>4, <2>6 DEF OrderlyInv
<1> QED
  BY <1>5, <1>6

LEMMA CaptureStopOrderly ==
  ASSUME Orderly, TypeInv, OrderlyInv, CaptureStop
  PROVE  OrderlyInv'
<1>1. /\ Quiet /\ pc[Main] = "idle" /\ Goto(Main, "stopLock") /\ Main \in Tracers
      /\ UNCHANGED <<started, events, print, arg, freed, stack, log>>
  BY TracersAssumption DEF CaptureStop
<1>2. /\ pc'[Main] = "stopLock" /\ \A u \in Tracers \ {Main} : pc'[u] = pc[u]
      /\ Coming' = Coming /\ Going' = Going
  BY <1>1, Movers DEF Coming, Going
<1>3. StackInv'
  BY <1>1, MoveStack DEF OrderlyInv, PushSteps, PopSteps
<1>4. DurationInv'
  BY <1>1, MoveDuration DEF OrderlyInv
<1>5. Places' = Places
  BY <1>1, SamePlaces
<1>6. \A t \in Tracers : stack'[t] = << >> /\ (t # Main => pc'[t] = "idle")
  BY <1>1, <1>2 DEF Quiet
<1>7. \A t \in Tracers : pc'[t] \notin PushSteps \cup PopSteps
  BY <1>2, <1>6, PushPopNames DEF PushSteps, PopSteps
<1>8. QuietInv'
  BY <1>1, <1>2, <1>5, <1>6, <1>7 DEF OrderlyInv, QuietInv
<1> QED
  BY <1>3, <1>4, <1>8 DEF OrderlyInv

LEMMA StopOpenOrderly ==
  ASSUME TypeInv, OrderlyInv, StopOpen
  PROVE  OrderlyInv'
<1>1. /\ pc[Main] = "stopOpen" /\ ~started' /\ Goto(Main, "stopTake") /\ Main \in Tracers
      /\ UNCHANGED <<events, print, arg, freed, stack, log>>
  BY TracersAssumption DEF StopOpen, history
<1>2. /\ pc'[Main] = "stopTake" /\ \A u \in Tracers \ {Main} : pc'[u] = pc[u]
      /\ Coming' = Coming /\ Going' = Going
  BY <1>1, Movers DEF Coming, Going
<1>3. StackInv'
  BY <1>1, MoveStack DEF OrderlyInv, PushSteps, PopSteps
<1>4. DurationInv'
  BY <1>1, MoveDuration DEF OrderlyInv
<1>5. Places' = Places
  BY <1>1, SamePlaces
<1>6. /\ events = << >> /\ \A t \in Tracers : stack[t] = << >> /\ (t # Main => pc[t] = "idle")
      /\ \A t \in Tracers : pc[t] \notin PushSteps \cup PopSteps
  BY <1>1, StopQuiet DEF OrderlyInv, StopSteps
<1>7. \A t \in Tracers : pc'[t] \notin PushSteps \cup PopSteps
  BY <1>2, <1>6 DEF PushSteps, PopSteps
<1>8. QuietInv'
  BY <1>1, <1>2, <1>5, <1>6, <1>7 DEF OrderlyInv, QuietInv
<1> QED
  BY <1>3, <1>4, <1>8 DEF OrderlyInv

(* While the events are written, nothing is queued and nothing is popped.     *)
LEMMA WritesOrderly ==
  ASSUME TypeInv, OrderlyInv, pc[Main] \in StopSteps,
         NEW to \in StopSteps \cup {"idle"}, Goto(Main, to),
         UNCHANGED <<started, events, stack, log>>, \A u \in Tracers \ {Main} : arg'[u] = arg[u],
         freed' \subseteq Begun,
         \A k \in 1 .. Len(print') : print'[k].type = "B" => print'[k].name \in Begun,
         to = "stopWrite" /\ arg'[Main].type = "B" => arg'[Main].name \in Begun
  PROVE  OrderlyInv'
<1>1. Main \in Tracers /\ to \notin PushSteps \cup PopSteps
  BY TracersAssumption, PushPopNames
<1>2. Begun' = Begun /\ Ended' = Ended
  BY SameNames
<1>3. StackInv'
  BY <1>1, MoveStack DEF OrderlyInv
<1>4. pc'[Main] = to /\ \A u \in Tracers \ {Main} : pc'[u] = pc[u]
  BY <1>1, Movers
<1>5. events = << >> /\ \A t \in Tracers : pc[t] \notin PushSteps \cup PopSteps
  BY StopQuiet DEF OrderlyInv
<1>6. \A t \in Tracers : pc'[t] # "popPrint"
  BY <1>1, <1>4, <1>5 DEF PopSteps
<1>7. DurationInv'
  <2>1. \A k \in 1 .. Len(events') : FALSE
    BY <1>5, EmptySeq
  <2>2. Ended' \cup freed' \subseteq Begun'
    BY <1>2 DEF OrderlyInv, DurationInv
  <2>3. pc'[Main] = "stopWrite" /\ arg'[Main].type = "B" => arg'[Main].name \in Begun'
    BY <1>2, <1>4
  <2> QED
    BY <1>2, <1>6, <2>1, <2>2, <2>3 DEF DurationInv
<1>8. QuietInv'
  <2>1. to \notin {"pushLock", "pushEvent", "popPrint"} /\ pc[Main] \notin {"pushLock", "pushEvent", "popPrint"}
    BY <1>1, <1>5 DEF PushSteps, PopSteps
  <2> QED
    BY <1>1, <2>1, MoveQuiet DEF OrderlyInv
<1> QED
  BY <1>3, <1>7, <1>8 DEF OrderlyInv

LEMMA StopTakeOrderly ==
  ASSUME TypeInv, OrderlyInv, StopTake
  PROVE  OrderlyInv'
<1>1. /\ pc[Main] = "stopTake" /\ print # << >> /\ print' = Tail(print)
      /\ arg' = [arg EXCEPT ![Main] = Head(print)] /\ Goto(Main, "stopWrite")
      /\ UNCHANGED <<started, events, freed, stack, log>>
  BY DEF StopTake, history
<1>2. print \in Seq(PrintEvents)
  BY DEF TypeInv, DataOK
<1>3. /\ Len(print) \in Nat \ {0} /\ Len(print') = Len(print) - 1 /\ Head(print) = print[1]
      /\ \A k \in 1 .. Len(print') : print'[k] = print[k + 1]
  BY <1>1, <1>2, HeadTailProperties, EmptySeq
<1>4. arg'[Main] = Head(print) /\ \A u \in Tracers \ {Main} : arg'[u] = arg[u]
  BY <1>1, TracersAssumption DEF TypeInv, DataOK
<1>5. \A k \in 1 .. Len(print) : print[k].type = "B" => print[k].name \in Begun
  BY DEF OrderlyInv, DurationInv
<1>6. 1 \in 1 .. Len(print) /\ \A k \in 1 .. Len(print') : k + 1 \in 1 .. Len(print)
  BY <1>3
<1>7. \A k \in 1 .. Len(print') : print'[k].type = "B" => print'[k].name \in Begun
  BY <1>3, <1>5, <1>6
<1>8. arg'[Main].type = "B" => arg'[Main].name \in Begun
  BY <1>3, <1>4, <1>5, <1>6
<1>9. freed' \subseteq Begun
  BY <1>1 DEF OrderlyInv, DurationInv
<1> QED
  BY <1>1, <1>4, <1>7, <1>8, <1>9, WritesOrderly DEF StopSteps

LEMMA StopWriteOrderly ==
  ASSUME TypeInv, OrderlyInv, StopWrite
  PROVE  OrderlyInv'
<1>1. /\ pc[Main] = "stopWrite"
      /\ freed' = IF arg[Main].type = "B" THEN freed \cup {arg[Main].name} ELSE freed
      /\ Goto(Main, IF Drained(print) THEN "stopEnd" ELSE "stopTake")
      /\ UNCHANGED <<started, events, print, arg, stack, log>>
  BY DEF StopWrite
<1>2. freed' \subseteq Begun
  BY <1>1 DEF OrderlyInv, DurationInv
<1>3. \A k \in 1 .. Len(print') : print'[k].type = "B" => print'[k].name \in Begun
  BY <1>1 DEF OrderlyInv, DurationInv
<1>4. PICK to \in {"stopEnd", "stopTake"} : Goto(Main, to)
  BY <1>1
<1> QED
  BY <1>1, <1>2, <1>3, <1>4, WritesOrderly DEF StopSteps

LEMMA StopEndsOrderly ==
  ASSUME TypeInv, OrderlyInv, StopEnd \/ StopFails
  PROVE  OrderlyInv'
<1>1. /\ pc[Main] \in StopSteps /\ Goto(Main, "idle")
      /\ UNCHANGED <<started, events, print, arg, freed, stack, log>>
  BY CaptureAssumption DEF StopEnd, StopFails, Unlock, StopSteps, history
<1>2. /\ freed' \subseteq Begun
      /\ \A k \in 1 .. Len(print') : print'[k].type = "B" => print'[k].name \in Begun
  BY <1>1 DEF OrderlyInv, DurationInv
<1> QED
  BY <1>1, <1>2, WritesOrderly

LEMMA NextOrderly ==
  ASSUME Orderly, TypeInv, OrderlyInv, [Next]_vars
  PROVE  OrderlyInv'
<1>1. ASSUME NEW t \in Tracers, NEW d \in Durations, PushBegin(t, d) PROVE OrderlyInv'
  BY <1>1, PushBeginOrderly
<1>2. ASSUME NEW t \in Tracers, PushLock(t) \/ PopLock(t) \/ (t = Main /\ StopLock)
      PROVE  OrderlyInv'
  BY <1>2, LockOrderly
<1>3. ASSUME NEW t \in Tracers,
             PushEvent(t) \/ PushPrint(t) \/ PopBegin(t) \/ PopEvent(t) \/ PopPrint(t)
      PROVE  OrderlyInv'
  BY <1>3, PushEventOrderly, PushPrintOrderly, PopBeginOrderly, PopEventOrderly, PopPrintOrderly
<1>4. ASSUME CaptureStart \/ CaptureStop \/ StopOpen \/ StopTake \/ StopWrite \/ StopEnd \/ StopFails
      PROVE  OrderlyInv'
  BY <1>4, CaptureStartOrderly, CaptureStopOrderly, StopOpenOrderly, StopTakeOrderly,
     StopWriteOrderly, StopEndsOrderly
<1>5. ASSUME UNCHANGED vars PROVE OrderlyInv'
  <2>1. UNCHANGED <<started, events, print, pc, arg, freed, stack, log>>
    BY <1>5 DEF vars, history
  <2>2. /\ Begun' = Begun /\ Ended' = Ended /\ Places' = Places
        /\ (\A p : NameAt(p)' = NameAt(p)) /\ \A u : Top(u)' = Top(u)
    BY <2>1, SameNames, SamePlaces
  <2>3. Coming' = Coming /\ Going' = Going
    BY <2>1 DEF Coming, Going
  <2>4. StackInv'
    BY <2>1, <2>2 DEF OrderlyInv, StackInv
  <2>5. DurationInv'
    BY <2>1, <2>2 DEF OrderlyInv, DurationInv
  <2>6. QuietInv'
    BY <2>1, <2>2, <2>3 DEF OrderlyInv, QuietInv
  <2> QED
    BY <2>4, <2>5, <2>6 DEF OrderlyInv
<1> QED
  BY <1>1, <1>2, <1>3, <1>4, <1>5 DEF Next, Push, Continue

LEMMA InitOrderly == Init => OrderlyInv
<1> SUFFICES ASSUME Init PROVE OrderlyInv
  OBVIOUS
<1>1. /\ started = FALSE /\ events = << >> /\ print = << >> /\ freed = {} /\ log = << >>
      /\ \A t \in Tracers : pc[t] = "idle" /\ stack[t] = << >>
  BY DEF Init
<1>2. Len(events) = 0 /\ Len(print) = 0 /\ Len(log) = 0 /\ \A t \in Tracers : Len(stack[t]) = 0
  BY <1>1, EmptySeq
<1>3. Places = {}
  <2> SUFFICES ASSUME NEW p \in Places PROVE FALSE
    OBVIOUS
  <2>1. p[1] \in Tracers /\ 1 <= p[2] /\ p[2] <= Len(stack[p[1]]) /\ p[2] \in Nat
    BY DEF Places
  <2> QED
    BY <1>2, <2>1
<1>4. Begun = {} /\ Ended = {}
  BY <1>2 DEF Begun, Ended
<1>5. Coming = {} /\ Going = {}
  BY <1>1 DEF Coming, Going
<1>6. \A t \in Tracers : pc[t] \notin PushSteps \cup PopSteps \cup StopSteps
  BY <1>1, PushPopNames
<1>7. StackInv
  BY <1>3, <1>6 DEF StackInv
<1>8. DurationInv
  <2>1. pc[Main] # "stopWrite" /\ \A t \in Tracers : pc[t] # "popPrint"
    BY <1>1, TracersAssumption
  <2>2. \A k \in 1 .. Len(events) : FALSE
    BY <1>2
  <2>3. \A k \in 1 .. Len(print) : FALSE
    BY <1>2
  <2> QED
    BY <1>1, <1>4, <2>1, <2>2, <2>3 DEF DurationInv
<1>9. QuietInv
  BY <1>1, <1>3, <1>5, <1>6, FS_EmptySet, TracersAssumption DEF QuietInv
<1> QED
  BY <1>7, <1>8, <1>9 DEF OrderlyInv

(* trace.c 44-98, 139-167, with captures that start and stop while nothing is *)
(* traced: every open duration is in one place, and the captures begin and    *)
(* end with an empty event queue.                                             *)
THEOREM OrderlyCaptures == ASSUME Orderly PROVE Spec => []OrderlyInv
<1>1. TypeInv /\ OrderlyInv /\ [Next]_vars => OrderlyInv'
  BY NextOrderly
<1> QED
  BY <1>1, InitOrderly, TypingInv, PTL DEF Spec

(* trace.c 91, 161: a pop has in hand an event that traceCaptureStop has not  *)
(* freed, when captures start and stop while nothing is traced.               *)
THEOREM PopsLive == ASSUME Orderly PROVE Spec => []NoFreedUse
<1>1. OrderlyInv => NoFreedUse
  BY DEF OrderlyInv, DurationInv, NoFreedUse
<1> QED
  BY <1>1, OrderlyCaptures, PTL

LEMMA SameMatched == ASSUME Matched, log' = log PROVE Matched'
BY DEF Matched

LEMMA BeginMatched ==
  ASSUME TypeInv, Matched, NEW e \in PrintEvents, Record(e), e.type = "B"
  PROVE  Matched'
<1> DEFINE n == Len(log)
<1>1. n \in Nat /\ Len(log') = n + 1 /\ log'[n + 1] = e /\ \A k \in 1 .. n : log'[k] = log[k]
  BY RecordNames
<1>2. \A k \in 1 .. n : log[k].type = "E" =>
        /\ \E j \in 1 .. k - 1 : log[j].type = "B" /\ log[j].name = log[k].name
        /\ \A j \in 1 .. k - 1 : log[j].type = "E" => log[j].name # log[k].name
  BY DEF Matched
<1>3. log'[n + 1].type # "E"
  BY <1>1
<1> HIDE DEF n
<1>4. ASSUME NEW k \in 1 .. n
      PROVE  k \in 1 .. Len(log') /\ \A j \in 1 .. k - 1 : j \in 1 .. n /\ log'[j] = log[j]
  BY <1>1, <1>4
<1>5. ASSUME NEW k \in 1 .. Len(log'), log'[k].type = "E"
      PROVE  /\ \E j \in 1 .. k - 1 : log'[j].type = "B" /\ log'[j].name = log'[k].name
             /\ \A j \in 1 .. k - 1 : log'[j].type = "E" => log'[j].name # log'[k].name
  <2>1. k \in 1 .. n
    BY <1>1, <1>3, <1>5
  <2> QED
    BY <1>1, <1>2, <1>4, <1>5, <2>1
<1> QED
  BY <1>5 DEF Matched

LEMMA EndMatched ==
  ASSUME TypeInv, Matched, NEW e \in PrintEvents, Record(e), e.type = "E",
         e.name \in Begun \ Ended
  PROVE  Matched'
<1> DEFINE n == Len(log)
<1>1. n \in Nat /\ Len(log') = n + 1 /\ log'[n + 1] = e /\ \A k \in 1 .. n : log'[k] = log[k]
  BY RecordNames
<1>2. \A k \in 1 .. n : log[k].type = "E" =>
        /\ \E j \in 1 .. k - 1 : log[j].type = "B" /\ log[j].name = log[k].name
        /\ \A j \in 1 .. k - 1 : log[j].type = "E" => log[j].name # log[k].name
  BY DEF Matched
<1>3. /\ \E j \in 1 .. n : log[j].type = "B" /\ log[j].name = e.name
      /\ \A j \in 1 .. n : log[j].type = "E" => log[j].name # e.name
  BY BegunIs
<1> HIDE DEF n
<1>4. ASSUME NEW k \in 1 .. n
      PROVE  \A j \in 1 .. k - 1 : j \in 1 .. n /\ log'[j] = log[j]
  BY <1>1, <1>4
<1>5. ASSUME NEW k \in 1 .. Len(log'), log'[k].type = "E"
      PROVE  /\ \E j \in 1 .. k - 1 : log'[j].type = "B" /\ log'[j].name = log'[k].name
             /\ \A j \in 1 .. k - 1 : log'[j].type = "E" => log'[j].name # log'[k].name
  <2>1. CASE k \in 1 .. n
    BY <1>1, <1>2, <1>4, <1>5, <2>1
  <2>2. CASE k = n + 1
    <3>1. k - 1 = n /\ log'[k] = e
      BY <1>1, <2>2
    <3>2. PICK j \in 1 .. n : log[j].type = "B" /\ log[j].name = e.name
      BY <1>3
    <3> QED
      BY <1>1, <1>3, <3>1, <3>2
  <2> QED
    BY <1>1, <2>1, <2>2
<1> QED
  BY <1>5 DEF Matched

LEMMA NextMatched ==
  ASSUME Orderly, TypeInv, OrderlyInv, Matched, [Next]_vars
  PROVE  Matched'
<1>1. ASSUME NEW t \in Tracers, PushPrint(t) PROVE Matched'
  <2>1. arg[t] \in Durations /\ Record(Event(arg[t], "B", t))
    BY <1>1 DEF PushPrint, TypeInv, HandsOK
  <2> QED
    BY <2>1, EventType, BeginMatched
<1>2. ASSUME NEW t \in Tracers, PopPrint(t) PROVE Matched'
  <2>1. /\ Record(Event(arg[t], "E", t)) /\ arg[t] \in Durations
        /\ arg[t] \in Begun \ Ended
    BY <1>2, PopPrintNames DEF OrderlyInv
  <2> QED
    BY <2>1, EventType, EndMatched
<1>3. ASSUME NEW t \in Tracers, NEW d \in Durations, PushBegin(t, d) PROVE log' = log
  BY <1>3 DEF PushBegin, history
<1>4. ASSUME NEW t \in Tracers, PopBegin(t) \/ PushLock(t) \/ PushEvent(t) \/ PopLock(t) \/ PopEvent(t)
      PROVE  log' = log
  BY <1>4 DEF PushLock, PushEvent, PopBegin, PopLock, PopEvent, Lock, history
<1>5. ASSUME \/ CaptureStart \/ CaptureStop \/ StopLock \/ StopOpen \/ StopTake \/ StopWrite
             \/ StopEnd \/ StopFails \/ UNCHANGED vars
      PROVE  log' = log
  BY <1>5 DEF CaptureStart, CaptureStop, StopLock, Lock, StopOpen, StopTake, StopWrite,
     StopEnd, StopFails, vars, history
<1> QED
  BY <1>1, <1>2, <1>3, <1>4, <1>5, SameMatched DEF Next, Push, Continue

(* trace.c 56-98, 108-137: with captures that start and stop while nothing is *)
(* traced, an end event is recorded of a duration that has begun and has not  *)
(* ended, whichever threads push and pop.                                     *)
THEOREM EndsMatch == ASSUME Orderly PROVE Spec => []Matched
<1>1. TypeInv /\ OrderlyInv /\ Matched /\ [Next]_vars => Matched'
  BY NextMatched
<1>2. Init => Matched
  <2>1. Init => Len(log) = 0
    BY EmptySeq DEF Init
  <2> QED
    BY <2>1 DEF Matched
<1> QED
  BY <1>1, <1>2, TypingInv, OrderlyCaptures, PTL DEF Spec
=============================================================================
