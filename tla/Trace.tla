-------------------------------- MODULE Trace --------------------------------
(***************************************************************************)
(* trace.c: durations of any number of threads, recorded under one mutex.  *)
(* A push makes a begin event and puts it on two deques: the event queue,  *)
(* where a pop finds the duration to end, and the print queue, which the   *)
(* end of a capture writes to a file.  A pop puts a copy, of type E, on    *)
(* the print queue.  The end of a capture frees every event it writes.     *)
(*                                                                         *)
(* All deque operations happen under the mutex, so a deque is a sequence   *)
(* here, and its cur_size is the length.  A push on a full one and a pop   *)
(* on an empty one wait, and keep the mutex.                               *)
(***************************************************************************)
EXTENDS Naturals, Sequences, FiniteSets

CONSTANTS
  Tracers,     \* the threads
  Main,        \* the one that starts and stops the captures
  Nobody,      \* the owner of a free mutex
  Durations,   \* bound: the durations there are to trace
  Garbage,     \* a name read from a freed event
  Capacity,    \* the event_capacity of traceCreate
  Failures,    \* the steps of traceCaptureStop where a call to Windows may fail
  Orderly,     \* captures start and stop only while nothing is traced
  MaxCaptures  \* bound: the captures started

ASSUME TracersAssumption ==
  Main \in Tracers /\ Nobody \notin Tracers /\ Garbage \notin Durations
ASSUME CaptureAssumption ==
  /\ Capacity \in Nat \ {0} /\ MaxCaptures \in Nat /\ Orderly \in BOOLEAN
  /\ Failures \subseteq {"stopOpen", "stopWrite", "stopEnd"}

VARIABLES
  started,
  events,        \* trace_event_queue: begun durations, by their begin events
  print,         \* trace_event_print
  owner, depth,  \* the mutex, which its owner may lock again
  pc, arg,       \* the step each thread takes next, and the event it handles
  freed,         \* the begin events that were freed
  stack,         \* the open durations of each thread, as the program nests them
  captures,      \* how often a capture was started or stopped, in turn
  log,           \* history: all that was put on the print queue
  written,       \* history: all that was written to a file
  failed,        \* history: how many traceCaptureStop returned early
  leaked         \* history: one of them had popped an event and not written it

lock    == <<owner, depth>>
history == <<captures, log, written, failed, leaked>>
vars    == <<started, events, print, lock, pc, arg, freed, stack, history>>

StopSteps == {"stopLock", "stopOpen", "stopTake", "stopWrite", "stopEnd"}

Event(name, type, thread) == [name |-> name, type |-> type, tid |-> thread]
Begun == {log[k].name : k \in {j \in 1 .. Len(log) : log[j].type = "B"}}
Open == UNION {{stack[t][k] : k \in 1 .. Len(stack[t])} : t \in Tracers}

Init ==
  /\ started = FALSE
  /\ events = << >> /\ print = << >>
  /\ owner = Nobody /\ depth = 0
  /\ pc = [t \in Tracers |-> "idle"]
  /\ arg = [t \in Tracers |-> Garbage]
  /\ freed = {}
  /\ stack = [t \in Tracers |-> << >>]
  /\ captures = 0 /\ log = << >> /\ written = << >> /\ failed = 0 /\ leaked = FALSE

Goto(t, step) == pc' = [pc EXCEPT ![t] = step]

\* WaitForSingleObject on a mutex.
CanLock(t) == owner \in {t, Nobody}

Lock(t, from, to) ==
  /\ pc[t] = from /\ CanLock(t)
  /\ owner' = t /\ depth' = depth + 1
  /\ Goto(t, to)
  /\ UNCHANGED <<started, events, print, arg, freed, stack, history>>

\* Bug: an unlock is forgotten.
NotUnlocked(n) == n

\* ReleaseMutex undoes one lock.
Unlocked(n) == n - 1

Unlock(t) ==
  /\ depth' = Unlocked(depth)
  /\ owner' = IF Unlocked(depth) = 0 THEN Nobody ELSE owner
  /\ Goto(t, "idle")

\* Put an event on the print queue, which has room for twice the capacity.
Record(event) ==
  /\ Len(print) < 2 * Capacity
  /\ print' = Append(print, event)
  /\ log' = Append(log, event)

-----------------------------------------------------------------------------
(* traceDurationPush(trace, d).  started is read before the mutex is locked. *)

PushBegin(t, d) ==
  /\ pc[t] = "idle" /\ d \notin Begun \cup Open
  /\ Orderly => pc[Main] \notin StopSteps
  /\ stack' = [stack EXCEPT ![t] = Append(@, d)]
  /\ IF started
     THEN arg' = [arg EXCEPT ![t] = d] /\ Goto(t, "pushLock")
     ELSE UNCHANGED <<arg, pc>>
  /\ UNCHANGED <<started, events, print, lock, freed, history>>

PushLock(t) == Lock(t, "pushLock", "pushEvent")

PushEvent(t) ==
  /\ pc[t] = "pushEvent" /\ Len(events) < Capacity
  /\ events' = Append(events, arg[t])
  /\ Goto(t, "pushPrint")
  /\ UNCHANGED <<started, print, lock, arg, freed, stack, history>>

PushPrint(t) ==
  /\ pc[t] = "pushPrint"
  /\ Record(Event(arg[t], "B", t))
  /\ Unlock(t)
  /\ UNCHANGED <<started, events, arg, freed, stack, captures, written, failed, leaked>>

-----------------------------------------------------------------------------
(* traceDurationPop(trace), called by a thread that has begun a duration. *)

PopBegin(t) ==
  /\ pc[t] = "idle" /\ stack[t] # << >>
  /\ IF started
     THEN Goto(t, "popLock") /\ UNCHANGED stack
     ELSE stack' = [stack EXCEPT ![t] = SubSeq(@, 1, Len(@) - 1)] /\ UNCHANGED pc
  /\ UNCHANGED <<started, events, print, lock, arg, freed, history>>

PopLock(t) == Lock(t, "popLock", "popEvent")

\* Bug: the event stays in the queue.
Peeked(queue) == queue

\* dequePopFront takes the oldest event.
Rest(queue) == Tail(queue)

PopEvent(t) ==
  /\ pc[t] = "popEvent" /\ events # << >>
  /\ arg' = [arg EXCEPT ![t] = Head(events)]
  /\ events' = Rest(events)
  /\ Goto(t, "popPrint")
  /\ UNCHANGED <<started, print, lock, freed, stack, history>>

\* traceEventCopy reads the name of the event it copies.
NameOf(d) == IF d \in freed THEN Garbage ELSE d

PopPrint(t) ==
  /\ pc[t] = "popPrint"
  /\ Record(Event(NameOf(arg[t]), "E", t))
  /\ stack' = [stack EXCEPT ![t] = SubSeq(@, 1, Len(@) - 1)]
  /\ Unlock(t)
  /\ UNCHANGED <<started, events, arg, freed, captures, written, failed, leaked>>

-----------------------------------------------------------------------------
(* traceCaptureStart and traceCaptureStop. *)

\* test.c 47-82 starts before and stops after all the durations.
Quiet == \A t \in Tracers : pc[t] = "idle" /\ stack[t] = << >>

CaptureStart ==
  /\ pc[Main] = "idle" /\ (Orderly => Quiet) /\ captures % 2 = 0 /\ captures < 2 * MaxCaptures
  /\ started' = TRUE
  /\ captures' = captures + 1
  /\ UNCHANGED <<events, print, lock, pc, arg, freed, stack, log, written, failed, leaked>>

CaptureStop ==
  /\ pc[Main] = "idle" /\ (Orderly => Quiet) /\ captures % 2 = 1
  /\ captures' = captures + 1
  /\ Goto(Main, "stopLock")
  /\ UNCHANGED <<started, events, print, lock, arg, freed, stack, log, written, failed, leaked>>

StopLock == Lock(Main, "stopLock", "stopOpen")

StopOpen ==
  /\ pc[Main] = "stopOpen"
  /\ started' = FALSE
  /\ Goto(Main, "stopTake")
  /\ UNCHANGED <<events, print, lock, arg, freed, stack, history>>

StopTake ==
  /\ pc[Main] = "stopTake" /\ print # << >>
  /\ arg' = [arg EXCEPT ![Main] = Head(print)]
  /\ print' = Tail(print)
  /\ Goto(Main, "stopWrite")
  /\ UNCHANGED <<started, events, lock, freed, stack, history>>

\* Bug: the loop ends one event early.
EndsEarly(queue) == Len(queue) <= 1

\* The end of the loop: dequeGetCurrentSize is 0.
Drained(queue) == queue = << >>

StopWrite ==
  /\ pc[Main] = "stopWrite"
  /\ LET event == arg[Main]
     IN /\ written' = Append(written, event)
        /\ freed' = IF event.type = "B" THEN freed \cup {event.name} ELSE freed
  /\ Goto(Main, IF Drained(print) THEN "stopEnd" ELSE "stopTake")
  /\ UNCHANGED <<started, events, print, lock, arg, stack, captures, log, failed, leaked>>

StopEnd ==
  /\ pc[Main] = "stopEnd"
  /\ Unlock(Main)
  /\ UNCHANGED <<started, events, print, arg, freed, stack, history>>

\* The early returns.  None of them unlocks the mutex.
StopFails ==
  /\ pc[Main] \in Failures
  /\ failed' = failed + 1
  /\ leaked' = (leaked \/ pc[Main] = "stopWrite")
  /\ Goto(Main, "idle")
  /\ UNCHANGED <<started, events, print, lock, arg, freed, stack, captures, log, written>>

-----------------------------------------------------------------------------
\* The steps of a call that has begun.
Continue(t) ==
  \/ PushLock(t) \/ PushEvent(t) \/ PushPrint(t)
  \/ PopLock(t) \/ PopEvent(t) \/ PopPrint(t)
  \/ t = Main /\ (StopLock \/ StopOpen \/ StopTake \/ StopWrite \/ StopEnd \/ StopFails)

Push(t) == \E d \in Durations : PushBegin(t, d)

Next ==
  \/ \E t \in Tracers : Push(t) \/ PopBegin(t) \/ Continue(t)
  \/ CaptureStart \/ CaptureStop

Spec == Init /\ [][Next]_vars

\* Threads are scheduled, and durations end.  A thread that waits for a mutex
\* gets it once the finitely many other calls are over.
Fairness == \A t \in Tracers : WF_vars(Continue(t))

FairSpec == Spec /\ Fairness

-----------------------------------------------------------------------------
PrintEvents == [name : Durations \cup {Garbage}, type : {"B", "E"}, tid : Tracers]
TracerSteps == {"idle", "pushLock", "pushEvent", "pushPrint",
                "popLock", "popEvent", "popPrint"}

\* Every variable has its type.
TypeOK ==
  /\ started \in BOOLEAN /\ leaked \in BOOLEAN /\ captures \in 0 .. 2 * MaxCaptures
  /\ events \in Seq(Durations) /\ Len(events) <= Capacity
  /\ print \in Seq(PrintEvents) /\ Len(print) <= 2 * Capacity
  /\ owner \in Tracers \cup {Nobody} /\ failed \in Nat /\ depth \in 0 .. failed + 1
  /\ \A t \in Tracers : pc[t] \in TracerSteps \cup (IF t = Main THEN StopSteps ELSE {})
  /\ \A t \in Tracers : arg[t] \in Durations \cup {Garbage} \cup PrintEvents
  /\ freed \subseteq Durations
  /\ stack \in [Tracers -> Seq(Durations)]
  /\ log \in Seq(PrintEvents) /\ written \in Seq(PrintEvents)

\* The event in the hands of traceCaptureStop.
Hand == IF pc[Main] = "stopWrite" THEN << arg[Main] >> ELSE << >>

\* Every event recorded is written, in the order of recording and once, unless a
\* write fails (trace.c 64-98, 139-167); and nothing is left for the next file.
NothingLost ==
  /\ ~leaked => log = written \o Hand \o print
  /\ pc[Main] = "stopEnd" => print = << >>

\* Every end event is of one duration that has begun before it and that no
\* other end event is of, across threads and captures.
Matched ==
  \A k \in 1 .. Len(log) : log[k].type = "E" =>
    /\ \E j \in 1 .. k - 1 : log[j].type = "B" /\ log[j].name = log[k].name
    /\ \A j \in 1 .. k - 1 : log[j].type = "E" => log[j].name # log[k].name

\* A pop never gets an event that traceCaptureStop has freed (trace.c 91, 161).
NoFreedUse == \A t \in Tracers : pc[t] = "popPrint" => arg[t] \notin freed

\* traceCaptureStop waits for a first event that nobody can record.
NothingToWrite == pc[Main] = "stopTake" /\ print = << >>

\* While no more than event_capacity durations are traced, every call returns,
\* unless a failed or an empty capture has taken the mutex for good.
CallsReturn ==
  \A t \in Tracers :
    (pc[t] # "idle") ~> (pc[t] = "idle" \/ failed > 0 \/ NothingToWrite)

\* "End tracing the currently active duration on the current thread"
\* (trace.h 46): a pop gets the duration its own thread began last.
PopEndsCurrent ==
  \A t \in Tracers : pc[t] = "popPrint" => arg[t] = stack[t][Len(stack[t])]
=============================================================================
