------------------------------- MODULE Engine -------------------------------
(***************************************************************************)
(* main.c over the heap: which thread uses what, and in what order main    *)
(* takes it away.  The workers of fs end when fsDestroy asks them to and   *)
(* waits.  The render thread is never asked, for main does not call        *)
(* rendererDestroy; the scene is not destroyed either.  A frame of main is *)
(* a few commands, each of which waits for room in the renderer's queue.   *)
(***************************************************************************)
EXTENDS Heap, Sequences

CONSTANTS
  main, render, Workers,
  RenderQueue,      \* capacity of the renderer's queue: 3
  FrameCommands     \* commands of a frame: one per model, and one for its end

ASSUME EngineAssumption ==
  /\ Threads = {main, render} \cup Workers /\ main # render /\ Workers \cap {main, render} = {}
  /\ RenderQueue \in Nat \ {0} /\ FrameCommands \in Nat \ {0}

VARIABLES
  at,       \* main's next call
  things,   \* what main has made and not destroyed
  started,  \* the other threads that run
  stop,     \* fsDestroy has asked its workers to end
  gpu,      \* the render thread has made its gpu, from the window
  closed,   \* the user has closed the window
  left,     \* commands that main has yet to queue in this frame
  command,  \* main has allocated the next of them
  queued,   \* commands in the renderer's queue
  late      \* history: <<thread, thing>>, used after it was destroyed

frame == <<left, command, queued>>
engine == <<at, things, started, stop, gpu, closed, frame, late>>
vars == <<heap, engine>>

Make(thing)    == [do |-> "make", what |-> thing]
Start(threads) == [do |-> "start", what |-> threads]
Loop           == [do |-> "loop", what |-> "frames"]
Stop           == [do |-> "stop", what |-> "fs"]
Destroy(thing) == [do |-> "destroy", what |-> thing]
EndHeap        == [do |-> "end", what |-> "heap"]

\* Bug: fsDestroy comes last.
HeapFirst ==
  <<Make("window"), Make("fs"), Start(Workers), Make("root_time"), Make("renderer"),
    Start({render}), Make("scene"), Loop, Destroy("root_time"),
    Destroy("window"), EndHeap, Stop>>

\* main, lines 19 to 35.
Program ==
  <<Make("window"), Make("fs"), Start(Workers), Make("root_time"), Make("renderer"),
    Start({render}), Make("scene"), Loop, Destroy("root_time"),
    Stop, Destroy("fs"), Destroy("window"), EndHeap>>

Returned == at > Len(Program)

Init ==
  /\ HeapInit
  /\ at = 1 /\ things = {} /\ started = {} /\ stop = FALSE /\ gpu = FALSE /\ late = {}
  /\ closed = FALSE /\ left = 0 /\ command = FALSE /\ queued = 0

-----------------------------------------------------------------------------
(* The main thread. *)

Doing(what) == ~Returned /\ pc[main] = "out" /\ Program[at].do = what

\* An object is one block of the heap.
MakeThing ==
  /\ Doing("make") /\ heapAlloc(main)
  /\ things' = things \cup {Program[at].what} /\ at' = at + 1
  /\ UNCHANGED <<started, stop, gpu, closed, frame, late>>

DestroyThing ==
  /\ Doing("destroy") /\ heapFree(main)
  /\ things' = things \ {Program[at].what} /\ at' = at + 1
  /\ UNCHANGED <<started, stop, gpu, closed, frame, late>>

StartThreads ==
  /\ Doing("start")
  /\ started' = started \cup Program[at].what /\ at' = at + 1
  /\ UNCHANGED <<heap, things, stop, gpu, closed, frame, late>>

\* wmPumpWindow returns true: a frame begins.
Pump ==
  /\ Doing("loop") /\ left = 0 /\ ~closed
  /\ left' = FrameCommands
  /\ UNCHANGED <<heap, at, things, started, stop, gpu, closed, command, queued, late>>

\* rendererModelAdd and rendererFrameDone, up to the push: a block of the heap
\* for the command.
Frame ==
  /\ Doing("loop") /\ left > 0 /\ ~command /\ heapAlloc(main)
  /\ command' = TRUE
  /\ UNCHANGED <<at, things, started, stop, gpu, closed, left, queued, late>>

\* dequePushBack waits for room.
Push ==
  /\ Doing("loop") /\ command /\ queued < RenderQueue
  /\ queued' = queued + 1 /\ command' = FALSE /\ left' = left - 1
  /\ UNCHANGED <<heap, at, things, started, stop, gpu, closed, late>>

\* wmPumpWindow returns false.
Quit ==
  /\ Doing("loop") /\ left = 0 /\ closed
  /\ at' = at + 1
  /\ UNCHANGED <<heap, things, started, stop, gpu, closed, frame, late>>

StopWorkers ==
  /\ Doing("stop") /\ ~stop
  /\ stop' = TRUE
  /\ UNCHANGED <<heap, at, things, started, gpu, closed, frame, late>>

Join ==
  /\ Doing("stop") /\ stop /\ started \cap Workers = {}
  /\ at' = at + 1
  /\ UNCHANGED <<heap, things, started, stop, gpu, closed, frame, late>>

DestroyHeap ==
  /\ Doing("end") /\ heapDestroy(main)
  /\ at' = at + 1
  /\ UNCHANGED <<things, started, stop, gpu, closed, frame, late>>

\* The process ends when main returns, and with it every thread.
Main ==
  \/ MakeThing \/ DestroyThing \/ StartThreads \/ Pump \/ Frame \/ Push \/ Quit
  \/ StopWorkers \/ Join \/ DestroyHeap

-----------------------------------------------------------------------------
(* The other threads. *)

\* What a thread uses when it calls the heap.
Late(t) == IF exists /\ ~Destroying THEN {} ELSE {<<t, "heap">>}

Work(t) ==
  /\ t \in started /\ t # main
  /\ heapAlloc(t) \/ heapFree(t)
  /\ late' = late \cup Late(t)
  /\ UNCHANGED <<at, things, started, stop, gpu, closed, frame>>

\* A worker ends when it has popped the NULL of fsDestroy.
EndWorker(t) ==
  /\ t \in started \cap Workers /\ stop /\ pc[t] = "out"
  /\ started' = started \ {t}
  /\ UNCHANGED <<heap, at, things, stop, gpu, closed, frame, late>>

\* gpuCreate reads the handle of the window.
CreateGpu ==
  /\ render \in started /\ ~gpu /\ gpu' = TRUE
  /\ late' = IF "window" \in things THEN late ELSE late \cup {<<render, "window">>}
  /\ UNCHANGED <<heap, at, things, started, stop, closed, frame>>

\* Bug: the loop around the queue is left with the first command.
TakeOnce(t) == started \ {t}

\* The threads there are when t has taken a command: the same.
TakenBy(t) == started

\* The render thread takes a command when it has worked off the one before.
Take ==
  /\ render \in started /\ gpu /\ pc[render] = "out" /\ queued > 0
  /\ queued' = queued - 1 /\ started' = TakenBy(render)
  /\ UNCHANGED <<heap, at, things, stop, gpu, closed, left, command, late>>

\* The user closes the window.
Close ==
  /\ "window" \in things /\ ~closed
  /\ closed' = TRUE
  /\ UNCHANGED <<heap, at, things, started, stop, gpu, frame, late>>

Locks(t) == Lock(t) /\ UNCHANGED engine

InCall(t) == (Inside(t) \/ Walk(t) \/ Walked(t)) /\ UNCHANGED engine

\* The process lives: main has not returned, and nobody has used a dead heap.
Runs == ~(Returned /\ pc[main] = "out") /\ <<render, "heap">> \notin late

Next ==
  /\ Runs
  /\ \/ Main \/ Close
     \/ \E t \in Threads : Work(t) \/ EndWorker(t) \/ Locks(t) \/ InCall(t)
     \/ CreateGpu \/ Take

\* Threads that wait for the mutex get it in turn.  The workers of fs have a
\* bounded queue to work off before they end, and the render thread has a
\* bounded number of calls to make before it comes back for the next command.
\* Nobody has to close the window.
Fairness ==
  /\ WF_vars(Runs /\ Main) /\ WF_vars(Runs /\ \E t \in Threads : InCall(t))
  /\ \A t \in Threads : SF_vars(Runs /\ Locks(t))
  /\ \A t \in Workers : SF_vars(Runs /\ EndWorker(t))
  /\ WF_vars(Runs /\ CreateGpu) /\ SF_vars(Runs /\ Take)

Spec == Init /\ [][Next]_vars /\ Fairness

-----------------------------------------------------------------------------
(* Properties. *)

\* Only the render thread, which nobody ends, can use what main has taken away:
\* the window, if it comes to make its gpu too late, and the heap.
LateIsRender == late \subseteq {<<render, "window">>, <<render, "heap">>}

\* Once the user has closed the window main returns, though it may be in the
\* middle of a frame and wait for the render thread to make room in the queue;
\* unless an allocation has failed and kept the lock, or the render thread runs
\* into the heap that is gone.
MainReturns ==
  closed ~> (\/ Returned /\ pc[main] = "out"
             \/ failed \/ <<render, "heap">> \in late)
=============================================================================
