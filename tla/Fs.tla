--------------------------------- MODULE Fs ---------------------------------
(***************************************************************************)
(* fs.c: asynchronous file reads and writes.  A client queues work objects *)
(* to two worker threads, the file thread and the compression thread, and  *)
(* each worker also hands work to the other: a compressed read goes to the *)
(* file thread first and then to the compression thread, a compressed      *)
(* write the other way round.  The client waits for the event of a work    *)
(* object, reads it and destroys it, and at the end fsDestroy stops the    *)
(* compression thread and then the file thread with a NULL in their queue. *)
(*                                                                         *)
(* What a worker does between two queue operations is one action: nobody   *)
(* else looks at the work object before its event is signalled, and        *)
(* nothing in a handler follows the signal.                                *)
(***************************************************************************)
EXTENDS DequeOps, Sequences, FiniteSets

CONSTANTS
  Reads,        \* requests made with fsRead
  Writes,       \* requests made with fsWrite
  Compressed,   \* those among them made with compress = true
  NULL,         \* the item that stops a worker
  Failures,     \* the calls to Windows and lz4 that may fail
  CallerHeap,   \* where the caller's buffers live: "fs", fsCreate's heap, or "app"
  CallerFrees,  \* whether the caller may free the buffer of a read itself, as fs.h
                \* 32 says: "never", "before" or "instead" of fsWorkDestroy
  DestroyEarly, \* fsDestroy may be called before all work is complete
  MaxInFlight   \* bound: works the client leaves incomplete at a time

Requests == Reads \cup Writes
Queues   == {"file", "compress"}
Workers  == {"file", "compress"}   \* each worker serves the queue of its name
Threads  == Workers \cup {"client"}
Blocks   == {"work", "user", "file", "packed", "plain"}

ASSUME RequestsAssumption ==
  /\ IsFiniteSet(Requests) /\ Reads \cap Writes = {} /\ Compressed \subseteq Requests
  /\ NULL \notin Requests /\ Garbage \notin Requests \cup {NULL}
ASSUME EnvironmentAssumption ==
  /\ Failures \subseteq {"path", "open", "size", "read", "write", "decompress"}
  /\ CallerHeap \in {"fs", "app"}
  /\ CallerFrees \in {"never", "before", "instead"} /\ DestroyEarly \in BOOLEAN
  /\ MaxInFlight \in Nat \ {0}

VARIABLES
  queue,   \* the two deques
  alive,   \* whether a deque has not been destroyed
  pc,      \* what each thread does next
  cur,     \* the item a thread handles or pushes
  slot,    \* the slot it claimed
  work,    \* the fields of the work objects, and their history: abandoned by
           \* the worker without a signal, dropped by a caller who freed the buffer
  mem,     \* every block of memory: "none", the heap it lives in, "freed", "corrupt"
  order    \* history: the requests in the order of their submission

vars == <<queue, alive, pc, cur, slot, work, mem, order>>

Submitted == {order[k] : k \in 1 .. Len(order)}
Done == {r \in Submitted : work[r].done}
\* A handler returned early, without signalling the event.
Failed == {r \in Submitted : work[r].abandoned}
Pending == Submitted \ (Done \cup Failed)

-----------------------------------------------------------------------------
(* Memory. *)

\* The heap field of a work object: fsRead is given one, fsWrite is not.
HeapOf(r) == IF r \in Reads THEN CallerHeap ELSE "fs"

Alloc(m, r, block, heap) == [m EXCEPT ![r][block] = heap]

\* heapFree(heap, block).  Freeing NULL does nothing; freeing a block that is
\* already free, or into a heap it is not from, corrupts the allocator.
FreeIn(m, r, block, heap) ==
  IF block = "none" THEN m
  ELSE [m EXCEPT ![r][block] = IF @ = heap THEN "freed" ELSE "corrupt"]

-----------------------------------------------------------------------------
NoWork == [op |-> "none", buffer |-> "none", allocated |-> FALSE,
           done |-> FALSE, result |-> 0, abandoned |-> FALSE, dropped |-> FALSE]

Init ==
  /\ queue = [q \in Queues |-> NewDeque]
  /\ alive = [q \in Queues |-> TRUE]
  /\ pc = [t \in Threads |-> IF t = "client" THEN "ready" ELSE "pop"]
  /\ cur = [t \in Threads |-> Garbage]
  /\ slot = [t \in Threads |-> 0]
  /\ work = [r \in Requests |-> NoWork]
  /\ mem = [r \in Requests |-> [b \in Blocks |-> "none"]]
  /\ order = << >>

Goto(t, step) == pc' = [pc EXCEPT ![t] = step]

\* Thread t claims a place for item in queue q, and writes it in a later step.
StartPush(t, q, item) ==
  /\ CanPush(queue[q])
  /\ queue' = [queue EXCEPT ![q] = PushClaim(@)]
  /\ slot' = [slot EXCEPT ![t] = queue[q].tail]
  /\ cur' = [cur EXCEPT ![t] = item]

EndPush(t, q) ==
  /\ queue' = [queue EXCEPT ![q] = PushWrite(@, slot[t], cur[t])]
  /\ UNCHANGED <<alive, cur, slot, work, mem, order>>

-----------------------------------------------------------------------------
(* The client. *)

\* Bug: every write goes through the compression thread.
AllWritesPacked(r) == IF r \in Writes THEN "compress" ELSE "file"

\* fsRead and plain fsWrite use the file queue, compressed fsWrite the other.
FirstQueue(r) == IF r \in Writes \cap Compressed THEN "compress" ELSE "file"

NewWork(r) ==
  IF r \in Reads
  THEN [NoWork EXCEPT !.op = "READ"]
  ELSE [NoWork EXCEPT !.op = "WRITE", !.buffer = "user", !.allocated = TRUE]

\* fsRead, fsWrite: allocate the work object and claim a place for it.
Submit(r) ==
  /\ pc["client"] = "ready"
  /\ r \notin Submitted
  /\ Cardinality(Pending) < MaxInFlight
  /\ StartPush("client", FirstQueue(r), r)
  /\ work' = [work EXCEPT ![r] = NewWork(r)]
  /\ mem' = IF r \in Writes
            THEN Alloc(Alloc(mem, r, "work", "fs"), r, "user", CallerHeap)
            ELSE Alloc(mem, r, "work", "fs")
  /\ order' = Append(order, r)
  /\ Goto("client", "submit")
  /\ UNCHANGED alive

SubmitWrite ==
  /\ pc["client"] = "submit"
  /\ EndPush("client", FirstQueue(cur["client"]))
  /\ Goto("client", "ready")

\* Bug: nobody waits for the event.
NotWaitedFor(r) == r \in Submitted

\* eventWait, in the getters and in fsWorkDestroy.
Signaled(r) == r \in Done

\* heapFree(heap, fsWorkGetBuffer(work)), as scene.c does before it destroys
\* the work object.  The getter waits for the event.
CallerFreeBuffer(r) ==
  /\ CallerFrees # "never" /\ pc["client"] \in {"ready", "gone"}
  /\ r \in Reads /\ Signaled(r)
  /\ mem[r]["work"] = "fs" /\ ~work[r].dropped
  /\ work' = [work EXCEPT ![r].dropped = TRUE]
  /\ mem' = FreeIn(mem, r, work[r].buffer, CallerHeap)
  /\ UNCHANGED <<queue, alive, pc, cur, slot, order>>

\* fsWorkDestroy: wait for the event, free the buffer if the work owns one, and
\* free the work object into the heap it names.
WorkDestroy(r) ==
  /\ pc["client"] \in {"ready", "gone"}
  /\ CallerFrees = "instead" => ~work[r].dropped
  /\ Signaled(r) /\ mem[r]["work"] = "fs"
  /\ LET m == IF work[r].allocated
              THEN FreeIn(mem, r, work[r].buffer, HeapOf(r)) ELSE mem
     IN mem' = FreeIn(m, r, "work", HeapOf(r))
  /\ UNCHANGED <<queue, alive, pc, cur, slot, work, order>>

\* Bug: threadDestroy does not wait for the thread.
NotJoined(t) == TRUE

\* WaitForSingleObject on the handle of a worker.
Joined(t) == pc[t] = "exited"

\* fsDestroy pushes NULL to the compression queue, joins its thread and
\* destroys the queue, and then does the same for the file queue.
FsDestroy ==
  /\ pc["client"] = "ready"
  /\ DestroyEarly \/ Pending = {}
  /\ StartPush("client", "compress", NULL)
  /\ Goto("client", "stopCompress")
  /\ UNCHANGED <<alive, work, mem, order>>

StopCompress ==
  /\ pc["client"] = "stopCompress"
  /\ EndPush("client", "compress")
  /\ Goto("client", "joinCompress")

JoinCompress ==
  /\ pc["client"] = "joinCompress" /\ Joined("compress")
  /\ alive' = [alive EXCEPT !["compress"] = FALSE]
  /\ Goto("client", "nullFile")
  /\ UNCHANGED <<queue, cur, slot, work, mem, order>>

NullFile ==
  /\ pc["client"] = "nullFile"
  /\ StartPush("client", "file", NULL)
  /\ Goto("client", "stopFile")
  /\ UNCHANGED <<alive, work, mem, order>>

StopFile ==
  /\ pc["client"] = "stopFile"
  /\ EndPush("client", "file")
  /\ Goto("client", "joinFile")

JoinFile ==
  /\ pc["client"] = "joinFile" /\ Joined("file")
  /\ alive' = [alive EXCEPT !["file"] = FALSE]
  /\ Goto("client", "gone")
  /\ UNCHANGED <<queue, cur, slot, work, mem, order>>

\* The client inside a call of fsRead, fsWrite or fsDestroy.
ClientInCall ==
  \/ SubmitWrite
  \/ StopCompress \/ JoinCompress \/ NullFile \/ StopFile \/ JoinFile

-----------------------------------------------------------------------------
(* The workers: fileThreadFunc and compressThreadFunc. *)

\* Bug: a worker takes the newest item.
PopNewest(t) ==
  /\ pc[t] = "pop" /\ alive[t] /\ CanPop(queue[t])
  /\ queue' = [queue EXCEPT ![t] = PopBackClaim(@)]
  /\ slot' = [slot EXCEPT ![t] = PopBackClaim(queue[t]).tail]
  /\ Goto(t, "fetch")
  /\ UNCHANGED <<alive, cur, work, mem, order>>

Pop(t) ==
  /\ pc[t] = "pop" /\ alive[t] /\ CanPop(queue[t])
  /\ queue' = [queue EXCEPT ![t] = PopClaim(@)]
  /\ slot' = [slot EXCEPT ![t] = queue[t].head]
  /\ Goto(t, "fetch")
  /\ UNCHANGED <<alive, cur, work, mem, order>>

\* Bug: a worker takes NULL for one more work object.
NeverStops(item) == FALSE

Stops(item) == item = NULL

\* An item that is neither NULL nor a work object is a wild pointer: the
\* thread goes no further.
Fetch(t) ==
  /\ pc[t] = "fetch"
  /\ LET item == queue[t].slots[slot[t]]
     IN /\ cur' = [cur EXCEPT ![t] = item]
        /\ Goto(t, IF Stops(item) THEN "exited" ELSE "run")
  /\ queue' = [queue EXCEPT ![t] = PopRead(@)]
  /\ UNCHANGED <<alive, slot, work, mem, order>>

\* A worker has work r of kind kind in hand.
Handles(t, r, kind) == pc[t] = "run" /\ cur[t] = r /\ work[r].op = kind

\* Every handler leaves the queues to a later step.
HandlerFrame == UNCHANGED <<queue, alive, cur, slot, order>>

\* Bug: a worker ends at the first failed call.
WorkerEnds(t) == "exited"

\* An early return of a handler goes back to the loop of the worker.
AfterFailure(t) == "pop"

\* The early returns of fileRead: the result is set, the event is not
\* signalled, and after a failed ReadFile the buffer stays allocated.  A short
\* read is no error to Windows, so GetLastError may be 0.
FileReadFails(r, call) ==
  /\ Handles("file", r, "READ")
  /\ call \in Failures \cap {"path", "open", "size", "read"}
  /\ \E error \in IF call = "read" THEN {0, 1} ELSE {1} :
       work' = [work EXCEPT ![r].result = error, ![r].abandoned = TRUE,
                            ![r].buffer = IF call = "read" THEN "file" ELSE @]
  /\ mem' = IF call = "read" THEN Alloc(mem, r, "file", HeapOf(r)) ELSE mem
  /\ Goto("file", AfterFailure("file"))
  /\ HandlerFrame

\* Bug: the event of a compressed read is signalled before it is decompressed.
SignaledRead(r) ==
  [work[r] EXCEPT !.buffer = "file", !.allocated = TRUE, !.done = TRUE]

\* Bug: allocated_buffer stays false.
UnownedRead(r) == [work[r] EXCEPT !.buffer = "file", !.done = r \notin Compressed]

\* A plain read is complete; a compressed one goes on to the other thread.
ReadWork(r) ==
  [work[r] EXCEPT !.buffer = "file", !.allocated = TRUE,
                  !.done = @ \/ r \notin Compressed]

\* Bug: a compressed read is not handed over.
NotHandedOver(r) == "pop"

AfterRead(r) == IF r \in Compressed THEN "push" ELSE "pop"

FileRead(r) ==
  /\ Handles("file", r, "READ")
  /\ work' = [work EXCEPT ![r] = ReadWork(r)]
  /\ mem' = Alloc(mem, r, "file", HeapOf(r))
  /\ Goto("file", AfterRead(r))
  /\ HandlerFrame

FileWriteFails(r, call) ==
  /\ Handles("file", r, "WRITE")
  /\ call \in Failures \cap {"path", "open", "write"}
  /\ work' = [work EXCEPT ![r].result = 1, ![r].abandoned = TRUE]
  /\ Goto("file", AfterFailure("file"))
  /\ UNCHANGED mem /\ HandlerFrame

\* A compressed write frees the packed buffer and keeps the pointer to it.
WrittenWork(r) == [work[r] EXCEPT !.allocated = @ /\ r \notin Compressed, !.done = TRUE]

FileWrite(r) ==
  /\ Handles("file", r, "WRITE")
  /\ work' = [work EXCEPT ![r] = WrittenWork(r)]
  /\ mem' = IF r \in Compressed
            THEN FreeIn(mem, r, work[r].buffer, HeapOf(r)) ELSE mem
  /\ Goto("file", "pop")
  /\ HandlerFrame

\* lz4 reports corrupt data to its caller only: GetLastError may well be 0.
FileDecompressFails(r) ==
  /\ Handles("compress", r, "READ") /\ "decompress" \in Failures
  /\ \E error \in {0, 1} :
       work' = [work EXCEPT ![r].result = error, ![r].done = TRUE]
  /\ mem' = FreeIn(Alloc(mem, r, "plain", HeapOf(r)), r, "plain", HeapOf(r))
  /\ Goto("compress", "pop")
  /\ HandlerFrame

\* Bug: the work object keeps the buffer that was freed.
StaleDecompressed(r) == [work[r] EXCEPT !.done = TRUE]

DecompressedWork(r) == [work[r] EXCEPT !.buffer = "plain", !.done = TRUE]

FileDecompress(r) ==
  /\ Handles("compress", r, "READ")
  /\ work' = [work EXCEPT ![r] = DecompressedWork(r)]
  /\ mem' = FreeIn(Alloc(mem, r, "plain", HeapOf(r)), r, work[r].buffer, HeapOf(r))
  /\ Goto("compress", "pop")
  /\ HandlerFrame

FileCompress(r) ==
  /\ Handles("compress", r, "WRITE")
  /\ work' = [work EXCEPT ![r].buffer = "packed", ![r].op = "WRITE"]
  /\ mem' = Alloc(mem, r, "packed", HeapOf(r))
  /\ Goto("compress", "push")
  /\ HandlerFrame

Other(t) == IF t = "file" THEN "compress" ELSE "file"

\* The handler ends with dequePushBack to the other worker's queue.
HandOver(t) ==
  /\ pc[t] = "push" /\ alive[Other(t)]
  /\ StartPush(t, Other(t), cur[t])
  /\ Goto(t, "handover")
  /\ UNCHANGED <<alive, work, mem, order>>

HandOverWrite(t) ==
  /\ pc[t] = "handover"
  /\ EndPush(t, Other(t))
  /\ Goto(t, "pop")

FileHandler(r) ==
  \/ FileRead(r) \/ FileWrite(r)
  \/ \E call \in Failures : FileReadFails(r, call) \/ FileWriteFails(r, call)

CompressHandler(r) == FileDecompress(r) \/ FileDecompressFails(r) \/ FileCompress(r)

Worker(t) ==
  \/ Pop(t) \/ Fetch(t) \/ HandOver(t) \/ HandOverWrite(t)
  \/ \E r \in Requests : FileHandler(r) /\ t = "file"
  \/ \E r \in Requests : CompressHandler(r) /\ t = "compress"

Client ==
  \/ \E r \in Requests : Submit(r) \/ CallerFreeBuffer(r) \/ WorkDestroy(r)
  \/ FsDestroy
  \/ ClientInCall

Next == Client \/ \E t \in Workers : Worker(t)

Spec == Init /\ [][Next]_vars

\* Every thread is scheduled.  The client need not call anything, but a call
\* it has begun goes on.
Fairness == WF_vars(ClientInCall) /\ \A t \in Workers : WF_vars(Worker(t))

FairSpec == Spec /\ Fairness

-----------------------------------------------------------------------------
Items == Requests \cup {NULL, Garbage}

WorkFields ==
  [op : {"none", "READ", "WRITE"}, buffer : Blocks \cup {"none"},
   allocated : BOOLEAN, done : BOOLEAN, result : {0, 1},
   abandoned : BOOLEAN, dropped : BOOLEAN]

ClientSteps == {"ready", "submit", "stopCompress", "joinCompress", "nullFile",
                "stopFile", "joinFile", "gone"}
WorkerSteps == {"pop", "fetch", "run", "push", "handover", "exited"}

\* Every variable has its type.
TypeOK ==
  /\ queue \in [Queues -> Deques(Items)]
  /\ alive \in [Queues -> BOOLEAN]
  /\ pc \in [Threads -> ClientSteps \cup WorkerSteps]
  /\ pc["client"] \in ClientSteps /\ \A t \in Workers : pc[t] \in WorkerSteps
  /\ cur \in [Threads -> Items]
  /\ slot \in [Threads -> 0 .. QueueLength - 1]
  /\ work \in [Requests -> WorkFields]
  /\ mem \in [Requests -> [Blocks -> {"none", "fs", "app", "freed", "corrupt"}]]
  /\ order \in Seq(Requests)

Holds(t) == pc[t] \in {"run", "push", "handover"}

\* fs.c 269-313: a worker only ever works on an object that was queued, is not
\* complete and is not freed: it never meets a slot that nobody wrote, a work
\* object a second time, or one its caller has destroyed.
WorkersHoldLiveWork ==
  \A t \in Workers :
    Holds(t) => cur[t] \in Pending /\ mem[cur[t]]["work"] = "fs"

Carriers(r) == {t \in Workers : Holds(t) /\ cur[t] = r}
               \cup {t \in {"client"} : pc[t] = "submit" /\ cur[t] = r}

\* The slots whose item a worker has still to read.
Unread(q) == Waiting(queue[q]) \cup {s \in {slot[q]} : pc[q] = "fetch"}

\* A work object that is not complete is in exactly one place, in the hands of
\* one thread or in one queue; one that is complete is in none.
OnePlace ==
  \A r \in Requests :
    Cardinality(Carriers(r))
    + Cardinality({p \in Queues \X (0 .. QueueLength - 1) :
                     p[2] \in Unread(p[1]) /\ queue[p[1]].slots[p[2]] = r})
    = IF r \in Pending THEN 1 ELSE 0

\* No block is freed twice, or into a heap it was not allocated from
\* (fs.c 137-147, 221-222, 240, 247).
NoBadFree == \A r \in Requests, b \in Blocks : mem[r][b] # "corrupt"

\* Once a work object is destroyed, none of the buffers the workers allocated
\* for it is left (fs.c 137-147).
NoLeak ==
  \A r \in Requests : mem[r]["work"] = "freed" =>
    \A b \in {"file", "packed", "plain"} : mem[r][b] \in {"none", "freed"}

\* When a read is complete with result 0 and not yet destroyed, its buffer is
\* live, in the caller's heap, and holds the file: decompressed if the read is
\* compressed (fs.c 149-193, 229-254).
ReadDelivers ==
  \A r \in Reads \cap Done :
    (mem[r]["work"] = "fs" /\ work[r].result = 0) =>
      /\ work[r].buffer = IF r \in Compressed THEN "plain" ELSE "file"
      /\ mem[r][work[r].buffer] = CallerHeap

\* Work of one kind completes in the order of submission, across both queues
\* and both workers.
KindOrder ==
  \A j, k \in 1 .. Len(order) :
    (/\ j < k /\ order[k] \in Done
     /\ order[j] \in Compressed <=> order[k] \in Compressed)
    => order[j] \in Done \cup Failed

\* No thread is inside an operation of a queue that fsDestroy has destroyed.
QueuesAlive ==
  \A t \in Workers :
    /\ pc[t] \in {"pop", "fetch"} => alive[t]
    /\ pc[t] \in {"push", "handover"} => alive[Other(t)]

\* When fsDestroy returns, no work is left half done (fs.c 57-67).
DestroyDrains == pc["client"] = "gone" => Pending = {}

\* The two workers never wait for each other's queue at once: neither could
\* ever go on (fs.c 188, 266).
NoCircularWait ==
  ~ \A t \in Workers : pc[t] = "push" /\ ~CanPush(queue[Other(t)])

\* A queued work object is worked off, even among others that fail.
Settles == \A r \in Requests : (r \in Submitted) ~> (r \in Done \cup Failed)

\* "Block for the file work to complete": every work object completes.
Completes == \A r \in Requests : (r \in Submitted) ~> (r \in Done)

\* fsDestroy returns.
DestroyReturns == (pc["client"] = "stopCompress") ~> (pc["client"] = "gone")

\* What a caller of fs.h can tell of a work object.
WorkState ==
  [r \in Requests |->
     IF r \notin Submitted THEN "new"
     ELSE IF mem[r]["work"] # "fs" THEN "freed"
     ELSE IF work[r].done THEN "complete" ELSE "pending"]

WorkOutcome ==
  [r \in Requests |->
     IF ~work[r].done THEN "none" ELSE IF work[r].result = 0 THEN "ok" ELSE "error"]

\* Every behaviour is one that fs.h promises (fs.h 29-58): a work object is
\* queued, completes once and for good, and is freed only after that.
AW == INSTANCE AsyncWork WITH state <- WorkState, outcome <- WorkOutcome
ImplementsAsyncWork == AW!Spec
=============================================================================
