------------------------------ MODULE Renderer ------------------------------
(***************************************************************************)
(* renderer.c with the frame functions of gpu.c (638-734).  The main       *)
(* thread queues draw and frame commands, the render thread takes them     *)
(* from the back of the queue, records command buffers and keeps GPU       *)
(* objects in three caches, and the GPU works off what was submitted, in   *)
(* order and in its own time.  An entry nobody used for gpu_frame_count    *)
(* frames is reclaimed.                                                    *)
(*                                                                         *)
(* The structure and the queue come from heapAlloc uninitialised: what was *)
(* never written reads as anything (Garbage, of DequeOps), each time it is *)
(* read.  Where the code follows such a pointer, or one to what it has     *)
(* freed, fault says why and the model stops.                              *)
(***************************************************************************)
EXTENDS DequeOps, Integers, Sequences, FiniteSets

CONSTANTS
  Models,          \* what may be drawn: [entity, mesh, shader]
  None,            \* NULL
  gpu_frame_count, \* the images of the swap chain
  MaxDraw,         \* RENDERER_MAX_DRAW_AMOUNT
  Failures,        \* where a call to Vulkan may fail: "create", "frame", "draw", "map"
  MaxPushes        \* bound: commands the main thread queues

F == gpu_frame_count

\* The assertions of lines 187, 217 and 240: a cache has room for every key.
Keys(field) == {m[field] : m \in Models}
ASSUME RoomAssumption ==
  /\ MaxDraw \in Nat
  /\ \A field \in {"entity", "mesh", "shader"} :
       IsFiniteSet(Keys(field)) /\ Cardinality(Keys(field)) <= MaxDraw

\* The GPU objects, named by what they were made for and when, and what is
\* recorded in a command buffer.  NULL is neither.
Things(kind, keys) == {kind} \X keys \X Nat
AllThings == Things("instance", Keys("entity")) \cup Things("mesh", Keys("mesh"))
             \cup Things("shader", Keys("shader"))
Pointers == AllThings \cup {None}
Recordings ==
  [pipeline : Pointers, mesh : Pointers,
   draws : SUBSET [model : Models, wanted : SUBSET Pointers, used : SUBSET Pointers]]
ASSUME NullAssumption ==
  None \notin AllThings \cup Recordings /\ Garbage \notin AllThings \cup {None}

ASSUME FramesAssumption ==
  /\ F \in Nat \ {0} /\ MaxPushes \in Nat
  /\ Failures \subseteq {"create", "frame", "draw", "map"}

VARIABLES
  queue, pushed,            \* the command queue, and how much was put on it
  mpc, mcmd, mslot,         \* the main thread: next step, command, claimed slot
  rpc, rcmd, rslot,         \* the render thread, likewise
  frame_counter,
  instances, meshes, shaders,  \* the caches: count, and slots 0 .. MaxDraw
  live,                     \* the GPU objects that exist
  recording,                \* the command buffer being recorded, or None
  p_pipeline, p_mesh,       \* what the thread believes is bound in it
  pending,                  \* submissions the GPU has not completed
  cmd_buff,                 \* the frame each command buffer was last begun for
  data,                     \* the frame whose data each uniform buffer holds, or -1
  fault

main   == <<mpc, mcmd, mslot, pushed>>
caches == <<instances, meshes, shaders, live, data>>
frames == <<recording, p_pipeline, p_mesh, cmd_buff, frame_counter>>
vars   == <<queue, main, rpc, rcmd, rslot, caches, frames, pending, fault>>

Frames == 0 .. F - 1
index  == frame_counter % F

Draw(m)  == [type |-> "draw", model |-> m, id |-> pushed, spent |-> FALSE]
Complete == [type |-> "complete", model |-> None, id |-> pushed, spent |-> FALSE]
Stop     == [type |-> "NULL", model |-> None, id |-> pushed, spent |-> FALSE]

Unwritten == [info |-> None, obj |-> Garbage, seen |-> 0]
Empty == [count |-> 0, slot |-> [x \in 0 .. MaxDraw |-> Unwritten]]

\* rendererCreate, up to the thread it starts.
Init ==
  /\ queue = NewDeque /\ pushed = 0
  /\ mpc = "run" /\ mcmd = None /\ mslot = 0
  /\ rpc = "create" /\ rcmd = None /\ rslot = 0
  /\ frame_counter = 0
  /\ instances = Empty /\ meshes = Empty /\ shaders = Empty
  /\ live = {} /\ data = << >>
  /\ recording = None /\ p_pipeline = None /\ p_mesh = None
  /\ pending = << >> /\ cmd_buff = [i \in Frames |-> -1]
  /\ fault = "none"

-----------------------------------------------------------------------------
(* The main thread. *)

StartPush(command, next) ==
  /\ mpc = "run" /\ pushed < MaxPushes /\ CanPush(queue)
  /\ queue' = PushClaim(queue) /\ mslot' = queue.tail
  /\ mcmd' = command /\ pushed' = pushed + 1
  /\ mpc' = next
  /\ UNCHANGED <<rpc, rcmd, rslot, caches, frames, pending, fault>>

\* The command and its copy of the uniform data are made before the push.
rendererModelAdd == \E m \in Models : StartPush(Draw(m), "write")

rendererFrameDone == StartPush(Complete, "write")

\* rendererDestroy pushes NULL and waits for the thread to end.
rendererDestroy == StartPush(Stop, "last")

EndPush ==
  /\ mpc \in {"write", "last"}
  /\ queue' = PushWrite(queue, mslot, mcmd)
  /\ mpc' = IF mpc = "last" THEN "join" ELSE "run"
  /\ mcmd' = None /\ mslot' = 0
  /\ UNCHANGED <<pushed, rpc, rcmd, rslot, caches, frames, pending, fault>>

Join ==
  /\ mpc = "join" /\ rpc = "gone"
  /\ mpc' = "gone"
  /\ UNCHANGED <<queue, pushed, mcmd, mslot, rpc, rcmd, rslot, caches, frames, pending, fault>>

-----------------------------------------------------------------------------
(* The caches. *)

Used(c) == 0 .. c.count - 1
Hits(c, key) == {x \in Used(c) : c.slot[x].info = key}

\* The slot of a key: the one that has it, or the first unused one.
SlotOf(c, key) == IF Hits(c, key) = {} THEN c.count ELSE CHOOSE x \in Hits(c, key) : TRUE

\* An object is named by what it was made for, and when.
Made(kind, key) == <<kind, key, frame_counter>>

\* A new shader or mesh is created only if the pointer in the slot is NULL, as one
\* never written may be.
Object(c, kind, key) ==
  LET there == c.slot[SlotOf(c, key)].obj IN
  IF there \in {None, Garbage} \/ (kind = "instance" /\ Hits(c, key) = {}) THEN Made(kind, key) ELSE there

\* Bug: a hit does not refresh the frame_counter of its entry.
NotTouched(c, kind, key) ==
  [count |-> IF Hits(c, key) = {} THEN c.count + 1 ELSE c.count,
   slot |-> [c.slot EXCEPT ![SlotOf(c, key)] =
               [info |-> key, obj |-> Object(c, kind, key),
                seen |-> IF Hits(c, key) = {} THEN frame_counter ELSE @.seen]]]

\* renderer{Shader,Mesh,Instance}ModelCommand: find or make the entry of a key.
Touched(c, kind, key) ==
  [count |-> IF Hits(c, key) = {} THEN c.count + 1 ELSE c.count,
   slot |-> [c.slot EXCEPT ![SlotOf(c, key)] =
               [info |-> key, obj |-> Object(c, kind, key), seen |-> frame_counter]]]

\* A new entry that takes over the pointer of the slot's former user.
TakesOver(c, key) == Hits(c, key) = {} /\ c.slot[c.count].obj \notin {None, Garbage}

\* A new entry in a slot that was never written.
Fresh(c, key) == Hits(c, key) = {} /\ c.slot[c.count].obj = Garbage

\* Bug: an entry is stale one frame early.
StaleEarly(seen, now) == seen + F <= now + 1

Stale(seen, now) == seen + F <= now

\* Bug: the last entry is not moved to the freed slot.
NotMoved(c, x) == [c EXCEPT !.count = @ - 1]

\* The last used entry takes the place of a reclaimed one.
Removed(c, x) == [c EXCEPT !.slot[x] = c.slot[c.count - 1], !.count = @ - 1]

\* A slot that was never written may look stale: see ReadsPast.
LooksStale(entry, now) == entry.obj # Garbage /\ Stale(entry.seen, now)

\* One round of a loop of rendererDestroyStaleData.  past says that a slot that is
\* not in use looked stale.
Sweep(s, x, now) ==
  IF s.past \/ ~LooksStale(s.cache.slot[x], now) THEN s
  ELSE IF x \notin Used(s.cache) THEN [s EXCEPT !.past = TRUE]
  ELSE [cache |-> Removed(s.cache, x), past |-> FALSE, gone |-> s.gone \cup {s.cache.slot[x].obj}]

\* The loop: x runs down from count, which is one past the entries in use.
Swept(cache, now) ==
  LET rounds[n \in 0 .. cache.count + 1] ==
        IF n = 0 THEN [cache |-> cache, past |-> FALSE, gone |-> {}]
        ELSE Sweep(rounds[n - 1], cache.count + 1 - n, now)
  IN rounds[cache.count + 1]

\* rendererDestroyStaleData at frame now.
DestroyStaleData(now) ==
  LET i == Swept(instances, now)
      m == Swept(meshes, now)
      s == Swept(shaders, now)
      gone == i.gone \cup m.gone \cup s.gone IN
  /\ instances' = i.cache /\ meshes' = m.cache /\ shaders' = s.cache
  /\ live' = live \ gone
  /\ data' = [o \in DOMAIN data \ gone |-> data[o]]
  /\ fault' = IF i.past \/ m.past \/ s.past THEN "past" ELSE fault

-----------------------------------------------------------------------------
(* The render thread. *)

\* gpuCreate gives the thread its frames; when it fails, line 119 follows NULL.
Create ==
  /\ rpc = "create"
  /\ \/ rpc' = "pop" /\ UNCHANGED fault
     \/ "create" \in Failures /\ rpc' = "gone" /\ fault' = "no gpu"
  /\ UNCHANGED <<queue, main, rcmd, rslot, caches, frames, pending>>

\* dequePopBack, first half.
Pop ==
  /\ rpc = "pop" /\ CanPop(queue)
  /\ queue' = PopBackClaim(queue) /\ rslot' = queue.tail
  /\ rpc' = "fetch"
  /\ UNCHANGED <<main, rcmd, caches, frames, pending, fault>>

\* ... and second half.  A slot that was never written may read as NULL.
Fetch ==
  /\ rpc = "fetch"
  /\ queue' = PopRead(queue) /\ rslot' = 0
  /\ rcmd' = IF queue.slots[rslot] = Garbage THEN None ELSE queue.slots[rslot]
  /\ rpc' = IF rcmd' = None \/ rcmd'.type = "NULL" THEN "drain" ELSE "handle"
  /\ UNCHANGED <<main, caches, frames, pending, fault>>

\* ... or as a pointer to anywhere, which line 131 follows.
FetchWild ==
  /\ rpc = "fetch" /\ queue.slots[rslot] = Garbage
  /\ fault' = "wild" /\ rpc' = "gone"
  /\ UNCHANGED <<queue, main, rcmd, rslot, caches, frames, pending>>

\* Bug: a new command buffer is thought to have the old one's bindings.
StillBound(what) == what

\* p_pipeline and p_mesh at the end of a frame.
Unbound(what) == None

\* gpuBeginFrameUpdate, before the first command of a frame: nothing is bound in
\* the command buffer, and nothing waits for its last submission.
Begun == IF recording = None
         THEN [pipeline |-> None, mesh |-> None, draws |-> {}]
         ELSE recording

\* The buffers a call of gpuUpdateUniformBuffer has filled: all of them, unless
\* vkMapMemory fails, of which nobody hears (gpu.c 956).
Filled(buffers) == IF "map" \in Failures THEN SUBSET buffers ELSE {buffers}

Draws == rpc = "handle" /\ rcmd.type = "draw" /\ ~rcmd.spent

\* A draw command.
DrawModel ==
  /\ Draws
  /\ LET m == rcmd.model
         pipeline == Object(shaders, "shader", m.shader)
         mesh     == Object(meshes, "mesh", m.mesh)
         instance == Object(instances, "instance", m.entity)
         there == instance \in live
         old == IF there THEN data[instance] ELSE [f \in Frames |-> -1] IN
     /\ shaders'   = Touched(shaders, "shader", m.shader)
     /\ meshes'    = Touched(meshes, "mesh", m.mesh)
     /\ instances' = Touched(instances, "instance", m.entity)
     /\ live' = live \cup {pipeline, mesh, instance}
     \* a new instance gets buffers for all frames; then the one of this frame is updated
     /\ \E filled \in Filled(IF there THEN {index} ELSE Frames) :
          data' = [o \in DOMAIN data \cup {instance} |->
                     IF o = instance
                     THEN [f \in Frames |-> IF f \in filled THEN frame_counter ELSE old[f]]
                     ELSE data[o]]
     /\ fault' = IF TakesOver(shaders, m.shader) \/ TakesOver(meshes, m.mesh)
                 THEN "leftover" ELSE fault
     /\ LET bound == [Begun EXCEPT
              !.pipeline = IF p_pipeline # pipeline THEN pipeline ELSE @,
              !.mesh     = IF p_mesh # mesh THEN mesh ELSE @]
        IN recording' = [bound EXCEPT !.draws = @ \cup {[model |-> m,
             wanted |-> {pipeline, mesh, instance},
             used   |-> {bound.pipeline, bound.mesh, instance}]}]
     /\ p_pipeline' = pipeline /\ p_mesh' = mesh
  /\ cmd_buff' = [cmd_buff EXCEPT ![index] = frame_counter]
  \* heapFree of the copied uniform data; the command stays allocated, and in its slot
  /\ queue' = [queue EXCEPT !.slots = [s \in DOMAIN @ |->
                 IF @[s] = rcmd THEN [rcmd EXCEPT !.spent = TRUE] ELSE @[s]]]
  /\ rcmd' = None /\ rpc' = "pop"
  /\ UNCHANGED <<main, rslot, frame_counter, pending>>

\* A new shader or mesh in memory that was never written, and was not NULL there:
\* line 150 or 154 binds it.
DrawWild ==
  /\ Draws
  /\ Fresh(shaders, rcmd.model.shader) \/ Fresh(meshes, rcmd.model.mesh)
  /\ fault' = "leftover" /\ rpc' = "gone"
  /\ UNCHANGED <<queue, main, rcmd, rslot, caches, frames, pending>>

\* The creation of a shader, pipeline, mesh, uniform buffer or descriptor set fails:
\* gpuError frees the gpu, and the thread goes on to use it.
DrawFails ==
  /\ Draws /\ "draw" \in Failures
  /\ \/ Object(shaders, "shader", rcmd.model.shader) \notin live
     \/ Object(meshes, "mesh", rcmd.model.mesh) \notin live
     \/ Object(instances, "instance", rcmd.model.entity) \notin live
  /\ fault' = "gpu" /\ rpc' = "gone"
  /\ UNCHANGED <<queue, main, rcmd, rslot, caches, frames, pending>>

\* A draw command that comes a second time: its data was freed.
DrawAgain ==
  /\ rpc = "handle" /\ rcmd.type = "draw" /\ rcmd.spent
  /\ fault' = "freed twice" /\ rpc' = "gone"
  /\ UNCHANGED <<queue, main, rcmd, rslot, caches, frames, pending>>

\* Bug: the fence is not waited for.
NoFence(i) == TRUE

\* vkWaitForFences: the last submission from this frame's buffer is complete.
Signaled(i) == \A n \in 1 .. Len(pending) : pending[n].frame % F # i

Uses(buffer) == UNION {d.used : d \in buffer.draws}

\* A frame command: gpuEndFrameUpdate submits, and what has not been used for
\* gpu_frame_count frames is destroyed.
FrameComplete ==
  /\ rpc = "handle" /\ rcmd.type = "complete"
  /\ Signaled(index)
  /\ cmd_buff' = [cmd_buff EXCEPT ![index] = frame_counter]
  /\ pending' = Append(pending, [frame |-> frame_counter, uses |-> Uses(Begun)])
  /\ recording' = None /\ p_pipeline' = Unbound(p_pipeline) /\ p_mesh' = Unbound(p_mesh)
  /\ DestroyStaleData(frame_counter)
  /\ frame_counter' = frame_counter + 1
  /\ rcmd' = None /\ rpc' = "pop"
  /\ UNCHANGED <<queue, main, rslot>>

\* A call to Vulkan at the begin or the end of a frame fails: gpuError frees the
\* gpu, and the thread goes on to use it.
FrameFails ==
  /\ rpc = "handle" /\ (recording = None \/ rcmd.type = "complete") /\ "frame" \in Failures
  /\ fault' = "gpu" /\ rpc' = "gone"
  /\ UNCHANGED <<queue, main, rcmd, rslot, caches, frames, pending>>

\* NULL ends the thread: wait for the GPU, then everything is stale.
Drain ==
  /\ rpc = "drain" /\ pending = << >>
  /\ frame_counter' = frame_counter + F + 1
  /\ DestroyStaleData(frame_counter')
  /\ rpc' = "gone"
  /\ UNCHANGED <<queue, main, rcmd, rslot, recording, p_pipeline, p_mesh, cmd_buff, pending>>

\* rendererDestroyStaleData reads the slot past the entries in use.  One that was
\* never written may look stale, and what it points to is destroyed.
ReadsPast ==
  /\ \/ rpc = "handle" /\ rcmd.type = "complete" /\ Signaled(index)
     \/ rpc = "drain" /\ pending = << >>
  /\ \E c \in {instances, meshes, shaders} : c.slot[c.count].obj = Garbage
  /\ fault' = "past" /\ rpc' = "gone"
  /\ UNCHANGED <<queue, main, rcmd, rslot, caches, frames, pending>>

\* The GPU completes the oldest submission and signals its fence.
GpuCompletes ==
  /\ pending # << >>
  /\ pending' = Tail(pending)
  /\ UNCHANGED <<queue, main, rpc, rcmd, rslot, caches, frames, fault>>

Render ==
  \/ Create \/ Pop \/ Fetch \/ FetchWild
  \/ DrawModel \/ DrawWild \/ DrawFails \/ DrawAgain
  \/ FrameComplete \/ FrameFails \/ Drain \/ ReadsPast

Next ==
  /\ fault = "none"
  /\ \/ rendererModelAdd \/ rendererFrameDone \/ rendererDestroy \/ EndPush \/ Join
     \/ Render
     \/ GpuCompletes

Spec == Init /\ [][Next]_vars

-----------------------------------------------------------------------------
(* Properties. *)

Objects(c) == {c.slot[x].obj : x \in Used(c)}

\* The GPU objects that exist are those the caches hold, each held by one
\* entry of one key, and none is left when the thread has ended: reclaiming
\* moves entries about and neither leaks nor loses one.
CachesOwnLive ==
  fault = "none" =>
    /\ live = Objects(instances) \cup Objects(meshes) \cup Objects(shaders)
    /\ \A c \in {instances, meshes, shaders} :
         \A x, y \in Used(c) : x # y =>
           c.slot[x].info # c.slot[y].info /\ c.slot[x].obj # c.slot[y].obj
    /\ rpc = "gone" => live = {}

\* No object is destroyed that a submission still in flight uses, the one of
\* this very frame included: the age test of rendererDestroyStaleData and the
\* fence waited for in gpuEndFrameUpdate together are enough.
ReclaimedIdle ==
  [][\A o \in live \ live' : \A n \in 1 .. Len(pending') : o \notin pending'[n].uses]_vars

\* Command and uniform buffers are rewritten before their fence is waited for
\* (gpu.c 646, renderer.c 258), so the GPU may see the submission of
\* gpu_frame_count frames ago change.  All later ones are left alone until the
\* GPU is done with them: their command buffer is not begun anew, and no data of a
\* later frame gets into their uniform buffers.
PendingIntact ==
  fault = "none" =>
    \A n \in 1 .. Len(pending) :
      LET s == pending[n] IN
      s.frame # frame_counter - F =>
        /\ cmd_buff[s.frame % F] = s.frame
        /\ \A o \in s.uses \cap DOMAIN data : data[o][s.frame % F] <= s.frame

\* A draw uses the pipeline and mesh of its own model although binding is
\* skipped when the thread believes they are bound already.
BoundAsWanted == recording # None => \A d \in recording.draws : d.used = d.wanted

\* A model is drawn with objects made for it.  Line 186: "initialize a shader if
\* it does not exist".
DrawsItsOwn ==
  recording # None => \A d \in recording.draws : \A o \in d.used :
    o[2] \in {d.model.entity, d.model.mesh, d.model.shader}
=============================================================================
