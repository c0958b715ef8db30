--------------------------------- MODULE Gpu ---------------------------------
(***************************************************************************)
(* gpu.c: what gpuCreate, the objects made with a gpu and gpuDestroy       *)
(* create and give back.  Each function is a list of steps that Step does  *)
(* in order: one creates or destroys a Vulkan object or a block of memory, *)
(* or asks Vulkan for something.  Every call that returns a result may     *)
(* fail: gpuError then destroys the gpu, whatever there is of it, and the  *)
(* function returns NULL.                                                  *)
(*                                                                         *)
(* The caller is the render thread, with the calls renderer.c makes; what  *)
(* it does with a gpu that is gone is in Renderer.                         *)
(***************************************************************************)
EXTENDS Naturals, Sequences, FiniteSets

CONSTANTS
  Objects,      \* what the caller may make
  Kind,         \* its kind: which pair of functions makes and destroys it
  Needs,        \* the objects it is made from
  frame_count,  \* the images of the swap chain
  maxSets       \* of the descriptor pool

Kinds == {"shader", "pipeline", "mesh", "uniform_buffer", "descriptor"}

ASSUME GpuAssumption ==
  /\ frame_count \in Nat \ {0} /\ maxSets \in Nat
  /\ Kind \in [Objects -> Kinds] /\ Needs \in [Objects -> SUBSET Objects]
  /\ Objects \cap {"gpu", "gpuCreate", "gpuDestroy", "none", "gone"} = {}

VARIABLES
  call,     \* what runs: "gpuCreate", "gpuDestroy", an object's function, or "none"
  todo,     \* its remaining steps
  handles,  \* what was created: not NULL in its structure
  live,     \* what of it still exists
  made,     \* the objects the caller holds
  failed,   \* gpuError has been called
  misused   \* history: what a call was given that existed no more

vars == <<call, todo, handles, live, made, failed, misused>>

\* A field of gpu_t, of its frame f, or of an object.
Field(name)    == [of |-> "gpu", n |-> 0, name |-> name]
Frame(f, name) == [of |-> "gpu", n |-> f, name |-> name]
Part(o, name)  == [of |-> o, n |-> 0, name |-> name]

Create(r) == [do |-> "create", res |-> r, with |-> {}]        \* may fail
Alloc(r)  == [do |-> "alloc", res |-> r, with |-> {}]         \* heapAlloc
Ask       == [do |-> "ask", res |-> Field("none"), with |-> {}] \* may fail
Free(r)   == [do |-> "destroy", res |-> r, with |-> {}]       \* heapFree
Destroy(r, with) == [do |-> "destroy", res |-> r, with |-> with]

device == {Field("logic_dev")}

\* A step for every element of a sequence, and the steps of a list for every frame.
Each(s, Of(_)) == [k \in DOMAIN s |-> Of(s[k])]
CreateFields(names) == Each(names, LAMBDA f : Create(Field(f)))
EachFrame(Of(_)) ==
  LET k == Len(Of(1)) IN
  [n \in 1 .. k * frame_count |-> Of((n - 1) \div k + 1)[((n - 1) % k) + 1]]

-----------------------------------------------------------------------------
(* gpuCreate. *)

DeviceSteps ==
  <<Alloc(Field("gpu")), Create(Field("inst")),
    Ask, Alloc(Field("phys_devices")), Ask, Free(Field("phys_devices")),
    Ask, Alloc(Field("queue_family")), Free(Field("queue_family")), Ask,
    Create(Field("logic_dev"))>>

\* The result of the second vkGetSwapchainImagesKHR is not looked at.
SwapChainSteps ==
  <<Create(Field("surface")), Ask, Create(Field("swap_chain")), Ask,
    Alloc(Field("frames")), Alloc(Field("images"))>>
  \o EachFrame(LAMBDA f : <<Create(Frame(f, "view"))>>)
  \o <<Free(Field("images"))>>

DepthSteps ==
  CreateFields(<<"depth_stencil_img", "depth_stencil_mem">>) \o <<Ask>>
  \o CreateFields(<<"depth_stencil_view">>)

RenderPassSteps ==
  CreateFields(<<"render_pass">>) \o EachFrame(LAMBDA f : <<Create(Frame(f, "frame_buff"))>>)

PoolSteps == CreateFields(<<"present_comp_sem", "render_comp_sem", "desc_pool", "cmd_pool">>)

CommandSteps ==
  EachFrame(LAMBDA f :
    <<Alloc(Frame(f, "cmd_buff")), Create(Frame(f, "buffer")), Create(Frame(f, "fence"))>>)

layouts == <<"bindings_1", "attributes_1", "bindings_2", "attributes_2">>

CreateSteps ==
  DeviceSteps \o SwapChainSteps \o DepthSteps \o RenderPassSteps \o PoolSteps
  \o CommandSteps \o Each(layouts, LAMBDA l : Alloc(Field(l)))

-----------------------------------------------------------------------------
(* gpuDestroy: every field that is not NULL, but for inst and render_pass. *)

DestroyLayouts == Each(layouts, LAMBDA l : Free(Field(l)))

DestroyFields ==
  Each(<<"depth_stencil_img", "depth_stencil_view", "depth_stencil_mem",
         "present_comp_sem", "render_comp_sem", "swap_chain", "desc_pool", "cmd_pool">>,
       LAMBDA f : Destroy(Field(f), device))

DestroyFrames ==
  EachFrame(LAMBDA f :
    <<Destroy(Frame(f, "fence"), device), Destroy(Frame(f, "frame_buff"), device),
      Destroy(Frame(f, "view"), device),
      Destroy(Frame(f, "buffer"), device \cup {Field("cmd_pool")}),
      Free(Frame(f, "cmd_buff"))>>)
  \o <<Free(Field("frames"))>>

DestroyDevice ==
  <<Destroy(Field("logic_dev"), {}), Destroy(Field("surface"), {Field("inst")}),
    Free(Field("gpu"))>>

\* Bug: the device goes before the frames.
DeviceFirst == DestroyLayouts \o DestroyFields \o DestroyDevice \o DestroyFrames

\* Bug: the frames are freed without what they point to.
FramesForgotten == DestroyLayouts \o DestroyFields \o <<Free(Field("frames"))>> \o DestroyDevice

DestroySteps == DestroyLayouts \o DestroyFields \o DestroyFrames \o DestroyDevice

-----------------------------------------------------------------------------
(* The objects. *)

Parts(o, names)   == <<Alloc(Part(o, "block"))>> \o Each(names, LAMBDA p : Create(Part(o, p)))
NoParts(o, names) == Each(names, LAMBDA p : Destroy(Part(o, p), device)) \o <<Free(Part(o, "block"))>>

gpuCreateShader(o)         == Parts(o, <<"vtx_module", "frag_module", "descriptor_set_layout">>)
gpuCreatePipeline(o)       == Parts(o, <<"pipeline_layout", "pipeline">>)
gpuCreateUniformBuffer(o)  == Parts(o, <<"buffer", "dev_mem">>) \o <<Ask>>
gpuCreateDescriptorSets(o) == Parts(o, <<"set">>)
\* The vertices, then the indices: memory is mapped, filled and bound.
gpuCreateMesh(o) ==
  Parts(o, <<"vtx_buff", "vtx_mem">>) \o <<Ask, Ask>>
  \o Each(<<"idx_buff", "idx_mem">>, LAMBDA p : Create(Part(o, p))) \o <<Ask, Ask>>

gpuDestroyShader(o)        == NoParts(o, <<"vtx_module", "frag_module", "descriptor_set_layout">>)
gpuDestroyPipeline(o)      == NoParts(o, <<"pipeline_layout", "pipeline">>)
gpuDestroyUniformBuffer(o) == NoParts(o, <<"buffer", "dev_mem">>)
gpuDestroyMesh(o)          == NoParts(o, <<"idx_buff", "vtx_buff", "idx_mem", "vtx_mem">>)
gpuDestroyDescriptorSets(o) ==
  <<Destroy(Part(o, "set"), device \cup {Field("desc_pool")}), Free(Part(o, "block"))>>

MakeSteps(o) ==
  CASE Kind[o] = "shader"         -> gpuCreateShader(o)
    [] Kind[o] = "pipeline"       -> gpuCreatePipeline(o)
    [] Kind[o] = "uniform_buffer" -> gpuCreateUniformBuffer(o)
    [] Kind[o] = "mesh"           -> gpuCreateMesh(o)
    [] Kind[o] = "descriptor"     -> gpuCreateDescriptorSets(o)

UnmakeSteps(o) ==
  CASE Kind[o] = "shader"         -> gpuDestroyShader(o)
    [] Kind[o] = "pipeline"       -> gpuDestroyPipeline(o)
    [] Kind[o] = "uniform_buffer" -> gpuDestroyUniformBuffer(o)
    [] Kind[o] = "mesh"           -> gpuDestroyMesh(o)
    [] Kind[o] = "descriptor"     -> gpuDestroyDescriptorSets(o)

-----------------------------------------------------------------------------
(* The caller. *)

Init ==
  /\ call = "gpuCreate" /\ todo = CreateSteps
  /\ handles = {} /\ live = {} /\ made = {}
  /\ failed = FALSE /\ misused = {}

Make(o) ==
  /\ call = "none" /\ o \notin made /\ Needs[o] \subseteq made
  /\ call' = o /\ todo' = MakeSteps(o)
  /\ UNCHANGED <<handles, live, made, failed, misused>>

Unmake(o) ==
  /\ call = "none" /\ o \in made
  /\ call' = o /\ todo' = UnmakeSteps(o) /\ made' = made \ {o}
  /\ UNCHANGED <<handles, live, failed, misused>>

\* The render thread destroys the gpu when it has destroyed all it made.
gpuDestroy ==
  /\ call = "none" /\ made = {}
  /\ call' = "gpuDestroy" /\ todo' = DestroySteps
  /\ UNCHANGED <<handles, live, made, failed, misused>>

gpuError ==
  /\ ~failed /\ failed' = TRUE
  /\ call' = "gpuDestroy" /\ todo' = DestroySteps
  /\ UNCHANGED <<handles, live, made, misused>>

\* gpuBeginFrameUpdate or gpuEndFrameUpdate fails.
FrameFails == call = "none" /\ gpuError

-----------------------------------------------------------------------------
(* The steps. *)

\* What vanishes with r.
Vanish(r) ==
  CASE r = Field("cmd_pool")  -> {r} \cup {Frame(f, "buffer") : f \in 1 .. frame_count}
    [] r = Field("desc_pool") -> {r} \cup {Part(o, "set") : o \in Objects}
    [] OTHER                  -> {r}

\* The pool has room for the set a step allocates.
HasRoom(r) == r.name = "set" => Cardinality({s \in live : s.name = "set"}) < maxSets

Succeeds ==
  LET s == Head(todo) IN
  /\ s.do \in {"alloc", "create", "ask"}
  /\ HasRoom(s.res)
  /\ handles' = IF s.do = "ask" THEN handles ELSE handles \cup {s.res}
  /\ live'    = IF s.do = "ask" THEN live ELSE live \cup {s.res}
  /\ UNCHANGED misused

\* Free and vkFreeCommandBuffers go by the block of the command buffer, all
\* others by their own handle.
IsThere(r) == (IF r.name = "buffer" /\ r.of = "gpu" THEN Frame(r.n, "cmd_buff") ELSE r) \in handles

Destroys ==
  LET s == Head(todo) IN
  /\ s.do = "destroy"
  /\ IF IsThere(s.res)
     THEN /\ misused' = misused \cup ((handles \cap ({s.res} \cup s.with)) \ live)
          /\ live' = live \ Vanish(s.res)
          \* an object may be made again
          /\ handles' = IF s.res.of = "gpu" THEN handles ELSE handles \ {s.res}
     ELSE UNCHANGED <<misused, live, handles>>

Step ==
  /\ todo # << >>
  /\ Succeeds \/ Destroys
  /\ todo' = Tail(todo)
  /\ UNCHANGED <<call, made, failed>>

\* A call of Vulkan fails.
Fails == todo # << >> /\ Head(todo).do \in {"create", "ask"} /\ gpuError

\* A function returns.
Return ==
  /\ todo = << >> /\ call \notin {"none", "gone"}
  /\ call' = IF call = "gpuDestroy" THEN "gone" ELSE "none"
  /\ made' = IF call \in Objects /\ Part(call, "block") \in handles
             THEN made \cup {call} ELSE made
  /\ UNCHANGED <<todo, handles, live, failed, misused>>

Next ==
  \/ \E o \in Objects : Make(o) \/ Unmake(o)
  \/ gpuDestroy \/ FrameFails
  \/ Step \/ Fails \/ Return

Spec == Init /\ [][Next]_vars

-----------------------------------------------------------------------------
(* Properties. *)

\* Where ever a call fails, tearing down uses nothing that is destroyed already
\* but the command pool and its buffers, freed with the pool (gpu.c 604) and
\* once more one by one (616).
HandlesAlive ==
  misused \subseteq {Field("cmd_pool")} \cup {Frame(f, "buffer") : f \in 1 .. frame_count}

\* A gpu that is gone leaves its instance and render pass.  One that failed
\* leaves the objects its caller held or was making too, and the list it was
\* about to read.
OnlyForgottenLeft ==
  call = "gone" =>
    \A r \in live :
      \/ r \in {Field("inst"), Field("render_pass")}
      \/ failed /\ (r.of # "gpu" \/ r \in {Field("phys_devices"), Field("images")})
=============================================================================
