------------------------------ MODULE GpuProofs ------------------------------
(***************************************************************************)
(* What Gpu promises for any objects made from any others, any number of   *)
(* frames and any room in the descriptor pool, wherever a call fails.      *)
(***************************************************************************)
EXTENDS Gpu, NatFacts, SequenceTheorems

\* What the steps of a list destroy, and what a step is given.
Given(s)   == {s[i].res : i \in {j \in 1 .. Len(s) : s[j].do = "destroy"}}
Uses(step) == {step.res} \cup step.with

Left    == {Field("inst"), Field("render_pass")}
Lists   == {Field("phys_devices"), Field("images")}
Scratch == Lists \cup {Field("queue_family")}
Torn    == Given(DestroySteps)

\* The command pool takes its buffers with it.
Excused == {Field("cmd_pool")} \cup {Frame(f, "buffer") : f \in 1 .. frame_count}

LayoutNames == {"bindings_1", "attributes_1", "bindings_2", "attributes_2"}
FieldNames ==
  {"depth_stencil_img", "depth_stencil_view", "depth_stencil_mem",
   "present_comp_sem", "render_comp_sem", "swap_chain", "desc_pool", "cmd_pool"}
FrameNames == {"fence", "frame_buff", "view", "buffer", "cmd_buff"}
LastNames  == {"frames", "logic_dev", "surface", "gpu"}
OtherNames == {"none", "inst", "render_pass", "phys_devices", "images", "queue_family"}
PartNames ==
  {"block", "vtx_module", "frag_module", "descriptor_set_layout", "pipeline_layout", "pipeline",
   "buffer", "dev_mem", "set", "vtx_buff", "vtx_mem", "idx_buff", "idx_mem"}
Names ==
  LayoutNames \cup FieldNames \cup FrameNames \cup LastNames \cup OtherNames \cup PartNames

Resources == [of : Objects \cup {"gpu"}, n : 0 .. frame_count, name : Names]
StepSet ==
  [do : {"create", "alloc", "ask", "destroy"}, res : Resources, with : SUBSET Resources]
Calls == Objects \cup {"gpuCreate", "gpuDestroy", "none", "gone"}

Types ==
  /\ call \in Calls /\ todo \in Seq(StepSet)
  /\ failed \in BOOLEAN

-----------------------------------------------------------------------------
(* Facts about what is left of a list.  Each of them holds of the rest of a *)
(* list if it holds of the list.                                            *)

\* No step needs what an earlier one destroys.
InOrder(s) ==
  \A i, j \in 1 .. Len(s) :
    i < j /\ s[i].do = "destroy" /\ s[j].do = "destroy"
      => Uses(s[j]) \cap Vanish(s[i].res) \subseteq Excused

\* gpuCreate makes what gpuDestroy knows, and its own scratch lists.
CreatesKnown(s) ==
  \A i \in 1 .. Len(s) :
    /\ s[i].do \in {"create", "alloc"} => s[i].res \in Torn \cup Left \cup Scratch
    /\ s[i].do = "destroy" => s[i].res \in Scratch /\ s[i].with = {}

\* It frees these later on, and one of them at once.
FreesScratch(s) ==
  \A i \in 1 .. Len(s) :
    s[i].do # "destroy" /\ s[i].res \in Scratch =>
      \E j \in i + 1 .. Len(s) :
        /\ s[j].do = "destroy" /\ s[j].res = s[i].res
        /\ s[i].res = Field("queue_family") => j = i + 1

\* The block of a command buffer comes before the command buffer.
BlockFirst(s, blocks) ==
  \A i \in 1 .. Len(s) :
    s[i].do # "destroy" /\ s[i].res.of = "gpu" /\ s[i].res.name = "buffer" =>
      \/ Frame(s[i].res.n, "cmd_buff") \in blocks
      \/ i > 1 /\ s[i - 1].do = "alloc" /\ s[i - 1].res = Frame(s[i].res.n, "cmd_buff")

-----------------------------------------------------------------------------
(* The inductive invariant. *)

\* Nothing a step destroys or needs for that is gone.
Usable ==
  \A i \in 1 .. Len(todo) :
    todo[i].do = "destroy" => Uses(todo[i]) \cap (handles \ live) \subseteq Excused

Creating ==
  /\ CreatesKnown(todo) /\ FreesScratch(todo) /\ BlockFirst(todo, handles)
  /\ live \cap Scratch \subseteq Given(todo)
  /\ Field("queue_family") \in live =>
       todo[1].do = "destroy" /\ todo[1].res = Field("queue_family")

Making(o) ==
  /\ \A i \in 1 .. Len(todo) :
       /\ todo[i].do # "destroy"
       /\ todo[i].do \in {"create", "alloc"} => todo[i].res \in Given(UnmakeSteps(o))
  /\ \/ Part(o, "block") \in handles
     \/ /\ todo # << >> /\ todo[1].do = "alloc" /\ todo[1].res = Part(o, "block")
        /\ \A r \in live : r.of # o

Unmaking(o) ==
  /\ \A i \in 1 .. Len(todo) : todo[i].do = "destroy" /\ todo[i].res.of = o
  /\ \A r \in live : r.of = o => r \in Given(todo)

Tearing ==
  /\ \A i \in 1 .. Len(todo) : todo[i].do = "destroy" /\ todo[i].res.of = "gpu"
  /\ \A r \in live :
       IF r.of = "gpu" THEN r \in Given(todo) \cup Left \cup (IF failed THEN Lists ELSE {})
       ELSE failed

\* While the gpu is whole.
Whole ==
  /\ ~failed
  /\ handles \ live \subseteq Scratch
  /\ \A r \in live :
       \/ r \in Torn \cup Left \cup Scratch
       \/ /\ r.of \in Objects /\ r \in Given(UnmakeSteps(r.of))
          /\ r.of \in made \/ r.of = call

\* A command buffer has its block.
Buffers ==
  \A r \in live :
    r.of = "gpu" /\ r.name = "buffer" => Frame(r.n, "cmd_buff") \in handles

Ends == {"gpuDestroy", "gone"}

Common ==
  /\ Types /\ live \subseteq handles
  /\ InOrder(todo) /\ Usable /\ misused \subseteq Excused
  /\ Buffers

Stage ==
  /\ call \in {"none", "gone"} => todo = << >>
  /\ call \in Ends => Tearing
  /\ call \notin Ends => Whole
  /\ call = "gpuCreate" => Creating
  /\ call \in Objects => Making(call) \/ Unmaking(call)
  /\ call \notin Ends \cup {"gpuCreate"} => live \cap Scratch = {}

GpuInv == Common /\ Stage
-----------------------------------------------------------------------------
(* The rest of a list. *)

LEMMA Rest ==
  ASSUME NEW s \in Seq(StepSet), s # << >>
  PROVE  /\ Tail(s) \in Seq(StepSet) /\ Len(s) \in Nat \ {0} /\ Len(Tail(s)) = Len(s) - 1
         /\ Head(s) = s[1]
         /\ \A i \in 1 .. Len(Tail(s)) : Tail(s)[i] = s[i + 1]
BY HeadTailProperties, EmptySeq

LEMMA RestGiven ==
  ASSUME NEW s \in Seq(StepSet), s # << >>
  PROVE  Given(s) = IF s[1].do = "destroy" THEN Given(Tail(s)) \cup {s[1].res} ELSE Given(Tail(s))
<1>1. ASSUME NEW r \in Given(Tail(s)) PROVE r \in Given(s)
  <2>1. PICK i \in 1 .. Len(Tail(s)) : Tail(s)[i].do = "destroy" /\ r = Tail(s)[i].res
    BY <1>1 DEF Given
  <2>2. i + 1 \in 1 .. Len(s) /\ s[i + 1].do = "destroy" /\ r = s[i + 1].res
    BY <2>1, Rest
  <2> QED BY <2>2 DEF Given
<1>2. ASSUME NEW r \in Given(s) PROVE r \in Given(Tail(s)) \/ (s[1].do = "destroy" /\ r = s[1].res)
  <2>1. PICK i \in 1 .. Len(s) : s[i].do = "destroy" /\ r = s[i].res
    BY <1>2 DEF Given
  <2>2. CASE i # 1
    <3>1. i - 1 \in 1 .. Len(Tail(s)) /\ Tail(s)[i - 1] = s[i]
      BY <2>2, Rest
    <3> QED BY <2>1, <3>1 DEF Given
  <2> QED BY <2>1, <2>2
<1>3. s[1].do = "destroy" => s[1].res \in Given(s)
  BY Rest DEF Given
<1> QED BY <1>1, <1>2, <1>3

LEMMA RestKeeps ==
  ASSUME NEW s \in Seq(StepSet), s # << >>
  PROVE  /\ InOrder(s) => InOrder(Tail(s))
         /\ CreatesKnown(s) => CreatesKnown(Tail(s))
         /\ FreesScratch(s) => FreesScratch(Tail(s))
<1>1. /\ Len(s) \in Nat \ {0} /\ Len(Tail(s)) = Len(s) - 1
      /\ \A i \in 1 .. Len(Tail(s)) : Tail(s)[i] = s[i + 1]
  BY Rest
<1>2. ASSUME InOrder(s) PROVE InOrder(Tail(s))
  <2> SUFFICES ASSUME NEW i \in 1 .. Len(Tail(s)), NEW j \in 1 .. Len(Tail(s)), i < j,
                      Tail(s)[i].do = "destroy", Tail(s)[j].do = "destroy"
               PROVE  Uses(Tail(s)[j]) \cap Vanish(Tail(s)[i].res) \subseteq Excused
    BY DEF InOrder
  <2>1. i + 1 \in 1 .. Len(s) /\ j + 1 \in 1 .. Len(s) /\ i + 1 < j + 1
        /\ Tail(s)[i] = s[i + 1] /\ Tail(s)[j] = s[j + 1]
    BY <1>1
  <2> QED BY <1>2, <2>1 DEF InOrder
<1>3. ASSUME CreatesKnown(s) PROVE CreatesKnown(Tail(s))
  BY <1>1, <1>3 DEF CreatesKnown
<1>4. ASSUME FreesScratch(s) PROVE FreesScratch(Tail(s))
  <2> SUFFICES ASSUME NEW i \in 1 .. Len(Tail(s)),
                      Tail(s)[i].do # "destroy", Tail(s)[i].res \in Scratch
               PROVE  \E j \in i + 1 .. Len(Tail(s)) :
                        /\ Tail(s)[j].do = "destroy" /\ Tail(s)[j].res = Tail(s)[i].res
                        /\ Tail(s)[i].res = Field("queue_family") => j = i + 1
    BY DEF FreesScratch
  <2>1. i + 1 \in 1 .. Len(s) /\ Tail(s)[i] = s[i + 1]
    BY <1>1
  <2>2. PICK j \in (i + 1) + 1 .. Len(s) :
               /\ s[j].do = "destroy" /\ s[j].res = s[i + 1].res
               /\ s[i + 1].res = Field("queue_family") => j = (i + 1) + 1
    BY <1>4, <2>1 DEF FreesScratch
  <2>3. j - 1 \in i + 1 .. Len(Tail(s)) /\ Tail(s)[j - 1] = s[j]
    BY <1>1
  <2>4. Tail(s)[i].res = Field("queue_family") => j - 1 = i + 1
    BY <2>1, <2>2
  <2> QED BY <2>1, <2>2, <2>3, <2>4
<1> QED BY <1>2, <1>3, <1>4

LEMMA RestBlockFirst ==
  ASSUME NEW s \in Seq(StepSet), s # << >>, NEW B, NEW C, BlockFirst(s, B),
         B \subseteq C, s[1].do = "alloc" => s[1].res \in C
  PROVE  BlockFirst(Tail(s), C)
<1>1. /\ Len(s) \in Nat \ {0} /\ Len(Tail(s)) = Len(s) - 1
      /\ \A i \in 1 .. Len(Tail(s)) : Tail(s)[i] = s[i + 1]
  BY Rest
<1> SUFFICES ASSUME NEW i \in 1 .. Len(Tail(s)), Tail(s)[i].do # "destroy",
                    Tail(s)[i].res.of = "gpu", Tail(s)[i].res.name = "buffer"
             PROVE  LET b == Frame(Tail(s)[i].res.n, "cmd_buff") IN
                      b \in C \/ (i > 1 /\ Tail(s)[i - 1].do = "alloc" /\ Tail(s)[i - 1].res = b)
  BY DEF BlockFirst
<1> DEFINE b == Frame(Tail(s)[i].res.n, "cmd_buff")
<1>2. i + 1 \in 1 .. Len(s) /\ Tail(s)[i] = s[i + 1] /\ (i + 1) - 1 = i
  BY <1>1
<1>3. b \in B \/ (s[i].do = "alloc" /\ s[i].res = b)
  BY <1>2 DEF BlockFirst
<1>4. i > 1 => Tail(s)[i - 1] = s[i]
  BY <1>1
<1> HIDE DEF b
<1>5. b \in C \/ (i > 1 /\ Tail(s)[i - 1].do = "alloc" /\ Tail(s)[i - 1].res = b)
  BY <1>3, <1>4
<1> QED BY <1>5 DEF b

-----------------------------------------------------------------------------
(* Two lists one after the other. *)

AllUses(s) == UNION {Uses(s[i]) : i \in 1 .. Len(s)}

LEMMA Concat ==
  ASSUME NEW s \in Seq(StepSet), NEW t \in Seq(StepSet)
  PROVE  /\ s \o t \in Seq(StepSet) /\ Len(s \o t) = Len(s) + Len(t)
         /\ Len(s) \in Nat /\ Len(t) \in Nat
         /\ \A i \in 1 .. Len(s) : (s \o t)[i] = s[i] /\ i \in 1 .. Len(s \o t)
         /\ \A i \in 1 .. Len(t) :
              (s \o t)[Len(s) + i] = t[i] /\ Len(s) + i \in 1 .. Len(s \o t)
         /\ \A i \in 1 .. Len(s \o t) :
              i \in 1 .. Len(s) \/ (i - Len(s) \in 1 .. Len(t) /\ (s \o t)[i] = t[i - Len(s)])
<1>1. /\ s \o t \in Seq(StepSet) /\ Len(s \o t) = Len(s) + Len(t)
      /\ \A i \in 1 .. Len(s) + Len(t) :
           (s \o t)[i] = IF i <= Len(s) THEN s[i] ELSE t[i - Len(s)]
  BY ConcatProperties
<1>2. Len(s) \in Nat /\ Len(t) \in Nat
  BY LenProperties
<1>3. ASSUME NEW i \in 1 .. Len(s) PROVE (s \o t)[i] = s[i] /\ i \in 1 .. Len(s \o t)
  BY <1>1, <1>2
<1>4. ASSUME NEW i \in 1 .. Len(t)
      PROVE  (s \o t)[Len(s) + i] = t[i] /\ Len(s) + i \in 1 .. Len(s \o t)
  <2>1. Len(s) + i \in 1 .. Len(s) + Len(t) /\ ~(Len(s) + i <= Len(s)) /\ (Len(s) + i) - Len(s) = i
    BY <1>2
  <2> QED BY <1>1, <2>1
<1>5. ASSUME NEW i \in 1 .. Len(s \o t)
      PROVE  i \in 1 .. Len(s) \/ (i - Len(s) \in 1 .. Len(t) /\ (s \o t)[i] = t[i - Len(s)])
  BY <1>1, <1>2
<1> QED BY <1>1, <1>2, <1>3, <1>4, <1>5

LEMMA ConcatSets ==
  ASSUME NEW s \in Seq(StepSet), NEW t \in Seq(StepSet)
  PROVE  /\ Given(s \o t) = Given(s) \cup Given(t)
         /\ AllUses(s \o t) = AllUses(s) \cup AllUses(t)
<1>1. ASSUME NEW r \in Given(s \o t) PROVE r \in Given(s) \cup Given(t)
  <2> PICK i \in 1 .. Len(s \o t) : (s \o t)[i].do = "destroy" /\ r = (s \o t)[i].res
    BY DEF Given
  <2> QED BY Concat DEF Given
<1>2. ASSUME NEW r \in Given(s) PROVE r \in Given(s \o t)
  BY Concat DEF Given
<1>3. ASSUME NEW r \in Given(t) PROVE r \in Given(s \o t)
  <2> PICK i \in 1 .. Len(t) : t[i].do = "destroy" /\ r = t[i].res
    BY DEF Given
  <2> (s \o t)[Len(s) + i] = t[i] /\ Len(s) + i \in 1 .. Len(s \o t)
    BY Concat
  <2> QED BY DEF Given
<1>4. ASSUME NEW r \in AllUses(s \o t) PROVE r \in AllUses(s) \cup AllUses(t)
  <2> PICK i \in 1 .. Len(s \o t) : r \in Uses((s \o t)[i])
    BY DEF AllUses
  <2> QED BY Concat DEF AllUses
<1>5. ASSUME NEW r \in AllUses(s) PROVE r \in AllUses(s \o t)
  BY Concat DEF AllUses
<1>6. ASSUME NEW r \in AllUses(t) PROVE r \in AllUses(s \o t)
  <2> PICK i \in 1 .. Len(t) : r \in Uses(t[i])
    BY DEF AllUses
  <2> (s \o t)[Len(s) + i] = t[i] /\ Len(s) + i \in 1 .. Len(s \o t)
    BY Concat
  <2> QED BY DEF AllUses
<1> QED BY <1>1, <1>2, <1>3, <1>4, <1>5, <1>6

LEMMA ConcatInOrder ==
  ASSUME NEW s \in Seq(StepSet), NEW t \in Seq(StepSet), InOrder(s), InOrder(t),
         \A r \in Given(s), i \in 1 .. Len(t) :
           t[i].do = "destroy" => Uses(t[i]) \cap Vanish(r) \subseteq Excused
  PROVE  InOrder(s \o t)
<1> DEFINE u == s \o t
<1> SUFFICES ASSUME NEW i \in 1 .. Len(u), NEW j \in 1 .. Len(u), i < j,
                    u[i].do = "destroy", u[j].do = "destroy"
             PROVE  Uses(u[j]) \cap Vanish(u[i].res) \subseteq Excused
  BY DEF InOrder
<1>1. CASE j \in 1 .. Len(s)
  <2>1. i \in 1 .. Len(s)
    BY <1>1, Concat
  <2>2. u[i] = s[i] /\ u[j] = s[j]
    BY <1>1, <2>1, Concat
  <2> QED BY <1>1, <2>1, <2>2 DEF InOrder
<1>2. CASE i \in 1 .. Len(s) /\ j \notin 1 .. Len(s)
  <2>1. u[i] = s[i] /\ j - Len(s) \in 1 .. Len(t) /\ u[j] = t[j - Len(s)]
    BY <1>2, Concat
  <2>2. u[i].res \in Given(s)
    BY <1>2, <2>1 DEF Given
  <2> QED BY <2>1, <2>2
<1>3. CASE i \notin 1 .. Len(s)
  <2>1. j \notin 1 .. Len(s) /\ Len(s) \in Nat /\ i \in Int /\ j \in Int
    BY <1>3, Concat
  <2>2. /\ i - Len(s) \in 1 .. Len(t) /\ u[i] = t[i - Len(s)]
        /\ j - Len(s) \in 1 .. Len(t) /\ u[j] = t[j - Len(s)]
    BY <1>3, <2>1, Concat
  <2>3. i - Len(s) < j - Len(s)
    BY <2>1
  <2> QED BY <2>2, <2>3 DEF InOrder
<1> QED BY <1>1, <1>2, <1>3

LEMMA IsSeq ==
  ASSUME NEW S, NEW n \in Nat, NEW s \in [1 .. n -> S]
  PROVE  s \in Seq(S) /\ Len(s) = n
OBVIOUS

\* A list that only destroys.
Tears(s) ==
  /\ s \in Seq(StepSet) /\ InOrder(s)
  /\ \A i \in 1 .. Len(s) : s[i].do = "destroy" /\ Uses(s[i]) \cap Scratch = {}

LEMMA ConcatTears ==
  ASSUME NEW s, NEW t, Tears(s), Tears(t),
         \A r \in Given(s) : AllUses(t) \cap Vanish(r) \subseteq Excused
  PROVE  /\ Tears(s \o t) /\ Given(s \o t) = Given(s) \cup Given(t)
         /\ AllUses(s \o t) = AllUses(s) \cup AllUses(t)
<1>1. s \in Seq(StepSet) /\ t \in Seq(StepSet)
  BY DEF Tears
<1>2. \A r \in Given(s), i \in 1 .. Len(t) :
         t[i].do = "destroy" => Uses(t[i]) \cap Vanish(r) \subseteq Excused
  BY DEF AllUses
<1>3. InOrder(s \o t)
  BY <1>1, <1>2, ConcatInOrder DEF Tears
<1>4. \A i \in 1 .. Len(s \o t) :
         (s \o t)[i].do = "destroy" /\ Uses((s \o t)[i]) \cap Scratch = {}
  BY <1>1, Concat DEF Tears
<1> QED BY <1>1, <1>3, <1>4, Concat, ConcatSets DEF Tears

\* A list that destroys some things with others.
Gone(h, W) == [k \in 1 .. Len(h) |-> Destroy(h[k], W)]

LEMMA DestroyedList ==
  ASSUME NEW h \in Seq(Resources), NEW W \in SUBSET Resources,
         \A i, j \in 1 .. Len(h) :
           i < j => ({h[j]} \cup W) \cap Vanish(h[i]) \subseteq Excused,
         \A i \in 1 .. Len(h) : ({h[i]} \cup W) \cap Scratch = {}
  PROVE  LET s == Gone(h, W) IN
         /\ Tears(s) /\ Given(s) = {h[k] : k \in 1 .. Len(h)}
         /\ AllUses(s) \subseteq Given(s) \cup W
<1> DEFINE s == Gone(h, W)
<1>1. Len(h) \in Nat /\ \A i \in 1 .. Len(h) : h[i] \in Resources
  BY LenProperties, ElementOfSeq
<1>2. \A i \in 1 .. Len(h) : Destroy(h[i], W) \in StepSet
  BY <1>1 DEF Destroy, StepSet
<1>3. s \in Seq(StepSet) /\ Len(s) = Len(h)
  <2>1. s \in [1 .. Len(h) -> StepSet]
    BY <1>1, <1>2 DEF Gone
  <2> QED BY <1>1, <2>1
<1>4. \A i \in 1 .. Len(s) :
        /\ s[i].do = "destroy" /\ s[i].res = h[i] /\ Uses(s[i]) = {h[i]} \cup W
  BY <1>3 DEF Gone, Destroy, Uses
<1> HIDE DEF s
<1>5. InOrder(s)
  BY <1>3, <1>4 DEF InOrder
<1>6. Given(s) = {h[k] : k \in 1 .. Len(h)}
  BY <1>3, <1>4 DEF Given
<1>7. AllUses(s) \subseteq Given(s) \cup W
  <2> SUFFICES ASSUME NEW i \in 1 .. Len(s), NEW r \in Uses(s[i]) PROVE r \in Given(s) \cup W
    BY DEF AllUses
  <2> QED BY <1>3, <1>4, <1>6
<1>8. \A i \in 1 .. Len(s) : s[i].do = "destroy" /\ Uses(s[i]) \cap Scratch = {}
  BY <1>3, <1>4
<1> QED BY <1>3, <1>5, <1>6, <1>7, <1>8 DEF Tears, s

-----------------------------------------------------------------------------
(* What gpuDestroy destroys. *)

Fields(names) == {Field(x) : x \in names}
Frames(names) == {Frame(f, x) : f \in 1 .. frame_count, x \in names}

LEMMA ResourcesAre ==
  /\ \A x \in Names : Field(x) \in Resources
  /\ \A f \in 1 .. frame_count, x \in Names : Frame(f, x) \in Resources
  /\ \A o \in Objects, x \in Names : Part(o, x) \in Resources
BY GpuAssumption DEF Resources, Field, Frame, Part

LEMMA VanishMost ==
  \A r : Vanish(r) \subseteq {r} \cup Excused \cup {Part(o, "set") : o \in Objects}
BY DEF Vanish, Excused

Kept == {"logic_dev", "phys_devices", "images", "queue_family"}

FieldsGone(names, N, W) == [k \in 1 .. N |-> Destroy(Field(names[k]), W)]

LEMMA DestroyedFields ==
  ASSUME NEW N \in Nat, NEW names, NEW W \in {{}, device},
         \A i, j \in 1 .. N : i # j => names[i] # names[j],
         \A i \in 1 .. N : names[i] \in Names /\ names[i] \notin Kept
  PROVE  LET s == FieldsGone(names, N, W) IN
         /\ Tears(s) /\ Given(s) = {Field(names[k]) : k \in 1 .. N}
         /\ AllUses(s) \subseteq Given(s) \cup W
<1> DEFINE h == [k \in 1 .. N |-> Field(names[k])]
           s == FieldsGone(names, N, W)
<1>1. h \in Seq(Resources) /\ Len(h) = N /\ \A k \in 1 .. N : h[k] = Field(names[k])
  <2>1. h \in [1 .. N -> Resources]
    BY ResourcesAre
  <2> QED BY <2>1
<1>2. W \subseteq Resources
  <2>1. Field("logic_dev") \in Resources
    BY ResourcesAre DEF Names, LastNames
  <2> QED BY <2>1 DEF device
<1>3. ASSUME NEW i \in 1 .. N, NEW j \in 1 .. N, i < j
      PROVE  ({h[j]} \cup W) \cap Vanish(h[i]) \subseteq Excused
  <2>1. Vanish(Field(names[i]))
          \subseteq {Field(names[i])} \cup Excused \cup {Part(o, "set") : o \in Objects}
    BY VanishMost
  <2>2. Field(names[j]) # Field(names[i]) /\ Field("logic_dev") # Field(names[i])
    BY <1>3 DEF Field, Kept
  <2>3. \A x, o : o \in Objects => Field(x) # Part(o, "set")
    BY GpuAssumption DEF Field, Part
  <2> QED BY <1>1, <2>1, <2>2, <2>3 DEF device
<1>4. ASSUME NEW i \in 1 .. N PROVE ({h[i]} \cup W) \cap Scratch = {}
  BY <1>1 DEF Scratch, Lists, Field, device, Kept
<1>5. s = Gone(h, W)
  BY <1>1 DEF FieldsGone, Gone
<1> HIDE DEF h, s
<1>6. /\ Tears(s) /\ Given(s) = {h[k] : k \in 1 .. Len(h)}
      /\ AllUses(s) \subseteq Given(s) \cup W
  BY <1>1, <1>2, <1>3, <1>4, <1>5, DestroyedList
<1> QED BY <1>1, <1>6 DEF s

LEMMA LayoutsTorn ==
  /\ Tears(DestroyLayouts) /\ Given(DestroyLayouts) = Fields(LayoutNames)
  /\ AllUses(DestroyLayouts) \subseteq Fields(LayoutNames)
<1>1. /\ layouts[1] = "bindings_1" /\ layouts[2] = "attributes_1" /\ layouts[3] = "bindings_2"
      /\ layouts[4] = "attributes_2"
      /\ DOMAIN layouts = 1 .. 4
  BY DEF layouts
<1>2. DestroyLayouts = FieldsGone(layouts, 4, {})
  BY <1>1 DEF DestroyLayouts, FieldsGone, Each, Free, Destroy
<1>3. \A k \in 1 .. 4 : k = 1 \/ k = 2 \/ k = 3 \/ k = 4
  OBVIOUS
<1>4. \A i, j \in 1 .. 4 : i # j => layouts[i] # layouts[j]
  BY <1>1, <1>3, ZenonT(60)
<1>5. ASSUME NEW i \in 1 .. 4 PROVE layouts[i] \in Names /\ layouts[i] \notin Kept
  <2>1. layouts[i] \in LayoutNames
    BY <1>1, <1>3 DEF LayoutNames
  <2>2. layouts[i] \notin Kept
    BY <2>1 DEF LayoutNames, Kept
  <2> QED BY <2>1, <2>2 DEF Names
<1>6. {layouts[k] : k \in 1 .. 4} = LayoutNames
  <2>1. \A k \in 1 .. 4 : layouts[k] \in LayoutNames
    BY <1>1, <1>3 DEF LayoutNames
  <2>2. 1 \in 1 .. 4 /\ 2 \in 1 .. 4 /\ 3 \in 1 .. 4 /\ 4 \in 1 .. 4
    OBVIOUS
  <2>3. \A x \in LayoutNames : \E k \in 1 .. 4 : layouts[k] = x
    BY <1>1, <2>2 DEF LayoutNames
  <2> QED BY <2>1, <2>3
<1>7. /\ Tears(DestroyLayouts) /\ Given(DestroyLayouts) = {Field(layouts[k]) : k \in 1 .. 4}
      /\ AllUses(DestroyLayouts) \subseteq Given(DestroyLayouts) \cup {}
  <2>1. 4 \in Nat /\ {} \in {{}, device}
    OBVIOUS
  <2>2. \A i \in 1 .. 4 : layouts[i] \in Names /\ layouts[i] \notin Kept
    BY <1>5
  <2> QED BY <1>2, <1>4, <2>1, <2>2, DestroyedFields
<1> QED BY <1>6, <1>7 DEF Fields

LEMMA FieldsTorn ==
  /\ Tears(DestroyFields) /\ Given(DestroyFields) = Fields(FieldNames)
  /\ AllUses(DestroyFields) \subseteq Fields(FieldNames) \cup device
<1> DEFINE names ==
      <<"depth_stencil_img", "depth_stencil_view", "depth_stencil_mem",
        "present_comp_sem", "render_comp_sem", "swap_chain", "desc_pool", "cmd_pool">>
<1>1. /\ names[1] = "depth_stencil_img" /\ names[2] = "depth_stencil_view"
      /\ names[3] = "depth_stencil_mem"
      /\ names[4] = "present_comp_sem" /\ names[5] = "render_comp_sem" /\ names[6] = "swap_chain"
      /\ names[7] = "desc_pool" /\ names[8] = "cmd_pool"
      /\ DOMAIN names = 1 .. 8
  OBVIOUS
<1>2. DestroyFields = FieldsGone(names, 8, device)
  BY <1>1 DEF DestroyFields, FieldsGone, Each
<1> HIDE DEF names
<1>3. \A k \in 1 .. 8 : k = 1 \/ k = 2 \/ k = 3 \/ k = 4 \/ k = 5 \/ k = 6 \/ k = 7 \/ k = 8
  OBVIOUS
<1>4. \A i, j \in 1 .. 8 : i # j => names[i] # names[j]
  BY <1>1, <1>3, ZenonT(60)
<1>5. ASSUME NEW i \in 1 .. 8 PROVE names[i] \in Names /\ names[i] \notin Kept
  <2>1. names[i] \in FieldNames
    BY <1>1, <1>3 DEF FieldNames
  <2>2. names[i] \notin Kept
    BY <2>1 DEF FieldNames, Kept
  <2> QED BY <2>1, <2>2 DEF Names
<1>6. {names[k] : k \in 1 .. 8} = FieldNames
  <2>1. \A k \in 1 .. 8 : names[k] \in FieldNames
    BY <1>1, <1>3 DEF FieldNames
  <2>2. /\ 1 \in 1 .. 8 /\ 2 \in 1 .. 8 /\ 3 \in 1 .. 8 /\ 4 \in 1 .. 8
        /\ 5 \in 1 .. 8 /\ 6 \in 1 .. 8 /\ 7 \in 1 .. 8 /\ 8 \in 1 .. 8
    OBVIOUS
  <2>3. \A x \in FieldNames : \E k \in 1 .. 8 : names[k] = x
    BY <1>1, <2>2 DEF FieldNames
  <2> QED BY <2>1, <2>3
<1>7. /\ Tears(DestroyFields) /\ Given(DestroyFields) = {Field(names[k]) : k \in 1 .. 8}
      /\ AllUses(DestroyFields) \subseteq Given(DestroyFields) \cup device
  <2>1. 8 \in Nat /\ device \in {{}, device}
    OBVIOUS
  <2>2. \A i \in 1 .. 8 : names[i] \in Names /\ names[i] \notin Kept
    BY <1>5
  <2> QED BY <1>2, <1>4, <2>1, <2>2, DestroyedFields
<1> QED BY <1>6, <1>7 DEF Fields

\* The places of a frame's steps in a list for every frame.
Turn(n, K) == (n - 1) \div K + 1
Place(n, K) == ((n - 1) % K) + 1
Spots(K) == 1 .. K * frame_count
Spot(f, k, K) == K * (f - 1) + k

LEMMA FrameAt ==
  ASSUME NEW K \in Nat \ {0}, NEW n \in Spots(K)
  PROVE  /\ Turn(n, K) \in 1 .. frame_count /\ Place(n, K) \in 1 .. K
         /\ n = Spot(Turn(n, K), Place(n, K), K)
<1> USE DEF Spots, Spot
<1> DEFINE q == (n - 1) \div K
           r == (n - 1) % K
<1>1. frame_count \in Nat /\ K * frame_count \in Nat
  BY GpuAssumption
<1>2. n - 1 = K * q + r /\ r \in 0 .. K - 1 /\ q \in Nat
  <2>1. n - 1 \in Nat
    BY <1>1
  <2> QED BY <2>1, DivMod
<1> HIDE DEF q, r
<1>3. q < frame_count
  <2> SUFFICES ASSUME ~(q < frame_count) PROVE FALSE
    OBVIOUS
  <2>1. q - frame_count \in Nat /\ K * (q - frame_count) \in Nat
    BY <1>1, <1>2
  <2>2. K * q = K * frame_count + K * (q - frame_count) /\ K * q \in Nat
    BY <1>1, <1>2, <2>1
  <2> QED BY <1>1, <1>2, <2>1, <2>2
<1>4. q + 1 \in 1 .. frame_count /\ r + 1 \in 1 .. K
  BY <1>1, <1>2, <1>3
<1>5. (q + 1) - 1 = q /\ K * q \in Nat /\ n = K * q + (r + 1)
  BY <1>1, <1>2
<1> QED BY <1>4, <1>5 DEF q, r, Turn, Place

LEMMA ZeroMultiple == ASSUME NEW n \in Nat \ {0}, NEW d \in Int, n * d = 0 PROVE d = 0
BY SMT

LEMMA AtFrame ==
  ASSUME NEW K \in Nat \ {0}, NEW f \in 1 .. frame_count, NEW k \in 1 .. K
  PROVE  LET n == Spot(f, k, K) IN
         n \in Spots(K) /\ Turn(n, K) = f /\ Place(n, K) = k
<1> USE DEF Spots, Spot
<1> DEFINE n == K * (f - 1) + k
<1>1. frame_count \in Nat /\ K * frame_count \in Nat /\ K * (f - 1) \in Nat /\ f - 1 \in Nat
  BY GpuAssumption
<1>2. n \in 1 .. K * frame_count
  <2>1. frame_count - f \in Nat /\ K * (frame_count - f) \in Nat
    BY <1>1
  <2>2. K * frame_count = K * (f - 1) + K + K * (frame_count - f)
    BY <1>1, <2>1
  <2> QED BY <1>1, <2>1, <2>2
<1>3. n = K * (Turn(n, K) - 1) + Place(n, K) /\ Turn(n, K) \in 1 .. frame_count /\ Place(n, K) \in 1 .. K
  BY <1>2, FrameAt
<1> DEFINE t == Turn(n, K) - 1
           p == Place(n, K) - 1
<1>4. t \in Int /\ p \in 0 .. K - 1 /\ K * t + p = K * (f - 1) + (k - 1)
  <2>1. K * t \in Int
    BY <1>1, <1>3
  <2> QED BY <1>1, <1>3, <2>1
<1> HIDE DEF t, p
<1>5. p = k - 1
  <2>1. k - 1 \in 0 .. K - 1 /\ f - 1 \in Int
    BY <1>1
  <2> QED BY <1>4, <2>1, OneRemainder
<1>6. t = f - 1
  <2>1. t - (f - 1) \in Int /\ K * t \in Int /\ K * t = K * (f - 1)
    BY <1>1, <1>4, <1>5
  <2>2. K * (t - (f - 1)) = K * t - K * (f - 1)
    BY <1>1, <1>4
  <2>3. K * (t - (f - 1)) = 0
    BY <2>1, <2>2
  <2>4. t - (f - 1) = 0
    BY <2>1, <2>3, ZeroMultiple
  <2> QED BY <1>1, <1>4, <2>4
<1> QED BY <1>2, <1>3, <1>5, <1>6 DEF t, p

\* The steps for the frames, without the list of them.
FramesGone ==
  EachFrame(LAMBDA f :
    <<Destroy(Frame(f, "fence"), device), Destroy(Frame(f, "frame_buff"), device),
      Destroy(Frame(f, "view"), device),
      Destroy(Frame(f, "buffer"), device \cup {Field("cmd_pool")}),
      Free(Frame(f, "cmd_buff"))>>)

names5 == <<"fence", "frame_buff", "view", "buffer", "cmd_buff">>

LEMMA Names5 ==
  /\ names5[1] = "fence" /\ names5[2] = "frame_buff" /\ names5[3] = "view"
  /\ names5[4] = "buffer" /\ names5[5] = "cmd_buff"
  /\ \A k \in 1 .. 5 : k = 1 \/ k = 2 \/ k = 3 \/ k = 4 \/ k = 5
  /\ \A i, j \in 1 .. 5 : i # j => names5[i] # names5[j]
  /\ {names5[k] : k \in 1 .. 5} = FrameNames
<1>1. /\ names5[1] = "fence" /\ names5[2] = "frame_buff" /\ names5[3] = "view"
      /\ names5[4] = "buffer" /\ names5[5] = "cmd_buff"
  BY DEF names5
<1>2. \A k \in 1 .. 5 : k = 1 \/ k = 2 \/ k = 3 \/ k = 4 \/ k = 5
  OBVIOUS
<1>3. \A i, j \in 1 .. 5 : i # j => names5[i] # names5[j]
  BY <1>1, <1>2, ZenonT(60)
<1>4. {names5[k] : k \in 1 .. 5} = FrameNames
  <2>1. \A k \in 1 .. 5 : names5[k] \in FrameNames
    BY <1>1, <1>2 DEF FrameNames
  <2>2. 1 \in 1 .. 5 /\ 2 \in 1 .. 5 /\ 3 \in 1 .. 5 /\ 4 \in 1 .. 5 /\ 5 \in 1 .. 5
    OBVIOUS
  <2>3. \A x \in FrameNames : \E k \in 1 .. 5 : names5[k] = x
    BY <1>1, <2>2 DEF FrameNames
  <2> QED BY <2>1, <2>3
<1> QED BY <1>1, <1>2, <1>3, <1>4

LEMMA FramesSteps ==
  /\ FramesGone \in Seq(StepSet) /\ 1 .. Len(FramesGone) = Spots(5)
  /\ \A n \in Spots(5) :
       LET s == FramesGone[n] IN
       /\ s.do = "destroy" /\ s.res = Frame(Turn(n, 5), names5[Place(n, 5)])
       /\ Uses(s) \subseteq {s.res} \cup device \cup {Field("cmd_pool")}
<1> DEFINE At(f, k) == <<Destroy(Frame(f, "fence"), device), Destroy(Frame(f, "frame_buff"), device),
                         Destroy(Frame(f, "view"), device),
                         Destroy(Frame(f, "buffer"), device \cup {Field("cmd_pool")}),
                         Free(Frame(f, "cmd_buff"))>>[k]
<1>1. FramesGone = [n \in Spots(5) |-> At(Turn(n, 5), Place(n, 5))]
  BY DEF FramesGone, EachFrame, Turn, Place, Spots
<1>2. 5 * frame_count \in Nat /\ 5 \in Nat \ {0}
  BY GpuAssumption
<1>3. ASSUME NEW f \in 1 .. frame_count, NEW k \in 1 .. 5
      PROVE  /\ At(f, k) \in StepSet
             /\ At(f, k).do = "destroy" /\ At(f, k).res = Frame(f, names5[k])
             /\ Uses(At(f, k)) \subseteq {At(f, k).res} \cup device \cup {Field("cmd_pool")}
  <2>1. \/ k = 1 /\ At(f, k) = Destroy(Frame(f, "fence"), device)
        \/ k = 2 /\ At(f, k) = Destroy(Frame(f, "frame_buff"), device)
        \/ k = 3 /\ At(f, k) = Destroy(Frame(f, "view"), device)
        \/ k = 4 /\ At(f, k) = Destroy(Frame(f, "buffer"), device \cup {Field("cmd_pool")})
        \/ k = 5 /\ At(f, k) = Destroy(Frame(f, "cmd_buff"), {})
    BY DEF Free, Destroy
  <2> HIDE DEF At
  <2>2. PICK W \in {{}, device, device \cup {Field("cmd_pool")}} :
               At(f, k) = Destroy(Frame(f, names5[k]), W)
    BY <2>1, Names5
  <2>3. device \subseteq Resources /\ Field("cmd_pool") \in Resources
    BY ResourcesAre DEF device, Names, LastNames, FieldNames
  <2>4. names5[k] \in Names
    BY Names5 DEF Names
  <2>5. Frame(f, names5[k]) \in Resources
    BY <2>4, ResourcesAre
  <2>6. Destroy(Frame(f, names5[k]), W) \in StepSet
    BY <2>3, <2>5 DEF Destroy, StepSet
  <2> QED BY <2>2, <2>6 DEF Destroy, Uses
<1> HIDE DEF At
<1>4. \A n \in Spots(5) : Turn(n, 5) \in 1 .. frame_count /\ Place(n, 5) \in 1 .. 5
  BY <1>2, FrameAt
<1>5. FramesGone \in [Spots(5) -> StepSet]
  BY <1>1, <1>3, <1>4
<1>6. FramesGone \in Seq(StepSet) /\ 1 .. Len(FramesGone) = Spots(5)
  BY <1>2, <1>5 DEF Spots
<1>7. ASSUME NEW n \in Spots(5)
      PROVE  /\ FramesGone[n].do = "destroy"
             /\ FramesGone[n].res = Frame(Turn(n, 5), names5[Place(n, 5)])
             /\ Uses(FramesGone[n]) \subseteq {FramesGone[n].res} \cup device \cup {Field("cmd_pool")}
  <2>1. FramesGone[n] = At(Turn(n, 5), Place(n, 5))
    BY <1>1
  <2> QED BY <2>1, <1>3, <1>4
<1> QED BY <1>6, <1>7

LEMMA FramesTorn ==
  /\ Tears(FramesGone) /\ Given(FramesGone) = Frames(FrameNames)
  /\ AllUses(FramesGone) \subseteq Given(FramesGone) \cup device \cup {Field("cmd_pool")}
<1>1. /\ FramesGone \in Seq(StepSet) /\ 1 .. Len(FramesGone) = Spots(5)
      /\ \A n \in Spots(5) :
           /\ FramesGone[n].do = "destroy"
           /\ FramesGone[n].res = Frame(Turn(n, 5), names5[Place(n, 5)])
           /\ Uses(FramesGone[n]) \subseteq {FramesGone[n].res} \cup device \cup {Field("cmd_pool")}
  BY FramesSteps
<1>2. \A n \in Spots(5) :
        /\ Turn(n, 5) \in 1 .. frame_count /\ Place(n, 5) \in 1 .. 5
        /\ n = Spot(Turn(n, 5), Place(n, 5), 5)
  BY FrameAt, 5 \in Nat \ {0}
<1>3. \A f \in 1 .. frame_count, k \in 1 .. 5 :
        \E n \in Spots(5) : Turn(n, 5) = f /\ Place(n, 5) = k
  <2> TAKE f \in 1 .. frame_count, k \in 1 .. 5
  <2>1. LET n == Spot(f, k, 5) IN n \in Spots(5) /\ Turn(n, 5) = f /\ Place(n, 5) = k
    BY AtFrame, 5 \in Nat \ {0}
  <2> QED BY <2>1
<1>4. Given(FramesGone) = Frames(FrameNames)
  <2>1. ASSUME NEW r \in Given(FramesGone) PROVE r \in Frames(FrameNames)
    <3>1. PICK n \in Spots(5) : r = FramesGone[n].res
      BY <1>1 DEF Given
    <3>2. names5[Place(n, 5)] \in FrameNames
      BY <1>2, Names5
    <3> QED BY <1>1, <1>2, <3>1, <3>2 DEF Frames
  <2>2. ASSUME NEW r \in Frames(FrameNames) PROVE r \in Given(FramesGone)
    <3>1. PICK f \in 1 .. frame_count, x \in FrameNames : r = Frame(f, x)
      BY <2>2 DEF Frames
    <3>2. PICK k \in 1 .. 5 : x = names5[k]
      BY Names5
    <3>3. PICK n \in Spots(5) : Turn(n, 5) = f /\ Place(n, 5) = k
      BY <1>3
    <3> QED BY <1>1, <3>1, <3>2, <3>3 DEF Given
  <2> QED BY <2>1, <2>2
<1>5. \A n \in Spots(5) : FramesGone[n].res \in Given(FramesGone)
  BY <1>1 DEF Given
<1>6. AllUses(FramesGone) \subseteq Given(FramesGone) \cup device \cup {Field("cmd_pool")}
  BY <1>1, <1>5 DEF AllUses
<1>7. ASSUME NEW i \in Spots(5), NEW j \in Spots(5), i # j
      PROVE  FramesGone[i].res # FramesGone[j].res
  <2>1. Turn(i, 5) # Turn(j, 5) \/ Place(i, 5) # Place(j, 5)
    BY <1>2, <1>7
  <2>2. Turn(i, 5) # Turn(j, 5) \/ names5[Place(i, 5)] # names5[Place(j, 5)]
    BY <1>2, <2>1, Names5
  <2>3. \A f, g, x, y : f # g \/ x # y => Frame(f, x) # Frame(g, y)
    BY DEF Frame
  <2>4. Frame(Turn(i, 5), names5[Place(i, 5)]) # Frame(Turn(j, 5), names5[Place(j, 5)])
    BY <2>2, <2>3
  <2> QED BY <1>1, <2>4
<1>8. \A f \in 1 .. frame_count : \A x :
        /\ Vanish(Frame(f, x)) = {Frame(f, x)}
        /\ Frame(f, x) \notin device \cup {Field("cmd_pool")}
        /\ Frame(f, x) \notin Scratch
  BY DEF Vanish, Frame, Field, device, Scratch, Lists
<1>9. InOrder(FramesGone)
  <2> SUFFICES ASSUME NEW i \in Spots(5), NEW j \in Spots(5), i < j
               PROVE  Uses(FramesGone[j]) \cap Vanish(FramesGone[i].res) = {}
    BY <1>1 DEF InOrder
  <2>1. i # j
    BY <1>1
  <2>2. /\ Vanish(FramesGone[i].res) = {FramesGone[i].res}
        /\ FramesGone[i].res \notin device \cup {Field("cmd_pool")}
    BY <1>1, <1>2, <1>8
  <2> QED BY <1>1, <1>7, <2>1, <2>2
<1>10. device \cap Scratch = {} /\ Field("cmd_pool") \notin Scratch
  BY DEF device, Scratch, Lists, Field
<1>11. \A n \in Spots(5) : Uses(FramesGone[n]) \cap Scratch = {}
  <2> TAKE n \in Spots(5)
  <2>1. FramesGone[n].res \notin Scratch
    BY <1>1, <1>2, <1>8
  <2> QED BY <1>1, <1>10, <2>1
<1> QED BY <1>1, <1>4, <1>6, <1>9, <1>11 DEF Tears

\* The last four steps.
LastSteps == <<Free(Field("frames"))>>

LEMMA DeviceTorn ==
  /\ Tears(DestroyDevice) /\ Given(DestroyDevice) = Fields({"logic_dev", "surface", "gpu"})
  /\ AllUses(DestroyDevice) = Given(DestroyDevice) \cup {Field("inst")}
  /\ Tears(LastSteps) /\ Given(LastSteps) = {Field("frames")}
  /\ AllUses(LastSteps) = {Field("frames")}
<1>1. /\ DestroyDevice[1] = Destroy(Field("logic_dev"), {})
      /\ DestroyDevice[2] = Destroy(Field("surface"), {Field("inst")})
      /\ DestroyDevice[3] = Destroy(Field("gpu"), {})
      /\ Len(DestroyDevice) = 3
      /\ LastSteps[1] = Destroy(Field("frames"), {}) /\ Len(LastSteps) = 1
  BY DEF DestroyDevice, LastSteps, Free, Destroy
<1>2. \A x \in {"logic_dev", "surface", "gpu", "frames", "inst"} :
        /\ Field(x) \in Resources /\ Vanish(Field(x)) = {Field(x)}
        /\ Field(x) \notin Scratch
        /\ \A y : Field(x) = Field(y) => x = y
  <2> TAKE x \in {"logic_dev", "surface", "gpu", "frames", "inst"}
  <2>1. Field(x) \in Resources
    BY ResourcesAre DEF Names, LastNames, OtherNames
  <2> QED BY <2>1 DEF Vanish, Field, Scratch, Lists
<1>3. DestroyDevice \in Seq(StepSet) /\ LastSteps \in Seq(StepSet)
  <2>1. /\ Destroy(Field("logic_dev"), {}) \in StepSet /\ Destroy(Field("gpu"), {}) \in StepSet
        /\ Destroy(Field("surface"), {Field("inst")}) \in StepSet
        /\ Destroy(Field("frames"), {}) \in StepSet
    BY <1>2 DEF Destroy, StepSet
  <2> QED BY <2>1 DEF DestroyDevice, LastSteps, Free, Destroy
<1>4. /\ \A k \in 1 .. 3 : k = 1 \/ k = 2 \/ k = 3
      /\ 1 \in 1 .. 3 /\ 2 \in 1 .. 3 /\ 3 \in 1 .. 3
      /\ \A k \in 1 .. 1 : k = 1
      /\ 1 \in 1 .. 1
  OBVIOUS
<1>5. /\ Uses(DestroyDevice[1]) = {Field("logic_dev")}
      /\ Uses(DestroyDevice[2]) = {Field("surface"), Field("inst")}
      /\ Uses(DestroyDevice[3]) = {Field("gpu")}
      /\ Uses(LastSteps[1]) = {Field("frames")}
      /\ DestroyDevice[1].res = Field("logic_dev") /\ DestroyDevice[1].do = "destroy"
      /\ DestroyDevice[2].res = Field("surface") /\ DestroyDevice[2].do = "destroy"
      /\ DestroyDevice[3].res = Field("gpu") /\ DestroyDevice[3].do = "destroy"
      /\ LastSteps[1].res = Field("frames") /\ LastSteps[1].do = "destroy"
  BY <1>1 DEF Uses, Destroy
<1>6. InOrder(DestroyDevice) /\ InOrder(LastSteps)
  <2>1. ASSUME NEW i \in 1 .. 3, NEW j \in 1 .. 3, i < j
        PROVE  Uses(DestroyDevice[j]) \cap Vanish(DestroyDevice[i].res) = {}
    <3>1. (i = 1 /\ (j = 2 \/ j = 3)) \/ (i = 2 /\ j = 3)
      BY <2>1
    <3> QED BY <3>1, <1>2, <1>5
  <2>2. \A i, j \in 1 .. 1 : ~(i < j)
    OBVIOUS
  <2> QED BY <1>1, <2>1, <2>2 DEF InOrder
<1>7. /\ Given(DestroyDevice) = Fields({"logic_dev", "surface", "gpu"})
      /\ Given(LastSteps) = {Field("frames")}
  <2>1. Given(DestroyDevice) = {Field("logic_dev"), Field("surface"), Field("gpu")}
    BY <1>1, <1>4, <1>5 DEF Given
  <2>2. Given(LastSteps) = {Field("frames")}
    BY <1>1, <1>4, <1>5 DEF Given
  <2> QED BY <2>1, <2>2 DEF Fields
<1>8. /\ AllUses(DestroyDevice) = {Field("logic_dev"), Field("surface"), Field("gpu"), Field("inst")}
      /\ AllUses(LastSteps) = {Field("frames")}
  BY <1>1, <1>4, <1>5 DEF AllUses
<1>9. AllUses(DestroyDevice) = Given(DestroyDevice) \cup {Field("inst")}
  BY <1>7, <1>8 DEF Fields
<1>10. Tears(DestroyDevice)
  <2> SUFFICES \A i \in 1 .. 3 :
                 DestroyDevice[i].do = "destroy" /\ Uses(DestroyDevice[i]) \cap Scratch = {}
    BY <1>1, <1>3, <1>6 DEF Tears
  <2> QED BY <1>2, <1>4, <1>5
<1>11. Tears(LastSteps)
  <2> SUFFICES \A i \in 1 .. 1 : LastSteps[i].do = "destroy" /\ Uses(LastSteps[i]) \cap Scratch = {}
    BY <1>1, <1>3, <1>6 DEF Tears
  <2> QED BY <1>2, <1>4, <1>5
<1> QED BY <1>7, <1>8, <1>9, <1>10, <1>11

LEMMA ConcatGpuTears ==
  ASSUME NEW s, NEW t, Tears(s), Tears(t),
         Given(s) \cap AllUses(t) = {}, \A u \in AllUses(t) : u.of = "gpu"
  PROVE  /\ Tears(s \o t) /\ Given(s \o t) = Given(s) \cup Given(t)
         /\ AllUses(s \o t) = AllUses(s) \cup AllUses(t)
<1>1. ASSUME NEW r \in Given(s) PROVE AllUses(t) \cap Vanish(r) \subseteq Excused
  <2>1. Vanish(r) \subseteq {r} \cup Excused \cup {Part(o, "set") : o \in Objects}
    BY VanishMost
  <2>2. \A o \in Objects : Part(o, "set") \notin AllUses(t)
    BY GpuAssumption DEF Part
  <2> QED BY <2>1, <2>2
<1> QED BY <1>1, ConcatTears

LEMMA FieldsApart ==
  /\ \A x, y : Field(x) = Field(y) => x = y
  /\ \A x, y : \A f \in 1 .. frame_count : Field(x) # Frame(f, y)
  /\ \A x : Field(x).of = "gpu"
  /\ \A f, x : Frame(f, x).of = "gpu"
BY DEF Field, Frame

LEMMA DestroyTorn ==
  /\ Tears(DestroySteps)
  /\ Torn = Fields(LayoutNames \cup FieldNames \cup LastNames) \cup Frames(FrameNames)
<1> DEFINE s1 == DestroyLayouts \o DestroyFields
           s2 == FramesGone \o LastSteps
           s3 == s1 \o s2
<1>1. DestroySteps = s3 \o DestroyDevice
  BY DEF DestroySteps, DestroyFrames, FramesGone, LastSteps
<1>2. /\ Tears(s1) /\ Given(s1) = Fields(LayoutNames) \cup Fields(FieldNames)
      /\ AllUses(s1) \subseteq Fields(LayoutNames) \cup Fields(FieldNames) \cup device
  <2>1. AllUses(DestroyFields) \subseteq Fields(FieldNames \cup {"logic_dev"})
    BY FieldsTorn DEF Fields, device
  <2>2. Given(DestroyLayouts) = Fields(LayoutNames)
    BY LayoutsTorn
  <2>3. \A x \in LayoutNames : x \notin FieldNames \cup {"logic_dev"}
    BY DEF LayoutNames, FieldNames
  <2>4. Given(DestroyLayouts) \cap AllUses(DestroyFields) = {}
    BY <2>1, <2>2, <2>3, FieldsApart DEF Fields
  <2>5. \A u \in AllUses(DestroyFields) : u.of = "gpu"
    BY <2>1, FieldsApart DEF Fields
  <2> QED BY <2>4, <2>5, LayoutsTorn, FieldsTorn, ConcatGpuTears
<1>3. /\ Tears(s2) /\ Given(s2) = Frames(FrameNames) \cup {Field("frames")}
      /\ AllUses(s2) \subseteq
           Frames(FrameNames) \cup {Field("frames"), Field("logic_dev"), Field("cmd_pool")}
  <2>1. Given(FramesGone) \cap AllUses(LastSteps) = {}
    BY FramesTorn, DeviceTorn, FieldsApart DEF Frames
  <2>2. \A u \in AllUses(LastSteps) : u.of = "gpu"
    BY DeviceTorn, FieldsApart
  <2>3. /\ Tears(s2) /\ Given(s2) = Given(FramesGone) \cup Given(LastSteps)
        /\ AllUses(s2) = AllUses(FramesGone) \cup AllUses(LastSteps)
    BY <2>1, <2>2, FramesTorn, DeviceTorn, ConcatGpuTears
  <2> QED BY <2>3, FramesTorn, DeviceTorn DEF device
<1> HIDE DEF s1, s2
<1>4. /\ Tears(s3) /\ Given(s3) = Given(s1) \cup Given(s2)
  <2>1. \A u \in AllUses(s2) : u.of = "gpu"
    BY <1>3, FieldsApart DEF Frames
  <2>2. \A x \in LayoutNames \cup FieldNames : x \notin {"frames", "logic_dev"}
    BY DEF LayoutNames, FieldNames
  <2>3. ASSUME NEW r \in Given(s1), r \in AllUses(s2) PROVE r = Field("cmd_pool")
    <3>1. PICK x \in LayoutNames \cup FieldNames : r = Field(x)
      BY <1>2 DEF Fields
    <3> QED BY <2>2, <2>3, <3>1, <1>3, FieldsApart DEF Frames
  <2>4. \A r \in Given(s1) : AllUses(s2) \cap Vanish(r) \subseteq Excused
    <3> TAKE r \in Given(s1)
    <3>1. Vanish(r) \subseteq {r} \cup Excused \cup {Part(o, "set") : o \in Objects}
      BY VanishMost
    <3>2. \A o \in Objects : Part(o, "set") \notin AllUses(s2)
      BY <2>1, GpuAssumption DEF Part
    <3>3. Field("cmd_pool") \in Excused
      BY DEF Excused
    <3> QED BY <2>3, <3>1, <3>2, <3>3
  <2> QED BY <2>4, <1>2, <1>3, ConcatTears
<1> HIDE DEF s3
<1>5. Tears(s3 \o DestroyDevice) /\ Given(s3 \o DestroyDevice) = Given(s3) \cup Given(DestroyDevice)
  <2>1. AllUses(DestroyDevice) = Fields({"logic_dev", "surface", "gpu", "inst"})
    BY DeviceTorn DEF Fields
  <2>2. \A u \in AllUses(DestroyDevice) : u.of = "gpu"
    BY <2>1, FieldsApart DEF Fields
  <2>3. \A x \in LayoutNames \cup FieldNames \cup {"frames"} :
           x \notin {"logic_dev", "surface", "gpu", "inst"}
    BY DEF LayoutNames, FieldNames
  <2>4. Given(s3) = Fields(LayoutNames \cup FieldNames \cup {"frames"}) \cup Frames(FrameNames)
    BY <1>2, <1>3, <1>4 DEF Fields
  <2>5. Given(s3) \cap AllUses(DestroyDevice) = {}
    BY <2>1, <2>3, <2>4, FieldsApart DEF Fields, Frames
  <2> QED BY <2>2, <2>5, <1>4, DeviceTorn, ConcatGpuTears
<1>6. Torn = Fields(LayoutNames \cup FieldNames \cup LastNames) \cup Frames(FrameNames)
  <2>1. Torn = Fields(LayoutNames) \cup Fields(FieldNames) \cup Frames(FrameNames)
               \cup {Field("frames")} \cup Fields({"logic_dev", "surface", "gpu"})
    BY <1>1, <1>2, <1>3, <1>4, <1>5, DeviceTorn DEF Torn
  <2> QED BY <2>1 DEF Fields, LastNames
<1> QED BY <1>1, <1>5, <1>6

LEMMA DestroyFacts ==
  /\ DestroySteps \in Seq(StepSet) /\ InOrder(DestroySteps)
  /\ \A i \in 1 .. Len(DestroySteps) :
       LET s == DestroySteps[i] IN
       s.do = "destroy" /\ s.res.of = "gpu" /\ Uses(s) \cap Scratch = {}
<1>1. \A r \in Torn : r.of = "gpu"
  BY DestroyTorn, FieldsApart DEF Fields, Frames
<1>2. \A i \in 1 .. Len(DestroySteps) :
         DestroySteps[i].do = "destroy" => DestroySteps[i].res \in Torn
  BY DEF Torn, Given
<1> QED BY <1>1, <1>2, DestroyTorn DEF Tears

-----------------------------------------------------------------------------
(* What gpuCreate creates. *)

LEMMA ScratchIs == \A r \in Scratch : r.of = "gpu" /\ r.name # "buffer" /\ Vanish(r) = {r}
BY DEF Scratch, Lists, Vanish, Field

CreatesOK(s) ==
  /\ s \in Seq(StepSet) /\ InOrder(s)
  /\ CreatesKnown(s) /\ FreesScratch(s) /\ BlockFirst(s, {})

LEMMA ConcatOrder ==
  ASSUME NEW s \in Seq(StepSet), NEW t \in Seq(StepSet), InOrder(s), InOrder(t),
         CreatesKnown(s), CreatesKnown(t), BlockFirst(s, {}), BlockFirst(t, {}),
         Given(s) \cap Given(t) = {}
  PROVE  InOrder(s \o t) /\ CreatesKnown(s \o t) /\ BlockFirst(s \o t, {})
<1>1. InOrder(s \o t)
  <2> SUFFICES ASSUME NEW r \in Given(s), NEW i \in 1 .. Len(t), t[i].do = "destroy"
               PROVE  Uses(t[i]) \cap Vanish(r) = {}
    BY ConcatInOrder
  <2>1. r \in Scratch /\ Vanish(r) = {r}
    BY ScratchIs DEF Given, CreatesKnown
  <2>2. Uses(t[i]) = {t[i].res} /\ t[i].res \in Given(t)
    BY DEF CreatesKnown, Uses, Given
  <2> QED BY <2>1, <2>2
<1>2. CreatesKnown(s \o t)
  BY Concat DEF CreatesKnown
<1>3. BlockFirst(s \o t, {})
  <2> DEFINE u == s \o t
  <2> SUFFICES ASSUME NEW i \in 1 .. Len(u), u[i].do # "destroy",
                      u[i].res.of = "gpu", u[i].res.name = "buffer"
               PROVE  i > 1 /\ u[i - 1].do = "alloc" /\ u[i - 1].res = Frame(u[i].res.n, "cmd_buff")
    BY DEF BlockFirst
  <2>1. CASE i \in 1 .. Len(s)
    <3>1. u[i] = s[i]
      BY <2>1, Concat
    <3>2. i > 1 /\ s[i - 1].do = "alloc" /\ s[i - 1].res = Frame(s[i].res.n, "cmd_buff")
      BY <2>1, <3>1 DEF BlockFirst
    <3>3. i - 1 \in 1 .. Len(s)
      BY <2>1, <3>2, Concat
    <3>4. u[i - 1] = s[i - 1]
      BY <3>3, Concat
    <3> QED BY <3>1, <3>2, <3>4
  <2>2. CASE i \notin 1 .. Len(s)
    <3> DEFINE j == i - Len(s)
    <3>1. j \in 1 .. Len(t) /\ u[i] = t[j] /\ Len(s) \in Nat /\ i = Len(s) + j
      BY <2>2, Concat
    <3> HIDE DEF j
    <3>2. j > 1 /\ t[j - 1].do = "alloc" /\ t[j - 1].res = Frame(t[j].res.n, "cmd_buff")
      BY <3>1 DEF BlockFirst
    <3>0. Len(t) \in Nat
      BY Concat
    <3>3. j - 1 \in 1 .. Len(t) /\ i - 1 = Len(s) + (j - 1) /\ i > 1
      BY <3>0, <3>1, <3>2
    <3>4. u[i - 1] = t[j - 1]
      BY <3>3, Concat
    <3> QED BY <3>1, <3>2, <3>3, <3>4
  <2> QED BY <2>1, <2>2
<1> QED BY <1>1, <1>2, <1>3

LEMMA ConcatCreates ==
  ASSUME NEW s, NEW t, CreatesOK(s), CreatesOK(t), Given(s) \cap Given(t) = {}
  PROVE  CreatesOK(s \o t) /\ Given(s \o t) = Given(s) \cup Given(t)
<1> USE DEF CreatesOK
<1> DEFINE u == s \o t
<1>1. u \in Seq(StepSet) /\ InOrder(u) /\ CreatesKnown(u) /\ BlockFirst(u, {})
  BY Concat, ConcatOrder
<1>2. FreesScratch(u)
  <2> SUFFICES ASSUME NEW i \in 1 .. Len(u), u[i].do # "destroy", u[i].res \in Scratch
               PROVE  \E j \in i + 1 .. Len(u) :
                        /\ u[j].do = "destroy" /\ u[j].res = u[i].res
                        /\ u[i].res = Field("queue_family") => j = i + 1
    BY DEF FreesScratch
  <2>1. CASE i \in 1 .. Len(s)
    <3>1. u[i] = s[i]
      BY <2>1, Concat
    <3>2. PICK j \in i + 1 .. Len(s) :
                 /\ s[j].do = "destroy" /\ s[j].res = s[i].res
                 /\ s[i].res = Field("queue_family") => j = i + 1
      BY <2>1, <3>1 DEF FreesScratch
    <3>3. j \in 1 .. Len(s) /\ j \in i + 1 .. Len(u)
      BY <2>1, Concat
    <3>4. u[j] = s[j]
      BY <3>3, Concat
    <3> QED BY <3>1, <3>2, <3>3, <3>4
  <2>2. CASE i \notin 1 .. Len(s)
    <3> DEFINE k == i - Len(s)
    <3>1. k \in 1 .. Len(t) /\ u[i] = t[k] /\ Len(s) \in Nat /\ i = Len(s) + k
      BY <2>2, Concat
    <3> HIDE DEF k
    <3>2. PICK j \in k + 1 .. Len(t) :
                 /\ t[j].do = "destroy" /\ t[j].res = t[k].res
                 /\ t[k].res = Field("queue_family") => j = k + 1
      BY <3>1 DEF FreesScratch
    <3>3. j \in 1 .. Len(t) /\ Len(s) + j \in i + 1 .. Len(u)
          /\ (j = k + 1 => Len(s) + j = i + 1)
      <4>1. Len(t) \in Nat /\ Len(u) = Len(s) + Len(t)
        BY Concat
      <4> HIDE DEF u
      <4> QED BY <3>1, <4>1
    <3>4. u[Len(s) + j] = t[j]
      BY <3>3, Concat
    <3> QED BY <3>1, <3>2, <3>3, <3>4
  <2> QED BY <2>1, <2>2
<1> QED BY <1>1, <1>2, ConcatSets

\* A list that only creates what gpuDestroy knows, and no command buffer.
Plain(s) ==
  /\ s \in Seq(StepSet)
  /\ \A i \in 1 .. Len(s) :
       /\ s[i].do # "destroy" /\ s[i].res \notin Scratch
       /\ s[i].do # "ask" => s[i].res \in Torn \cup Left
       /\ s[i].res.name # "buffer"

LEMMA PlainCreates == ASSUME NEW s, Plain(s) PROVE CreatesOK(s) /\ Given(s) = {}
BY DEF Plain, CreatesOK, Given, InOrder, CreatesKnown, FreesScratch, BlockFirst, StepSet

LEMMA ConcatPlain == ASSUME NEW s, NEW t, Plain(s), Plain(t) PROVE Plain(s \o t)
BY Concat DEF Plain

CreatedNames == LayoutNames \cup FieldNames \cup LastNames \cup {"inst", "render_pass"}

LEMMA PlainFields ==
  \A x \in CreatedNames :
    /\ Field(x) \in Resources /\ Field(x) \notin Scratch /\ Field(x).name # "buffer"
    /\ Field(x) \in Torn \cup Left
<1> TAKE x \in CreatedNames
<1>1. x \in Names
  BY DEF CreatedNames, Names, OtherNames
<1>2. x \notin {"phys_devices", "images", "queue_family", "buffer"}
  BY DEF CreatedNames, LayoutNames, FieldNames, LastNames
<1>3. Field(x) \in Torn \cup Left
  BY DestroyTorn DEF CreatedNames, Fields, Left
<1> QED BY <1>1, <1>2, <1>3, ResourcesAre DEF Scratch, Lists, Field

\* Steps that create fields one after the other.
FieldsMade(names, N, alloc) ==
  [k \in 1 .. N |-> IF alloc THEN Alloc(Field(names[k])) ELSE Create(Field(names[k]))]

LEMMA MadeFields ==
  ASSUME NEW N \in Nat, NEW names, NEW alloc \in BOOLEAN,
         \A k \in 1 .. N : names[k] \in CreatedNames
  PROVE  Plain(FieldsMade(names, N, alloc))
<1> DEFINE s == FieldsMade(names, N, alloc)
<1>1. \A k \in 1 .. N :
        /\ s[k] \in StepSet /\ s[k].do \in {"create", "alloc"} /\ s[k].res = Field(names[k])
  BY PlainFields DEF FieldsMade, Create, Alloc, StepSet
<1>2. s \in [1 .. N -> StepSet]
  BY <1>1 DEF FieldsMade
<1>3. s \in Seq(StepSet) /\ Len(s) = N
  BY <1>2
<1> HIDE DEF s
<1>4. Plain(s)
  BY <1>1, <1>3, PlainFields DEF Plain
<1> QED BY <1>4 DEF s

\* One frame after the other.
FramesMade(x) == EachFrame(LAMBDA f : <<Create(Frame(f, x))>>)

LEMMA MadeFrames == \A x \in {"view", "frame_buff"} : Plain(FramesMade(x))
<1> TAKE x \in {"view", "frame_buff"}
<1> DEFINE s == FramesMade(x)
<1>1. frame_count \in Nat /\ 1 * frame_count \in Nat /\ 1 \in Nat \ {0}
  BY GpuAssumption
<1>2. \A n \in Spots(1) : Turn(n, 1) \in 1 .. frame_count /\ Place(n, 1) = 1
  <2>1. \A n \in Spots(1) : Turn(n, 1) \in 1 .. frame_count /\ Place(n, 1) \in 1 .. 1
    BY <1>1, FrameAt
  <2> QED BY <2>1
<1>3. s = [n \in Spots(1) |-> <<Create(Frame(Turn(n, 1), x))>>[Place(n, 1)]]
  BY DEF FramesMade, EachFrame, Turn, Place, Spots
<1>4. \A n \in Spots(1) : s[n] = Create(Frame(Turn(n, 1), x))
  BY <1>2, <1>3
<1>5. \A f \in 1 .. frame_count :
        /\ Frame(f, x) \in Resources /\ Frame(f, x) \notin Scratch /\ Frame(f, x).name # "buffer"
        /\ Frame(f, x) \in Torn
  <2> TAKE f \in 1 .. frame_count
  <2>1. x \in FrameNames /\ x \in Names /\ x # "buffer"
    BY DEF FrameNames, Names
  <2>2. Frame(f, x) \in Torn
    BY <2>1, DestroyTorn DEF Frames
  <2> QED BY <2>1, <2>2, ResourcesAre DEF Frame, Scratch, Lists, Field
<1>6. \A n \in Spots(1) :
        s[n] \in StepSet /\ s[n].do = "create" /\ s[n].res = Frame(Turn(n, 1), x)
  <2> HIDE DEF s
  <2> TAKE n \in Spots(1)
  <2>1. s[n] = [do |-> "create", res |-> Frame(Turn(n, 1), x), with |-> {}]
    BY <1>4 DEF Create
  <2>2. Frame(Turn(n, 1), x) \in Resources
    BY <1>2, <1>5
  <2> QED BY <2>1, <2>2 DEF StepSet
<1>7. s \in [Spots(1) -> StepSet]
  BY <1>3, <1>6
<1>8. s \in Seq(StepSet) /\ 1 .. Len(s) = Spots(1)
  BY <1>1, <1>7 DEF Spots
<1> HIDE DEF s
<1>9. Plain(s)
  BY <1>2, <1>5, <1>6, <1>8 DEF Plain
<1> QED BY <1>9 DEF s

LEMMA AskStep == Ask \in StepSet /\ Ask.do = "ask" /\ Ask.res \notin Scratch /\ Ask.res.name # "buffer"
<1>1. Field("none") \in Resources
  BY ResourcesAre DEF Names, OtherNames
<1> QED BY <1>1 DEF Ask, StepSet, Field, Scratch, Lists

LEMMA AskPlain == Plain(<<Ask>>)
<1>1. <<Ask>> \in Seq(StepSet) /\ Len(<<Ask>>) = 1 /\ <<Ask>>[1] = Ask
  <2>1. \A x \in StepSet : <<x>> \in Seq(StepSet) /\ Len(<<x>>) = 1 /\ <<x>>[1] = x
    OBVIOUS
  <2> QED BY <2>1, AskStep
<1>2. \A k \in 1 .. 1 : k = 1
  OBVIOUS
<1> DEFINE s == <<Ask>>
<1> HIDE DEF s
<1> SUFFICES Plain(s)
  BY DEF s
<1>3. s \in Seq(StepSet) /\ Len(s) = 1 /\ s[1] = Ask
  BY <1>1 DEF s
<1> QED BY <1>2, <1>3, AskStep DEF Plain

\* The first steps, up to the device.
LEMMA DeviceCreates ==
  CreatesOK(DeviceSteps) /\ Given(DeviceSteps) = {Field("phys_devices"), Field("queue_family")}
<1> DEFINE s == DeviceSteps
           r4 == Field("phys_devices")
           r8 == Field("queue_family")
<1>1. /\ s[1] = Alloc(Field("gpu")) /\ s[2] = Create(Field("inst")) /\ s[3] = Ask
      /\ s[4] = Alloc(r4) /\ s[5] = Ask /\ s[6] = Free(r4)
      /\ s[7] = Ask /\ s[8] = Alloc(r8) /\ s[9] = Free(r8)
      /\ s[10] = Ask /\ s[11] = Create(Field("logic_dev"))
      /\ Len(s) = 11
  BY DEF DeviceSteps
<1>2. \A k \in 1 .. 11 : k = 1 \/ k = 2 \/ k = 3 \/ k = 4 \/ k = 5 \/ k = 6 \/ k = 7 \/ k = 8
                        \/ k = 9 \/ k = 10 \/ k = 11
  OBVIOUS
<1>3. /\ r4 \in Resources /\ r8 \in Resources /\ r4 # r8
      /\ r4 \in Scratch /\ r8 \in Scratch /\ r4.name # "buffer" /\ r8.name # "buffer"
  BY ResourcesAre DEF Names, OtherNames, Scratch, Lists, Field
<1>4. \A x \in {"gpu", "inst", "logic_dev"} :
        /\ Field(x) \in Resources /\ Field(x) \notin Scratch /\ Field(x).name # "buffer"
        /\ Field(x) \in Torn \cup Left
  BY PlainFields DEF CreatedNames, LastNames
<1>5. s \in Seq(StepSet)
  <2>1. /\ \A x \in {"gpu", "inst", "logic_dev"} :
             Alloc(Field(x)) \in StepSet /\ Create(Field(x)) \in StepSet
        /\ Alloc(r4) \in StepSet /\ Free(r4) \in StepSet
        /\ Alloc(r8) \in StepSet /\ Free(r8) \in StepSet
    BY <1>3, <1>4 DEF Alloc, Create, Free, StepSet
  <2>2. \A k \in 1 .. 11 : s[k] \in StepSet
    BY <1>1, <1>2, <2>1, AskStep
  <2>3. s = [k \in 1 .. 11 |-> s[k]]
    BY DEF DeviceSteps
  <2> HIDE DEF s
  <2>4. s \in [1 .. 11 -> StepSet]
    BY <2>2, <2>3
  <2> QED BY <2>4, 11 \in Nat, IsSeq
<1> HIDE DEF s, r4, r8
<1>6. /\ \A k \in 1 .. 11 : s[k].do = "destroy" => (k = 6 /\ s[k].res = r4) \/ (k = 9 /\ s[k].res = r8)
      /\ \A k \in {6, 9} : s[k].do = "destroy" /\ s[k].with = {}
      /\ s[6].res = r4 /\ s[9].res = r8 /\ s[4].res = r4 /\ s[8].res = r8
      /\ \A k \in 1 .. 11 : s[k].do # "destroy" =>
            \/ k = 4 \/ k = 8
            \/ s[k].res \notin Scratch /\ (s[k].do # "ask" => s[k].res \in Torn \cup Left)
      /\ \A k \in 1 .. 11 : s[k].do # "destroy" => s[k].res.name # "buffer"
  <2>1. /\ Free(r4) = [do |-> "destroy", res |-> r4, with |-> {}]
        /\ Free(r8) = [do |-> "destroy", res |-> r8, with |-> {}]
        /\ \A r : Alloc(r) = [do |-> "alloc", res |-> r, with |-> {}]
        /\ \A r : Create(r) = [do |-> "create", res |-> r, with |-> {}]
    BY DEF Free, Alloc, Create
  <2> DEFINE Known(k) == /\ s[k].res \notin Scratch /\ s[k].res \in Torn \cup Left
                         /\ s[k].res.name # "buffer"
  <2>2. /\ s[1].do = "alloc" /\ Known(1) /\ s[2].do = "create" /\ Known(2)
        /\ s[11].do = "create" /\ Known(11)
    BY <1>1, <1>4, <2>1
  <2>3. \A k \in {3, 5, 7, 10} :
          s[k].do = "ask" /\ s[k].res \notin Scratch /\ s[k].res.name # "buffer"
    BY <1>1, AskStep
  <2>4. /\ s[4].do = "alloc" /\ s[4].res = r4 /\ s[6].do = "destroy" /\ s[6].res = r4 /\ s[6].with = {}
        /\ s[8].do = "alloc" /\ s[8].res = r8 /\ s[9].do = "destroy" /\ s[9].res = r8 /\ s[9].with = {}
    BY <1>1, <2>1
  <2>5. \A k \in 1 .. 11 : s[k].do = "destroy" => (k = 6 /\ s[k].res = r4) \/ (k = 9 /\ s[k].res = r8)
    BY <1>2, <2>2, <2>3, <2>4
  <2>6. \A k \in 1 .. 11 : s[k].do # "destroy" =>
            \/ k = 4 \/ k = 8
            \/ s[k].res \notin Scratch /\ (s[k].do # "ask" => s[k].res \in Torn \cup Left)
    BY <1>2, <2>2, <2>3, <2>4
  <2>7. \A k \in 1 .. 11 : s[k].do # "destroy" => s[k].res.name # "buffer"
    BY <1>2, <1>3, <2>2, <2>3, <2>4
  <2> QED BY <2>4, <2>5, <2>6, <2>7
<1>7. Given(s) = {r4, r8}
  <2>1. 6 \in 1 .. 11 /\ 9 \in 1 .. 11
    OBVIOUS
  <2> QED BY <1>1, <1>6, <2>1 DEF Given
<1>8. InOrder(s)
  <2> SUFFICES ASSUME NEW i \in 1 .. 11, NEW j \in 1 .. 11, i < j,
                      s[i].do = "destroy", s[j].do = "destroy"
               PROVE  Uses(s[j]) \cap Vanish(s[i].res) = {}
    BY <1>1 DEF InOrder
  <2>1. s[i].res = r4 /\ s[j].res = r8 /\ s[j].with = {}
    BY <1>6
  <2>2. Vanish(r4) = {r4}
    BY <1>3, ScratchIs
  <2> QED BY <2>1, <2>2, <1>3 DEF Uses
<1>9. CreatesKnown(s)
  BY <1>1, <1>3, <1>6 DEF CreatesKnown
<1>10. BlockFirst(s, {})
  BY <1>1, <1>6 DEF BlockFirst
<1>11. FreesScratch(s)
  <2> SUFFICES ASSUME NEW i \in 1 .. 11, s[i].do # "destroy", s[i].res \in Scratch
               PROVE  \E j \in i + 1 .. 11 :
                        /\ s[j].do = "destroy" /\ s[j].res = s[i].res
                        /\ s[i].res = Field("queue_family") => j = i + 1
    BY <1>1 DEF FreesScratch
  <2>1. i = 4 \/ i = 8
    BY <1>6
  <2>2. CASE i = 4
    <3>1. 6 \in i + 1 .. 11
      BY <2>2
    <3> QED BY <2>2, <3>1, <1>3, <1>6 DEF r8
  <2>3. CASE i = 8
    <3>1. 9 \in i + 1 .. 11 /\ 9 = i + 1
      BY <2>3
    <3> QED BY <2>3, <3>1, <1>6
  <2> QED BY <2>1, <2>2, <2>3
<1>12. CreatesOK(s) /\ Given(s) = {r4, r8}
  BY <1>5, <1>7, <1>8, <1>9, <1>10, <1>11 DEF CreatesOK
<1> QED BY <1>12 DEF s, r4, r8

LEMMA PlainSteps ==
  /\ Plain(DepthSteps) /\ Plain(RenderPassSteps) /\ Plain(PoolSteps)
  /\ Plain(Each(layouts, LAMBDA l : Alloc(Field(l))))
<1>1. Plain(CreateFields(<<"depth_stencil_img", "depth_stencil_mem">>))
  <2> DEFINE names == <<"depth_stencil_img", "depth_stencil_mem">>
  <2>1. names[1] = "depth_stencil_img" /\ names[2] = "depth_stencil_mem" /\ DOMAIN names = 1 .. 2
    OBVIOUS
  <2>2. CreateFields(<<"depth_stencil_img", "depth_stencil_mem">>) = FieldsMade(names, 2, FALSE)
    BY <2>1 DEF CreateFields, Each, FieldsMade
  <2>3. \A k \in 1 .. 2 : k = 1 \/ k = 2
    OBVIOUS
  <2> HIDE DEF names
  <2>4. \A k \in 1 .. 2 : names[k] \in CreatedNames
    BY <2>1, <2>3 DEF CreatedNames, LayoutNames, FieldNames
  <2> QED BY <2>2, <2>4, MadeFields, 2 \in Nat
<1>2. Plain(CreateFields(<<"depth_stencil_view">>))
  <2> DEFINE names == <<"depth_stencil_view">>
  <2>1. names[1] = "depth_stencil_view" /\ DOMAIN names = 1 .. 1
    OBVIOUS
  <2>2. CreateFields(<<"depth_stencil_view">>) = FieldsMade(names, 1, FALSE)
    BY <2>1 DEF CreateFields, Each, FieldsMade
  <2>3. \A k \in 1 .. 1 : k = 1
    OBVIOUS
  <2> HIDE DEF names
  <2>4. \A k \in 1 .. 1 : names[k] \in CreatedNames
    BY <2>1, <2>3 DEF CreatedNames, LayoutNames, FieldNames
  <2> QED BY <2>2, <2>4, MadeFields, 1 \in Nat
<1>3. Plain(CreateFields(<<"render_pass">>))
  <2> DEFINE names == <<"render_pass">>
  <2>1. names[1] = "render_pass" /\ DOMAIN names = 1 .. 1
    OBVIOUS
  <2>2. CreateFields(<<"render_pass">>) = FieldsMade(names, 1, FALSE)
    BY <2>1 DEF CreateFields, Each, FieldsMade
  <2>3. \A k \in 1 .. 1 : k = 1
    OBVIOUS
  <2> HIDE DEF names
  <2>4. \A k \in 1 .. 1 : names[k] \in CreatedNames
    BY <2>1, <2>3 DEF CreatedNames, LayoutNames, FieldNames
  <2> QED BY <2>2, <2>4, MadeFields, 1 \in Nat
<1>4. Plain(PoolSteps)
  <2> DEFINE names == <<"present_comp_sem", "render_comp_sem", "desc_pool", "cmd_pool">>
  <2>1. names[1] = "present_comp_sem" /\ names[2] = "render_comp_sem" /\ names[3] = "desc_pool"
        /\ names[4] = "cmd_pool" /\ DOMAIN names = 1 .. 4
    OBVIOUS
  <2>2. PoolSteps = FieldsMade(names, 4, FALSE)
    BY <2>1 DEF PoolSteps, CreateFields, Each, FieldsMade
  <2>3. \A k \in 1 .. 4 : k = 1 \/ k = 2 \/ k = 3 \/ k = 4
    OBVIOUS
  <2> HIDE DEF names
  <2>4. \A k \in 1 .. 4 : names[k] \in CreatedNames
    BY <2>1, <2>3 DEF CreatedNames, LayoutNames, FieldNames
  <2> QED BY <2>2, <2>4, MadeFields, 4 \in Nat
<1>5. Plain(Each(layouts, LAMBDA l : Alloc(Field(l))))
  <2> DEFINE names == <<"bindings_1", "attributes_1", "bindings_2", "attributes_2">>
  <2>1. names[1] = "bindings_1" /\ names[2] = "attributes_1" /\ names[3] = "bindings_2"
        /\ names[4] = "attributes_2" /\ DOMAIN names = 1 .. 4
    OBVIOUS
  <2>2. Each(layouts, LAMBDA l : Alloc(Field(l))) = FieldsMade(names, 4, TRUE)
    BY <2>1 DEF layouts, Each, FieldsMade
  <2>3. \A k \in 1 .. 4 : k = 1 \/ k = 2 \/ k = 3 \/ k = 4
    OBVIOUS
  <2> HIDE DEF names
  <2>4. \A k \in 1 .. 4 : names[k] \in CreatedNames
    BY <2>1, <2>3 DEF CreatedNames, LayoutNames, FieldNames
  <2> QED BY <2>2, <2>4, MadeFields, 4 \in Nat
<1>6. Plain(EachFrame(LAMBDA f : <<Create(Frame(f, "frame_buff"))>>))
  BY MadeFrames DEF FramesMade
<1>7. Plain(DepthSteps)
  BY <1>1, <1>2, AskPlain, ConcatPlain DEF DepthSteps
<1>8. Plain(RenderPassSteps)
  BY <1>3, <1>6, ConcatPlain DEF RenderPassSteps
<1> QED BY <1>4, <1>5, <1>7, <1>8

\* Steps that create what gpuDestroy knows, and the list of images.
Imaged(s) ==
  /\ s \in Seq(StepSet)
  /\ \A i \in 1 .. Len(s) :
       /\ s[i].do # "destroy" /\ s[i].res.name # "buffer"
       /\ s[i].res \in Scratch => s[i].res = Field("images")
       /\ s[i].do # "ask" => s[i].res \in Torn \cup Left \cup Scratch

LEMMA ImagesFreed ==
  ASSUME NEW s, Imaged(s)
  PROVE  LET u == s \o <<Free(Field("images"))>> IN
         CreatesOK(u) /\ Given(u) = {Field("images")}
<1> DEFINE r == Field("images")
           z == <<Free(r)>>
           u == s \o z
<1>1. r \in Resources /\ r \in Scratch /\ r # Field("queue_family")
  BY ResourcesAre DEF Names, OtherNames, Scratch, Lists, Field
<1>2. /\ z \in Seq(StepSet) /\ Len(z) = 1 /\ z[1].do = "destroy" /\ z[1].res = r /\ z[1].with = {}
      /\ \A k \in 1 .. 1 : k = 1
      /\ 1 \in 1 .. 1
  <2>1. Free(r) \in StepSet /\ Free(r).do = "destroy" /\ Free(r).res = r /\ Free(r).with = {}
    BY <1>1 DEF Free, StepSet
  <2>2. \A x \in StepSet : <<x>> \in Seq(StepSet) /\ Len(<<x>>) = 1 /\ <<x>>[1] = x
    OBVIOUS
  <2> QED BY <2>1, <2>2
<1> HIDE DEF r, z
<1>3. InOrder(s) /\ CreatesKnown(s) /\ BlockFirst(s, {}) /\ Given(s) = {} /\ s \in Seq(StepSet)
  BY DEF Imaged, StepSet, InOrder, CreatesKnown, BlockFirst, Given
<1>4. InOrder(z) /\ CreatesKnown(z) /\ BlockFirst(z, {}) /\ Given(z) = {r}
  <2>1. \A i, j \in 1 .. 1 : ~(i < j)
    OBVIOUS
  <2>2. InOrder(z)
    BY <1>2, <2>1 DEF InOrder
  <2>3. CreatesKnown(z) /\ BlockFirst(z, {}) /\ Given(z) = {r}
    BY <1>1, <1>2 DEF CreatesKnown, BlockFirst, Given
  <2> QED BY <2>2, <2>3
<1>5. /\ InOrder(u) /\ CreatesKnown(u) /\ BlockFirst(u, {})
      /\ u \in Seq(StepSet) /\ Given(u) = {r}
  BY <1>2, <1>3, <1>4, ConcatOrder, Concat, ConcatSets
<1>6. FreesScratch(u)
  <2>1. /\ Len(s) \in Nat /\ Len(u) = Len(s) + 1 /\ u[Len(s) + 1] = z[1]
        /\ \A i \in 1 .. Len(s) : u[i] = s[i]
    <3>1. Len(s) \in Nat /\ Len(u) = Len(s) + Len(z)
      BY <1>2, <1>3, Concat
    <3>2. u[Len(s) + 1] = z[1]
      <4>1. 1 \in 1 .. Len(z)
        BY <1>2
      <4>2. \A i \in 1 .. Len(z) : u[Len(s) + i] = z[i]
        <5>1. z \in Seq(StepSet) /\ s \in Seq(StepSet)
          BY <1>2, <1>3
        <5> QED BY <5>1, Concat
      <4> HIDE DEF u
      <4> QED BY <4>1, <4>2
    <3>3. \A i \in 1 .. Len(s) : u[i] = s[i]
      BY <1>2, <1>3, Concat
    <3> QED BY <1>2, <3>1, <3>2, <3>3
  <2> HIDE DEF u
  <2> SUFFICES ASSUME NEW i \in 1 .. Len(u), u[i].do # "destroy", u[i].res \in Scratch
               PROVE  \E j \in i + 1 .. Len(u) :
                        /\ u[j].do = "destroy" /\ u[j].res = u[i].res
                        /\ u[i].res = Field("queue_family") => j = i + 1
    BY DEF FreesScratch
  <2>2. i \in 1 .. Len(s)
    BY <1>2, <2>1
  <2>3. u[i].res = r
    BY <2>1, <2>2 DEF Imaged, r
  <2>4. Len(u) \in i + 1 .. Len(u) /\ Len(u) = Len(s) + 1
    BY <2>1, <2>2
  <2> QED BY <1>1, <1>2, <2>1, <2>3, <2>4
<1> QED BY <1>5, <1>6 DEF CreatesOK, r, z

LEMMA SwapChainCreates == CreatesOK(SwapChainSteps) /\ Given(SwapChainSteps) = {Field("images")}
<1> DEFINE a == <<Create(Field("surface")), Ask, Create(Field("swap_chain")), Ask,
                 Alloc(Field("frames")), Alloc(Field("images"))>>
           v == FramesMade("view")
<1>1. /\ a[1] = Create(Field("surface")) /\ a[2] = Ask /\ a[3] = Create(Field("swap_chain"))
      /\ a[4] = Ask /\ a[5] = Alloc(Field("frames")) /\ a[6] = Alloc(Field("images"))
      /\ Len(a) = 6 /\ a = [k \in 1 .. 6 |-> a[k]]
  OBVIOUS
<1>2. SwapChainSteps = (a \o v) \o <<Free(Field("images"))>>
  BY DEF SwapChainSteps, FramesMade
<1>3. Plain(v)
  BY MadeFrames
<1> HIDE DEF a, v
<1>4. Imaged(a)
  <2>1. \A x \in {"surface", "swap_chain", "frames"} :
          /\ Field(x) \in Resources /\ Field(x) \notin Scratch /\ Field(x).name # "buffer"
          /\ Field(x) \in Torn \cup Left
    BY PlainFields DEF CreatedNames, LastNames, FieldNames
  <2>2. Field("images") \in Resources /\ Field("images") \in Scratch /\ Field("images").name # "buffer"
    BY ResourcesAre DEF Names, OtherNames, Scratch, Lists, Field
  <2> DEFINE Good(st) == /\ st \in StepSet /\ st.do # "destroy" /\ st.res.name # "buffer"
                         /\ st.res \in Scratch => st.res = Field("images")
                         /\ st.do # "ask" => st.res \in Torn \cup Left \cup Scratch
  <2>3. \A x \in {"surface", "swap_chain", "frames"} : Good(Create(Field(x))) /\ Good(Alloc(Field(x)))
    BY <2>1 DEF Create, Alloc, StepSet
  <2>4. Good(Alloc(Field("images")))
    BY <2>2 DEF Alloc, StepSet
  <2>5. Good(Ask)
    BY AskStep
  <2> HIDE DEF Good
  <2>6. \A k \in 1 .. 6 : k = 1 \/ k = 2 \/ k = 3 \/ k = 4 \/ k = 5 \/ k = 6
    OBVIOUS
  <2>7. \A k \in 1 .. 6 : Good(a[k])
    BY <1>1, <2>3, <2>4, <2>5, <2>6
  <2>8. a \in [1 .. 6 -> StepSet]
    BY <1>1, <2>7 DEF Good
  <2>9. a \in Seq(StepSet)
    BY <2>8, 6 \in Nat, IsSeq
  <2> QED BY <1>1, <2>7, <2>9 DEF Imaged, Good
<1>5. Imaged(a \o v)
  <2>1. Imaged(v)
    BY <1>3 DEF Plain, Imaged
  <2> QED BY <1>4, <2>1, Concat DEF Imaged
<1> QED BY <1>2, <1>5, ImagesFreed

\* The command buffers.
LEMMA CommandCreates == CreatesOK(CommandSteps) /\ Given(CommandSteps) = {}
<1> DEFINE s == CommandSteps
           At(f, k) == <<Alloc(Frame(f, "cmd_buff")), Create(Frame(f, "buffer")),
                         Create(Frame(f, "fence"))>>[k]
<1>1. frame_count \in Nat /\ 3 * frame_count \in Nat /\ 3 \in Nat \ {0}
  BY GpuAssumption
<1>2. \A n \in Spots(3) :
        Turn(n, 3) \in 1 .. frame_count /\ Place(n, 3) \in 1 .. 3 /\ n = Spot(Turn(n, 3), Place(n, 3), 3)
  BY <1>1, FrameAt
<1>3. s = [n \in Spots(3) |-> At(Turn(n, 3), Place(n, 3))]
  BY DEF CommandSteps, EachFrame, Turn, Place, Spots
<1>4. \A f : /\ At(f, 1) = Alloc(Frame(f, "cmd_buff")) /\ At(f, 2) = Create(Frame(f, "buffer"))
              /\ At(f, 3) = Create(Frame(f, "fence"))
  OBVIOUS
<1> HIDE DEF At
<1>5. \A k \in 1 .. 3 : k = 1 \/ k = 2 \/ k = 3
  OBVIOUS
<1>6. \A f \in 1 .. frame_count, x \in {"cmd_buff", "buffer", "fence"} :
        Frame(f, x) \in Resources /\ Frame(f, x) \notin Scratch /\ Frame(f, x) \in Torn
  <2> TAKE f \in 1 .. frame_count, x \in {"cmd_buff", "buffer", "fence"}
  <2>1. x \in FrameNames /\ x \in Names
    BY DEF FrameNames, Names
  <2>2. Frame(f, x) \in Torn
    BY <2>1, DestroyTorn DEF Frames
  <2> QED BY <2>1, <2>2, ResourcesAre DEF Frame, Scratch, Lists, Field
<1>7. ASSUME NEW f \in 1 .. frame_count, NEW k \in 1 .. 3
      PROVE  /\ At(f, k) \in StepSet /\ At(f, k).do \in {"alloc", "create"}
             /\ At(f, k).res \notin Scratch /\ At(f, k).res \in Torn
             /\ At(f, k).res.name = "buffer" => k = 2
             /\ k = 2 => At(f, k).res.n = f
             /\ k = 1 => At(f, k).do = "alloc" /\ At(f, k).res = Frame(f, "cmd_buff")
  <2>1. /\ k = 1 => At(f, k) = [do |-> "alloc", res |-> Frame(f, "cmd_buff"), with |-> {}]
        /\ k = 2 => At(f, k) = [do |-> "create", res |-> Frame(f, "buffer"), with |-> {}]
        /\ k = 3 => At(f, k) = [do |-> "create", res |-> Frame(f, "fence"), with |-> {}]
    BY <1>4 DEF Alloc, Create
  <2>2. PICK d \in {"alloc", "create"}, x \in {"cmd_buff", "buffer", "fence"} :
               /\ At(f, k) = [do |-> d, res |-> Frame(f, x), with |-> {}]
               /\ x = "buffer" => k = 2
               /\ k = 1 => d = "alloc" /\ x = "cmd_buff"
    BY <2>1, <1>5
  <2>3. At(f, k) \in StepSet /\ At(f, k).do = d /\ At(f, k).res = Frame(f, x)
    BY <2>2, <1>6 DEF StepSet
  <2>4. Frame(f, x).name = x /\ Frame(f, x).n = f
    BY DEF Frame
  <2> QED BY <2>2, <2>3, <2>4, <1>6
<1>8. \A n \in Spots(3) : s[n] = At(Turn(n, 3), Place(n, 3))
  BY <1>3
<1>9. s \in Seq(StepSet) /\ 1 .. Len(s) = Spots(3)
  <2>1. s \in [Spots(3) -> StepSet]
    BY <1>2, <1>3, <1>7
  <2> QED BY <1>1, <2>1 DEF Spots
<1> HIDE DEF s
<1>10. BlockFirst(s, {})
  <2> SUFFICES ASSUME NEW n \in Spots(3), s[n].res.name = "buffer"
               PROVE  n > 1 /\ s[n - 1].do = "alloc" /\ s[n - 1].res = Frame(s[n].res.n, "cmd_buff")
    BY <1>9 DEF BlockFirst
  <2> DEFINE f == Turn(n, 3)
  <2>1. f \in 1 .. frame_count /\ Place(n, 3) = 2 /\ n = Spot(f, 2, 3) /\ s[n].res.n = f
    BY <1>2, <1>7, <1>8
  <2> HIDE DEF f
  <2>2. n - 1 = Spot(f, 1, 3) /\ n > 1
    BY <1>1, <2>1 DEF Spot
  <2>3. 1 \in 1 .. 3
    OBVIOUS
  <2>4. n - 1 \in Spots(3) /\ Turn(n - 1, 3) = f /\ Place(n - 1, 3) = 1
    BY <1>1, <2>1, <2>2, <2>3, AtFrame
  <2>5. s[n - 1] = At(f, 1)
    BY <1>8, <2>4
  <2>6. At(f, 1).do = "alloc" /\ At(f, 1).res = Frame(f, "cmd_buff")
    BY <1>7, <2>1, <2>3
  <2> QED BY <2>1, <2>2, <2>5, <2>6
<1>11. \A n \in 1 .. Len(s) :
         s[n].do \in {"alloc", "create"} /\ s[n].res \notin Scratch /\ s[n].res \in Torn
  BY <1>2, <1>7, <1>8, <1>9
<1>12. CreatesOK(s) /\ Given(s) = {}
  BY <1>9, <1>10, <1>11 DEF CreatesOK, Given, InOrder, CreatesKnown, FreesScratch
<1> QED BY <1>12 DEF s

LEMMA CreateFacts ==
  /\ CreateSteps \in Seq(StepSet) /\ InOrder(CreateSteps)
  /\ CreatesKnown(CreateSteps) /\ FreesScratch(CreateSteps) /\ BlockFirst(CreateSteps, {})
<1> DEFINE last == Each(layouts, LAMBDA l : Alloc(Field(l)))
           s1 == DeviceSteps \o SwapChainSteps
           s2 == s1 \o DepthSteps
           s3 == s2 \o RenderPassSteps
           s4 == s3 \o PoolSteps
           s5 == s4 \o CommandSteps
<1>1. CreateSteps = s5 \o last
  BY DEF CreateSteps
<1>2. CreatesOK(last) /\ Given(last) = {}
  BY PlainSteps, PlainCreates
<1>3. CreatesOK(s1)
  <2>1. Field("images") # Field("phys_devices") /\ Field("images") # Field("queue_family")
    BY DEF Field
  <2> QED BY <2>1, DeviceCreates, SwapChainCreates, ConcatCreates
<1> HIDE DEF s1, last
<1>4. CreatesOK(s2)
  BY <1>3, PlainSteps, PlainCreates, ConcatCreates
<1> HIDE DEF s2
<1>5. CreatesOK(s3)
  BY <1>4, PlainSteps, PlainCreates, ConcatCreates
<1> HIDE DEF s3
<1>6. CreatesOK(s4)
  BY <1>5, PlainSteps, PlainCreates, ConcatCreates
<1> HIDE DEF s4
<1>7. CreatesOK(s5)
  BY <1>6, CommandCreates, ConcatCreates
<1> HIDE DEF s5
<1>8. CreatesOK(s5 \o last)
  BY <1>2, <1>7, ConcatCreates
<1> QED BY <1>1, <1>8 DEF CreatesOK

-----------------------------------------------------------------------------
(* The objects. *)

LEMMA NamesApart ==
  /\ "gpu" \notin Objects /\ "gpuCreate" \notin Objects /\ "gpuDestroy" \notin Objects
  /\ "none" \notin Objects /\ "gone" \notin Objects
BY GpuAssumption

LEMMA VanishHas == ASSUME NEW r PROVE r \in Vanish(r) /\ (r.of # "gpu" => Vanish(r) = {r})
BY DEF Vanish, Field

\* What an object has.
PartsOf(o, names) == {Part(o, x) : x \in names}

KindParts(o) ==
  CASE Kind[o] = "shader"         -> {"block", "vtx_module", "frag_module", "descriptor_set_layout"}
    [] Kind[o] = "pipeline"       -> {"block", "pipeline_layout", "pipeline"}
    [] Kind[o] = "uniform_buffer" -> {"block", "buffer", "dev_mem"}
    [] Kind[o] = "mesh"           -> {"block", "idx_buff", "vtx_buff", "idx_mem", "vtx_mem"}
    [] Kind[o] = "descriptor"     -> {"block", "set"}

LEMMA ThePart ==
  ASSUME NEW o \in Objects, NEW x \in PartNames
  PROVE  /\ Part(o, x) \in Resources /\ Part(o, x).of = o /\ Part(o, x).of # "gpu"
         /\ Vanish(Part(o, x)) = {Part(o, x)} /\ Part(o, x) \notin Scratch
         /\ \A y : Part(o, x) = Part(o, y) => x = y
         /\ \A y : Part(o, x) # Field(y)
<1>1. x \in Names
  BY DEF Names
<1>2. Part(o, x).of = o /\ o # "gpu"
  BY NamesApart DEF Part
<1> QED BY <1>1, <1>2, ResourcesAre, VanishHas, ScratchIs DEF Part, Field

\* One step that destroys.
LEMMA OneTears ==
  ASSUME NEW r \in Resources, NEW W \in SUBSET Resources, ({r} \cup W) \cap Scratch = {}
  PROVE  LET s == <<Destroy(r, W)>> IN
         Tears(s) /\ Given(s) = {r} /\ AllUses(s) = {r} \cup W
<1> DEFINE s == <<Destroy(r, W)>>
<1>1. Destroy(r, W) \in StepSet
  BY DEF Destroy, StepSet
<1>2. s \in Seq(StepSet) /\ Len(s) = 1 /\ s[1] = Destroy(r, W)
  <2>1. \A x \in StepSet : <<x>> \in Seq(StepSet) /\ Len(<<x>>) = 1 /\ <<x>>[1] = x
    OBVIOUS
  <2> QED BY <1>1, <2>1
<1> HIDE DEF s
<1>3. (\A k \in 1 .. 1 : k = 1) /\ 1 \in 1 .. 1 /\ \A i, j \in 1 .. 1 : ~(i < j)
  OBVIOUS
<1>4. s[1].do = "destroy" /\ s[1].res = r /\ Uses(s[1]) = {r} \cup W
  BY <1>2 DEF Destroy, Uses
<1>5. Given(s) = {r} /\ AllUses(s) = {r} \cup W
  BY <1>2, <1>3, <1>4 DEF Given, AllUses
<1>6. InOrder(s)
  BY <1>2, <1>3 DEF InOrder
<1>7. Tears(s)
  BY <1>2, <1>3, <1>4, <1>6 DEF Tears
<1> QED BY <1>5, <1>7 DEF s

\* The handles of an object one after the other, then its block.
PartsGone(o, names, N) ==
  [k \in 1 .. N |-> Destroy(Part(o, names[k]), device)] \o <<Free(Part(o, "block"))>>

LEMMA GoneParts ==
  ASSUME NEW o \in Objects, NEW N \in Nat, NEW names,
         \A i, j \in 1 .. N : i # j => names[i] # names[j],
         \A i \in 1 .. N : names[i] \in PartNames \ {"block"}
  PROVE  LET s == PartsGone(o, names, N) IN
         Tears(s) /\ Given(s) = PartsOf(o, {names[k] : k \in 1 .. N} \cup {"block"})
<1> DEFINE h == [k \in 1 .. N |-> Part(o, names[k])]
           s == Gone(h, device)
           t == <<Destroy(Part(o, "block"), {})>>
<1>1. h \in Seq(Resources) /\ Len(h) = N /\ \A k \in 1 .. N : h[k] = Part(o, names[k])
  <2>1. h \in [1 .. N -> Resources]
    BY ThePart
  <2> QED BY <2>1, IsSeq
<1>2. device \subseteq Resources /\ device \cap Scratch = {}
  BY ResourcesAre DEF device, Names, LastNames, Scratch, Lists, Field
<1>3. PartsGone(o, names, N) = s \o t
  BY <1>1 DEF PartsGone, Gone, Free, Destroy
<1> HIDE DEF h
<1>4. ASSUME NEW i \in 1 .. N, NEW j \in 1 .. N, i < j
      PROVE  ({h[j]} \cup device) \cap Vanish(h[i]) = {}
  <2>1. names[j] # names[i]
    BY <1>4
  <2> QED BY <1>1, <2>1, ThePart DEF device
<1>5. \A i \in 1 .. N : ({h[i]} \cup device) \cap Scratch = {}
  BY <1>1, <1>2, ThePart
<1>6. Tears(s) /\ Given(s) = {h[k] : k \in 1 .. N}
  BY <1>1, <1>2, <1>4, <1>5, DestroyedList
<1>7. "block" \in PartNames
  BY DEF PartNames
<1>8. Tears(t) /\ Given(t) = {Part(o, "block")} /\ AllUses(t) = {Part(o, "block")}
  BY <1>7, ThePart, OneTears
<1> HIDE DEF s, t
<1>9. Tears(s \o t) /\ Given(s \o t) = Given(s) \cup Given(t)
  <2>1. ASSUME NEW r \in Given(s) PROVE AllUses(t) \cap Vanish(r) = {}
    <3>1. PICK k \in 1 .. N : r = Part(o, names[k]) /\ names[k] \in PartNames /\ names[k] # "block"
      BY <1>1, <1>6
    <3> QED BY <1>8, <3>1, ThePart
  <2> QED BY <1>6, <1>8, <2>1, ConcatTears
<1>10. Given(s \o t) = PartsOf(o, {names[k] : k \in 1 .. N} \cup {"block"})
  BY <1>1, <1>6, <1>8, <1>9 DEF PartsOf
<1> QED BY <1>3, <1>9, <1>10

LEMMA UnmakeTears ==
  ASSUME NEW o \in Objects
  PROVE  Tears(UnmakeSteps(o)) /\ Given(UnmakeSteps(o)) = PartsOf(o, KindParts(o))
<1>1. CASE Kind[o] = "shader"
  <2> DEFINE names == <<"vtx_module", "frag_module", "descriptor_set_layout">>
  <2>1. names[1] = "vtx_module" /\ names[2] = "frag_module" /\ names[3] = "descriptor_set_layout"
        /\ DOMAIN names = 1 .. 3
    OBVIOUS
  <2>2. UnmakeSteps(o) = PartsGone(o, names, 3)
    BY <1>1, <2>1 DEF UnmakeSteps, gpuDestroyShader, NoParts, PartsGone, Each
  <2>3. (\A k \in 1 .. 3 : k = 1 \/ k = 2 \/ k = 3) /\ 1 \in 1 .. 3 /\ 2 \in 1 .. 3 /\ 3 \in 1 .. 3
    OBVIOUS
  <2> HIDE DEF names
  <2>4. \A i, j \in 1 .. 3 : i # j => names[i] # names[j]
    BY <2>1, <2>3, ZenonT(60)
  <2>5. \A i \in 1 .. 3 : names[i] \in PartNames \ {"block"}
    BY <2>1, <2>3 DEF PartNames
  <2>6. {names[k] : k \in 1 .. 3} = {"vtx_module", "frag_module", "descriptor_set_layout"}
    BY <2>1, <2>3
  <2>7. KindParts(o) = {names[k] : k \in 1 .. 3} \cup {"block"}
    BY <1>1, <2>6 DEF KindParts
  <2> QED BY <2>2, <2>4, <2>5, <2>7, GoneParts, 3 \in Nat
<1>2. CASE Kind[o] = "pipeline"
  <2> DEFINE names == <<"pipeline_layout", "pipeline">>
  <2>1. names[1] = "pipeline_layout" /\ names[2] = "pipeline" /\ DOMAIN names = 1 .. 2
    OBVIOUS
  <2>2. UnmakeSteps(o) = PartsGone(o, names, 2)
    BY <1>2, <2>1 DEF UnmakeSteps, gpuDestroyPipeline, NoParts, PartsGone, Each
  <2>3. (\A k \in 1 .. 2 : k = 1 \/ k = 2) /\ 1 \in 1 .. 2 /\ 2 \in 1 .. 2
    OBVIOUS
  <2> HIDE DEF names
  <2>4. \A i, j \in 1 .. 2 : i # j => names[i] # names[j]
    BY <2>1, <2>3, ZenonT(60)
  <2>5. \A i \in 1 .. 2 : names[i] \in PartNames \ {"block"}
    BY <2>1, <2>3 DEF PartNames
  <2>6. {names[k] : k \in 1 .. 2} = {"pipeline_layout", "pipeline"}
    BY <2>1, <2>3
  <2>7. KindParts(o) = {names[k] : k \in 1 .. 2} \cup {"block"}
    BY <1>2, <2>6 DEF KindParts
  <2> QED BY <2>2, <2>4, <2>5, <2>7, GoneParts, 2 \in Nat
<1>3. CASE Kind[o] = "uniform_buffer"
  <2> DEFINE names == <<"buffer", "dev_mem">>
  <2>1. names[1] = "buffer" /\ names[2] = "dev_mem" /\ DOMAIN names = 1 .. 2
    OBVIOUS
  <2>2. UnmakeSteps(o) = PartsGone(o, names, 2)
    BY <1>3, <2>1 DEF UnmakeSteps, gpuDestroyUniformBuffer, NoParts, PartsGone, Each
  <2>3. (\A k \in 1 .. 2 : k = 1 \/ k = 2) /\ 1 \in 1 .. 2 /\ 2 \in 1 .. 2
    OBVIOUS
  <2> HIDE DEF names
  <2>4. \A i, j \in 1 .. 2 : i # j => names[i] # names[j]
    BY <2>1, <2>3, ZenonT(60)
  <2>5. \A i \in 1 .. 2 : names[i] \in PartNames \ {"block"}
    BY <2>1, <2>3 DEF PartNames
  <2>6. {names[k] : k \in 1 .. 2} = {"buffer", "dev_mem"}
    BY <2>1, <2>3
  <2>7. KindParts(o) = {names[k] : k \in 1 .. 2} \cup {"block"}
    BY <1>3, <2>6 DEF KindParts
  <2> QED BY <2>2, <2>4, <2>5, <2>7, GoneParts, 2 \in Nat
<1>4. CASE Kind[o] = "mesh"
  <2> DEFINE names == <<"idx_buff", "vtx_buff", "idx_mem", "vtx_mem">>
  <2>1. names[1] = "idx_buff" /\ names[2] = "vtx_buff" /\ names[3] = "idx_mem"
        /\ names[4] = "vtx_mem" /\ DOMAIN names = 1 .. 4
    OBVIOUS
  <2>2. UnmakeSteps(o) = PartsGone(o, names, 4)
    BY <1>4, <2>1 DEF UnmakeSteps, gpuDestroyMesh, NoParts, PartsGone, Each
  <2>3. (\A k \in 1 .. 4 : k = 1 \/ k = 2 \/ k = 3 \/ k = 4) /\ 1 \in 1 .. 4 /\ 2 \in 1 .. 4
        /\ 3 \in 1 .. 4 /\ 4 \in 1 .. 4
    OBVIOUS
  <2> HIDE DEF names
  <2>4. \A i, j \in 1 .. 4 : i # j => names[i] # names[j]
    BY <2>1, <2>3, ZenonT(60)
  <2>5. \A i \in 1 .. 4 : names[i] \in PartNames \ {"block"}
    BY <2>1, <2>3 DEF PartNames
  <2>6. {names[k] : k \in 1 .. 4} = {"idx_buff", "vtx_buff", "idx_mem", "vtx_mem"}
    BY <2>1, <2>3
  <2>7. KindParts(o) = {names[k] : k \in 1 .. 4} \cup {"block"}
    BY <1>4, <2>6 DEF KindParts
  <2> QED BY <2>2, <2>4, <2>5, <2>7, GoneParts, 4 \in Nat
<1>5. CASE Kind[o] = "descriptor"
  <2> DEFINE W == device \cup {Field("desc_pool")}
             s == UnmakeSteps(o)
             x == Part(o, "set")
             y == Part(o, "block")
  <2>1. s[1] = Destroy(x, W) /\ s[2] = Destroy(y, {}) /\ Len(s) = 2
        /\ s = <<Destroy(x, W), Destroy(y, {})>>
    BY <1>5 DEF UnmakeSteps, gpuDestroyDescriptorSets, Free, Destroy
  <2>2. /\ x \in Resources /\ y \in Resources /\ x # y /\ x \notin Scratch /\ y \notin Scratch
        /\ Vanish(x) = {x}
    <3>1. "set" \in PartNames /\ "block" \in PartNames
      BY DEF PartNames
    <3> QED BY <3>1, ThePart
  <2>3. W \subseteq Resources /\ W \cap Scratch = {}
    BY ResourcesAre DEF device, Names, LastNames, FieldNames, Scratch, Lists, Field
  <2> HIDE DEF s, W, x, y
  <2>4. s \in Seq(StepSet)
    <3>1. Destroy(x, W) \in StepSet /\ Destroy(y, {}) \in StepSet
      BY <2>2, <2>3 DEF Destroy, StepSet
    <3>2. \A a, b \in StepSet : <<a, b>> \in Seq(StepSet)
      OBVIOUS
    <3> QED BY <2>1, <3>1, <3>2
  <2>5. /\ s[1].do = "destroy" /\ s[1].res = x /\ Uses(s[1]) = {x} \cup W
        /\ s[2].do = "destroy" /\ s[2].res = y /\ Uses(s[2]) = {y}
    BY <2>1 DEF Destroy, Uses
  <2>6. (\A k \in 1 .. 2 : k = 1 \/ k = 2) /\ 1 \in 1 .. 2 /\ 2 \in 1 .. 2
    OBVIOUS
  <2>7. InOrder(s)
    <3> SUFFICES ASSUME NEW i \in 1 .. 2, NEW j \in 1 .. 2, i < j
                 PROVE  Uses(s[j]) \cap Vanish(s[i].res) = {}
      BY <2>1 DEF InOrder
    <3>1. i = 1 /\ j = 2
      OBVIOUS
    <3> QED BY <2>2, <2>5, <3>1
  <2>8. Given(s) = {x, y}
    BY <2>1, <2>5, <2>6 DEF Given
  <2>9. \A k \in 1 .. 2 : s[k].do = "destroy" /\ Uses(s[k]) \cap Scratch = {}
    BY <2>2, <2>3, <2>5, <2>6
  <2>10. Tears(s)
    BY <2>1, <2>4, <2>7, <2>9 DEF Tears
  <2>11. PartsOf(o, KindParts(o)) = {x, y}
    BY <1>5 DEF KindParts, PartsOf, x, y
  <2> QED BY <2>8, <2>10, <2>11 DEF s
<1> QED BY <1>1, <1>2, <1>3, <1>4, <1>5, GpuAssumption DEF Kinds

LEMMA UnmakeFacts ==
  ASSUME NEW o \in Objects
  PROVE  /\ UnmakeSteps(o) \in Seq(StepSet) /\ InOrder(UnmakeSteps(o))
         /\ \A i \in 1 .. Len(UnmakeSteps(o)) :
              LET s == UnmakeSteps(o)[i] IN
              s.do = "destroy" /\ s.res.of = o /\ Uses(s) \cap Scratch = {}
         /\ \A r \in Given(UnmakeSteps(o)) : r.of = o
<1>1. Tears(UnmakeSteps(o)) /\ Given(UnmakeSteps(o)) = PartsOf(o, KindParts(o))
  BY UnmakeTears
<1>2. \A r \in Given(UnmakeSteps(o)) : r.of = o
  BY <1>1 DEF PartsOf, Part
<1>3. \A i \in 1 .. Len(UnmakeSteps(o)) : UnmakeSteps(o)[i].res \in Given(UnmakeSteps(o))
  BY <1>1 DEF Tears, Given
<1> QED BY <1>1, <1>2, <1>3 DEF Tears

\* A list that creates some of an object, and asks.
Builds(s, o, names) ==
  /\ s \in Seq(StepSet)
  /\ \A i \in 1 .. Len(s) :
       s[i].do = "ask" \/ (s[i].do \in {"create", "alloc"} /\ s[i].res \in PartsOf(o, names))

\* It begins with the object's block.
Begins(s, o) == Len(s) \in Nat \ {0} /\ s[1] = Alloc(Part(o, "block"))

LEMMA ConcatBuilds ==
  ASSUME NEW o, NEW names, NEW s, NEW t, Builds(s, o, names), Builds(t, o, names)
  PROVE  Builds(s \o t, o, names) /\ (Begins(s, o) => Begins(s \o t, o))
<1>1. s \in Seq(StepSet) /\ t \in Seq(StepSet)
  BY DEF Builds
<1>2. Builds(s \o t, o, names)
  <2> SUFFICES ASSUME NEW i \in 1 .. Len(s \o t)
               PROVE  \/ (s \o t)[i].do = "ask"
                      \/ (s \o t)[i].do \in {"create", "alloc"} /\ (s \o t)[i].res \in PartsOf(o, names)
    BY <1>1, Concat DEF Builds
  <2>1. CASE i \in 1 .. Len(s)
    <3>1. (s \o t)[i] = s[i]
      BY <1>1, <2>1, Concat
    <3> QED BY <2>1, <3>1 DEF Builds
  <2>2. CASE i \notin 1 .. Len(s)
    <3>1. i - Len(s) \in 1 .. Len(t) /\ (s \o t)[i] = t[i - Len(s)]
      BY <1>1, <2>2, Concat
    <3> QED BY <3>1 DEF Builds
  <2> QED BY <2>1, <2>2
<1>3. ASSUME Begins(s, o) PROVE Begins(s \o t, o)
  <2>1. 1 \in 1 .. Len(s)
    BY <1>3 DEF Begins
  <2>2. (s \o t)[1] = s[1] /\ Len(s \o t) = Len(s) + Len(t) /\ Len(t) \in Nat
    BY <1>1, <2>1, Concat
  <2> QED BY <1>3, <2>2 DEF Begins
<1> QED BY <1>2, <1>3

LEMMA BlockBuilds ==
  ASSUME NEW o \in Objects
  PROVE  /\ Builds(<<Alloc(Part(o, "block"))>>, o, KindParts(o))
         /\ Begins(<<Alloc(Part(o, "block"))>>, o)
         /\ Builds(<<Ask>>, o, KindParts(o)) /\ Builds(<<Ask, Ask>>, o, KindParts(o))
<1> DEFINE r == Part(o, "block")
           s == <<Alloc(r)>>
           t == <<Ask>>
           u == <<Ask, Ask>>
<1>1. r \in Resources /\ r \in PartsOf(o, KindParts(o))
  <2>1. "block" \in PartNames
    BY DEF PartNames
  <2>2. "block" \in KindParts(o)
    BY GpuAssumption DEF KindParts, Kinds
  <2> QED BY <2>1, <2>2, ThePart DEF PartsOf
<1>2. Alloc(r) \in StepSet /\ Alloc(r).do = "alloc" /\ Alloc(r).res = r
  BY <1>1 DEF Alloc, StepSet
<1>3. /\ s \in Seq(StepSet) /\ Len(s) = 1 /\ s[1] = Alloc(r)
      /\ t \in Seq(StepSet) /\ Len(t) = 1 /\ t[1] = Ask
      /\ u \in Seq(StepSet) /\ Len(u) = 2 /\ u[1] = Ask /\ u[2] = Ask
  <2>1. /\ \A x \in StepSet : <<x>> \in Seq(StepSet) /\ Len(<<x>>) = 1 /\ <<x>>[1] = x
        /\ \A x, y \in StepSet : /\ <<x, y>> \in Seq(StepSet) /\ Len(<<x, y>>) = 2
                                 /\ <<x, y>>[1] = x /\ <<x, y>>[2] = y
    OBVIOUS
  <2> QED BY <1>2, <2>1, AskStep
<1>4. (\A k \in 1 .. 1 : k = 1) /\ (\A k \in 1 .. 2 : k = 1 \/ k = 2)
  OBVIOUS
<1> HIDE DEF s, t, u
<1>5. Builds(s, o, KindParts(o))
  BY <1>1, <1>2, <1>3, <1>4 DEF Builds
<1>6. Builds(t, o, KindParts(o)) /\ Builds(u, o, KindParts(o))
  BY <1>3, <1>4, AskStep DEF Builds
<1>7. Begins(s, o)
  BY <1>3 DEF Begins, r
<1> QED BY <1>5, <1>6, <1>7 DEF s, t, u, r

\* The handles of an object one after the other.
PartsMade(o, names, N) == [k \in 1 .. N |-> Create(Part(o, names[k]))]

LEMMA MadeParts ==
  ASSUME NEW o \in Objects, NEW N \in Nat, NEW names,
         \A k \in 1 .. N : names[k] \in KindParts(o) /\ names[k] \in PartNames
  PROVE  Builds(PartsMade(o, names, N), o, KindParts(o))
<1> DEFINE s == PartsMade(o, names, N)
<1>1. \A k \in 1 .. N :
        s[k] \in StepSet /\ s[k].do = "create" /\ s[k].res \in PartsOf(o, KindParts(o))
  BY ThePart DEF PartsMade, Create, StepSet, PartsOf
<1>2. s \in [1 .. N -> StepSet]
  BY <1>1 DEF PartsMade
<1>3. s \in Seq(StepSet) /\ Len(s) = N
  BY <1>2, IsSeq
<1> HIDE DEF s
<1>4. Builds(s, o, KindParts(o))
  BY <1>1, <1>3 DEF Builds
<1> QED BY <1>4 DEF s

LEMMA MakeBuilds ==
  ASSUME NEW o \in Objects
  PROVE  Builds(MakeSteps(o), o, KindParts(o)) /\ Begins(MakeSteps(o), o)
<1>1. CASE Kind[o] = "shader"
  <2>1. Builds(Each(<<"vtx_module", "frag_module", "descriptor_set_layout">>,
            LAMBDA p : Create(Part(o, p))), o, KindParts(o))
    <3> DEFINE names == <<"vtx_module", "frag_module", "descriptor_set_layout">>
    <3>1. names[1] = "vtx_module" /\ names[2] = "frag_module"
          /\ names[3] = "descriptor_set_layout" /\ DOMAIN names = 1 .. 3
      OBVIOUS
    <3>2. Each(names, LAMBDA p : Create(Part(o, p))) = PartsMade(o, names, 3)
      BY <3>1 DEF Each, PartsMade
    <3>3. \A k \in 1 .. 3 : k = 1 \/ k = 2 \/ k = 3
      OBVIOUS
    <3> HIDE DEF names
    <3>4. \A k \in 1 .. 3 : names[k] \in {"vtx_module", "frag_module", "descriptor_set_layout"}
      BY <3>1, <3>3
    <3>5. \A x \in {"vtx_module", "frag_module", "descriptor_set_layout"} :
             x \in KindParts(o) /\ x \in PartNames
      BY <1>1 DEF KindParts, PartNames
    <3>6. Builds(PartsMade(o, names, 3), o, KindParts(o))
      BY <3>4, <3>5, MadeParts, 3 \in Nat
    <3> QED BY <3>2, <3>6 DEF names
  <2>2. MakeSteps(o) = <<Alloc(Part(o, "block"))>>
            \o Each(<<"vtx_module", "frag_module", "descriptor_set_layout">>,
                LAMBDA p : Create(Part(o, p)))
    BY <1>1 DEF MakeSteps, gpuCreateShader, Parts
  <2> QED BY <2>1, <2>2, BlockBuilds, ConcatBuilds
<1>2. CASE Kind[o] = "pipeline"
  <2>1. Builds(Each(<<"pipeline_layout", "pipeline">>, LAMBDA p : Create(Part(o, p))), o, KindParts(o))
    <3> DEFINE names == <<"pipeline_layout", "pipeline">>
    <3>1. names[1] = "pipeline_layout" /\ names[2] = "pipeline" /\ DOMAIN names = 1 .. 2
      OBVIOUS
    <3>2. Each(names, LAMBDA p : Create(Part(o, p))) = PartsMade(o, names, 2)
      BY <3>1 DEF Each, PartsMade
    <3>3. \A k \in 1 .. 2 : k = 1 \/ k = 2
      OBVIOUS
    <3> HIDE DEF names
    <3>4. \A k \in 1 .. 2 : names[k] \in {"pipeline_layout", "pipeline"}
      BY <3>1, <3>3
    <3>5. \A x \in {"pipeline_layout", "pipeline"} : x \in KindParts(o) /\ x \in PartNames
      BY <1>2 DEF KindParts, PartNames
    <3>6. Builds(PartsMade(o, names, 2), o, KindParts(o))
      BY <3>4, <3>5, MadeParts, 2 \in Nat
    <3> QED BY <3>2, <3>6 DEF names
  <2>2. MakeSteps(o) = <<Alloc(Part(o, "block"))>> \o Each(<<"pipeline_layout", "pipeline">>,
            LAMBDA p : Create(Part(o, p)))
    BY <1>2 DEF MakeSteps, gpuCreatePipeline, Parts
  <2> QED BY <2>1, <2>2, BlockBuilds, ConcatBuilds
<1>3. CASE Kind[o] = "uniform_buffer"
  <2>1. Builds(Each(<<"buffer", "dev_mem">>, LAMBDA p : Create(Part(o, p))), o, KindParts(o))
    <3> DEFINE names == <<"buffer", "dev_mem">>
    <3>1. names[1] = "buffer" /\ names[2] = "dev_mem" /\ DOMAIN names = 1 .. 2
      OBVIOUS
    <3>2. Each(names, LAMBDA p : Create(Part(o, p))) = PartsMade(o, names, 2)
      BY <3>1 DEF Each, PartsMade
    <3>3. \A k \in 1 .. 2 : k = 1 \/ k = 2
      OBVIOUS
    <3> HIDE DEF names
    <3>4. \A k \in 1 .. 2 : names[k] \in {"buffer", "dev_mem"}
      BY <3>1, <3>3
    <3>5. \A x \in {"buffer", "dev_mem"} : x \in KindParts(o) /\ x \in PartNames
      BY <1>3 DEF KindParts, PartNames
    <3>6. Builds(PartsMade(o, names, 2), o, KindParts(o))
      BY <3>4, <3>5, MadeParts, 2 \in Nat
    <3> QED BY <3>2, <3>6 DEF names
  <2>2. MakeSteps(o) = <<Alloc(Part(o, "block"))>> \o Each(<<"buffer", "dev_mem">>,
            LAMBDA p : Create(Part(o, p))) \o <<Ask>>
    BY <1>3 DEF MakeSteps, gpuCreateUniformBuffer, Parts
  <2> DEFINE p == Each(<<"buffer", "dev_mem">>, LAMBDA x : Create(Part(o, x)))
             s1 == <<Alloc(Part(o, "block"))>> \o p
             a == <<Ask>>
  <2>3. MakeSteps(o) = s1 \o a
    BY <2>2
  <2>4. Builds(p, o, KindParts(o)) /\ Builds(a, o, KindParts(o))
    BY <2>1, BlockBuilds
  <2> HIDE DEF p, a
  <2>5. Builds(s1, o, KindParts(o)) /\ Begins(s1, o)
    BY <2>4, BlockBuilds, ConcatBuilds
  <2> HIDE DEF s1
  <2>6. Builds(s1 \o a, o, KindParts(o)) /\ Begins(s1 \o a, o)
    BY <2>4, <2>5, ConcatBuilds
  <2> QED BY <2>3, <2>6
<1>4. CASE Kind[o] = "descriptor"
  <2>1. Builds(Each(<<"set">>, LAMBDA p : Create(Part(o, p))), o, KindParts(o))
    <3> DEFINE names == <<"set">>
    <3>1. names[1] = "set" /\ DOMAIN names = 1 .. 1
      OBVIOUS
    <3>2. Each(names, LAMBDA p : Create(Part(o, p))) = PartsMade(o, names, 1)
      BY <3>1 DEF Each, PartsMade
    <3>3. \A k \in 1 .. 1 : k = 1
      OBVIOUS
    <3> HIDE DEF names
    <3>4. \A k \in 1 .. 1 : names[k] \in {"set"}
      BY <3>1, <3>3
    <3>5. \A x \in {"set"} : x \in KindParts(o) /\ x \in PartNames
      BY <1>4 DEF KindParts, PartNames
    <3>6. Builds(PartsMade(o, names, 1), o, KindParts(o))
      BY <3>4, <3>5, MadeParts, 1 \in Nat
    <3> QED BY <3>2, <3>6 DEF names
  <2>2. MakeSteps(o) = <<Alloc(Part(o, "block"))>> \o Each(<<"set">>, LAMBDA p : Create(Part(o, p)))
    BY <1>4 DEF MakeSteps, gpuCreateDescriptorSets, Parts
  <2> QED BY <2>1, <2>2, BlockBuilds, ConcatBuilds
<1>5. CASE Kind[o] = "mesh"
  <2>1. Builds(Each(<<"vtx_buff", "vtx_mem">>, LAMBDA p : Create(Part(o, p))), o, KindParts(o))
    <3> DEFINE names == <<"vtx_buff", "vtx_mem">>
    <3>1. names[1] = "vtx_buff" /\ names[2] = "vtx_mem" /\ DOMAIN names = 1 .. 2
      OBVIOUS
    <3>2. Each(names, LAMBDA p : Create(Part(o, p))) = PartsMade(o, names, 2)
      BY <3>1 DEF Each, PartsMade
    <3>3. \A k \in 1 .. 2 : k = 1 \/ k = 2
      OBVIOUS
    <3> HIDE DEF names
    <3>4. \A k \in 1 .. 2 : names[k] \in {"vtx_buff", "vtx_mem"}
      BY <3>1, <3>3
    <3>5. \A x \in {"vtx_buff", "vtx_mem"} : x \in KindParts(o) /\ x \in PartNames
      BY <1>5 DEF KindParts, PartNames
    <3>6. Builds(PartsMade(o, names, 2), o, KindParts(o))
      BY <3>4, <3>5, MadeParts, 2 \in Nat
    <3> QED BY <3>2, <3>6 DEF names
  <2>2. Builds(Each(<<"idx_buff", "idx_mem">>, LAMBDA p : Create(Part(o, p))), o, KindParts(o))
    <3> DEFINE names == <<"idx_buff", "idx_mem">>
    <3>1. names[1] = "idx_buff" /\ names[2] = "idx_mem" /\ DOMAIN names = 1 .. 2
      OBVIOUS
    <3>2. Each(names, LAMBDA p : Create(Part(o, p))) = PartsMade(o, names, 2)
      BY <3>1 DEF Each, PartsMade
    <3>3. \A k \in 1 .. 2 : k = 1 \/ k = 2
      OBVIOUS
    <3> HIDE DEF names
    <3>4. \A k \in 1 .. 2 : names[k] \in {"idx_buff", "idx_mem"}
      BY <3>1, <3>3
    <3>5. \A x \in {"idx_buff", "idx_mem"} : x \in KindParts(o) /\ x \in PartNames
      BY <1>5 DEF KindParts, PartNames
    <3>6. Builds(PartsMade(o, names, 2), o, KindParts(o))
      BY <3>4, <3>5, MadeParts, 2 \in Nat
    <3> QED BY <3>2, <3>6 DEF names
  <2> DEFINE v == Each(<<"vtx_buff", "vtx_mem">>, LAMBDA p : Create(Part(o, p)))
             i == Each(<<"idx_buff", "idx_mem">>, LAMBDA p : Create(Part(o, p)))
             s1 == <<Alloc(Part(o, "block"))>> \o v
             s2 == s1 \o <<Ask, Ask>>
             s3 == s2 \o i
  <2>3. MakeSteps(o) = s3 \o <<Ask, Ask>>
    BY <1>5 DEF MakeSteps, gpuCreateMesh, Parts
  <2> HIDE DEF v, i
  <2>4. Builds(v, o, KindParts(o)) /\ Builds(i, o, KindParts(o))
    BY <2>1, <2>2 DEF v, i
  <2>5. Builds(s1, o, KindParts(o)) /\ Begins(s1, o)
    BY <2>4, BlockBuilds, ConcatBuilds
  <2> HIDE DEF s1
  <2>6. Builds(s2, o, KindParts(o)) /\ Begins(s2, o)
    BY <2>5, BlockBuilds, ConcatBuilds
  <2> HIDE DEF s2
  <2>7. Builds(s3, o, KindParts(o)) /\ Begins(s3, o)
    BY <2>4, <2>6, ConcatBuilds
  <2> HIDE DEF s3
  <2> DEFINE a == <<Ask, Ask>>
  <2>8. Builds(a, o, KindParts(o)) /\ MakeSteps(o) = s3 \o a
    BY <2>3, BlockBuilds
  <2> HIDE DEF a
  <2>9. Builds(s3 \o a, o, KindParts(o)) /\ Begins(s3 \o a, o)
    BY <2>7, <2>8, ConcatBuilds
  <2> QED BY <2>8, <2>9
<1> QED BY <1>1, <1>2, <1>3, <1>4, <1>5, GpuAssumption DEF Kinds

LEMMA MakeFacts ==
  ASSUME NEW o \in Objects
  PROVE  /\ MakeSteps(o) \in Seq(StepSet)
         /\ \A i \in 1 .. Len(MakeSteps(o)) :
              LET s == MakeSteps(o)[i] IN
              /\ s.do # "destroy"
              /\ s.do \in {"create", "alloc"} => s.res \in Given(UnmakeSteps(o))
         /\ MakeSteps(o) # << >> /\ MakeSteps(o)[1] = Alloc(Part(o, "block"))
<1>1. Builds(MakeSteps(o), o, KindParts(o)) /\ Begins(MakeSteps(o), o)
  BY MakeBuilds
<1>2. Given(UnmakeSteps(o)) = PartsOf(o, KindParts(o))
  BY UnmakeTears
<1>3. MakeSteps(o) # << >>
  BY <1>1 DEF Builds, Begins
<1> QED BY <1>1, <1>2, <1>3 DEF Builds, Begins

-----------------------------------------------------------------------------
(* Steps. *)

(* A step that creates something, or asks. *)
LEMMA SucceedsCommon ==
  ASSUME GpuInv, todo # << >>, Succeeds, todo' = Tail(todo), UNCHANGED <<call, made, failed>>
  PROVE  /\ Common'
         /\ call \notin Ends /\ call # "none" /\ todo[1].do # "destroy"
         /\ \/ live' = live /\ handles' = handles /\ todo[1].do = "ask"
            \/ /\ live' = live \cup {todo[1].res} /\ handles' = handles \cup {todo[1].res}
               /\ todo[1].do \in {"alloc", "create"}
         /\ Tail(todo) \in Seq(StepSet) /\ Len(todo) \in Nat \ {0}
         /\ Len(Tail(todo)) = Len(todo) - 1
         /\ \A i \in 1 .. Len(Tail(todo)) : Tail(todo)[i] = todo[i + 1] /\ i + 1 \in 1 .. Len(todo)
<1>1. /\ todo \in Seq(StepSet) /\ Tail(todo) \in Seq(StepSet) /\ Len(todo) \in Nat \ {0}
      /\ Len(Tail(todo)) = Len(todo) - 1 /\ Head(todo) = todo[1]
      /\ \A i \in 1 .. Len(Tail(todo)) : Tail(todo)[i] = todo[i + 1] /\ i + 1 \in 1 .. Len(todo)
  BY Rest DEF GpuInv, Common, Types
<1>2. todo[1].do \in {"alloc", "create", "ask"}
  BY <1>1 DEF Succeeds
<1>3. \/ live' = live /\ handles' = handles /\ todo[1].do = "ask"
      \/ /\ live' = live \cup {todo[1].res} /\ handles' = handles \cup {todo[1].res}
         /\ todo[1].do \in {"alloc", "create"}
  BY <1>1, <1>2 DEF Succeeds
<1>4. call \notin Ends /\ call # "none"
  BY <1>1, <1>2 DEF GpuInv, Stage, Tearing, Ends
<1>5. Types'
  BY <1>1 DEF Types, GpuInv, Common
<1>6. live' \subseteq handles'
  BY <1>3 DEF GpuInv, Common
<1>7. InOrder(todo)'
  BY <1>1, RestKeeps DEF GpuInv, Common
<1>8. Usable'
  <2>1. handles' \ live' \subseteq handles \ live
    BY <1>3
  <2> SUFFICES ASSUME NEW i \in 1 .. Len(todo'), todo'[i].do = "destroy"
               PROVE  Uses(todo'[i]) \cap (handles' \ live') \subseteq Excused
    BY DEF Usable, Excused
  <2>2. i + 1 \in 1 .. Len(todo) /\ todo'[i] = todo[i + 1]
    BY <1>1
  <2>3. Uses(todo[i + 1]) \cap (handles \ live) \subseteq Excused
    BY <2>2 DEF GpuInv, Common, Usable
  <2> QED BY <2>1, <2>2, <2>3
<1>9. misused' \subseteq Excused
  BY DEF Succeeds, GpuInv, Common
<1>10. Buffers'
  <2> SUFFICES ASSUME NEW r \in live', r.of = "gpu", r.name = "buffer"
               PROVE  Frame(r.n, "cmd_buff") \in handles'
    BY DEF Buffers, Frame
  <2>1. CASE r \in live
    BY <2>1, <1>3 DEF Buffers, GpuInv, Common
  <2>2. CASE r = todo[1].res /\ r \notin live
    <3>1. CASE call = "gpuCreate"
      <4>1. BlockFirst(todo, handles)
        BY <3>1 DEF GpuInv, Stage, Creating
      <4>2. Frame(r.n, "cmd_buff") \in handles
        BY <4>1, <2>2, <1>1, <1>2 DEF BlockFirst
      <4> QED BY <4>2, <1>3
    <3>2. CASE call \in Objects
      <4>1. todo[1].res \in Given(UnmakeSteps(call))
        BY <3>2, <2>2, <1>1, <1>2, <1>3 DEF GpuInv, Stage, Making, Unmaking
      <4> QED BY <4>1, <3>2, <2>2, UnmakeFacts, NamesApart
    <3> QED BY <1>4, <3>1, <3>2 DEF GpuInv, Common, Types, Calls, Ends
  <2> QED BY <2>1, <2>2, <1>3
<1>11. Common'
  BY <1>5, <1>6, <1>7, <1>8, <1>9, <1>10 DEF Common, Excused
<1> QED BY <1>1, <1>2, <1>3, <1>4, <1>11

LEMMA SucceedsStage ==
  ASSUME GpuInv, todo # << >>, Succeeds, todo' = Tail(todo), UNCHANGED <<call, made, failed>>
  PROVE  Stage'
<1>1. /\ call \notin Ends /\ call # "none" /\ todo[1].do # "destroy"
      /\ \/ live' = live /\ handles' = handles /\ todo[1].do = "ask"
         \/ /\ live' = live \cup {todo[1].res} /\ handles' = handles \cup {todo[1].res}
            /\ todo[1].do \in {"alloc", "create"}
      /\ Tail(todo) \in Seq(StepSet) /\ Len(todo) \in Nat \ {0}
      /\ Len(Tail(todo)) = Len(todo) - 1
      /\ \A i \in 1 .. Len(Tail(todo)) : Tail(todo)[i] = todo[i + 1] /\ i + 1 \in 1 .. Len(todo)
  BY SucceedsCommon
<1>2. /\ Whole /\ (call = "gpuCreate" => Creating)
      /\ (call \in Objects => Making(call) \/ Unmaking(call))
      /\ (call \in Objects => live \cap Scratch = {})
      /\ todo \in Seq(StepSet)
  BY <1>1, NamesApart DEF GpuInv, Common, Types, Stage, Ends
<1>3. CASE call = "gpuCreate"
  <2>1. CreatesKnown(todo) /\ FreesScratch(todo) /\ BlockFirst(todo, handles)
        /\ live \cap Scratch \subseteq Given(todo)
    BY <1>2, <1>3 DEF Creating
  <2>2. CreatesKnown(todo)' /\ FreesScratch(todo)'
    BY <1>2, <2>1, RestKeeps
  <2>3. BlockFirst(todo', handles')
    BY <1>1, <1>2, <2>1, RestBlockFirst
  <2>4. todo[1].do # "ask" => todo[1].res \in Torn \cup Left \cup Scratch
    BY <1>1, <2>1 DEF CreatesKnown
  <2>5. ASSUME todo[1].res \in Scratch
        PROVE  /\ todo[1].res \in Given(todo')
               /\ todo[1].res = Field("queue_family") =>
                    todo'[1].do = "destroy" /\ todo'[1].res = Field("queue_family")
    <3>1. PICK j \in 1 + 1 .. Len(todo) :
                 /\ todo[j].do = "destroy" /\ todo[j].res = todo[1].res
                 /\ todo[1].res = Field("queue_family") => j = 1 + 1
      BY <1>1, <2>1, <2>5 DEF FreesScratch
    <3>2. j - 1 \in 1 .. Len(todo') /\ todo'[j - 1] = todo[j]
      BY <1>1
    <3>3. todo[1].res \in Given(todo')
      BY <3>1, <3>2 DEF Given
    <3>4. todo[1].res = Field("queue_family") => j - 1 = 1
      BY <3>1
    <3> QED BY <3>1, <3>2, <3>3, <3>4
  <2>6. Given(todo') = Given(todo)
    BY <1>1, <1>2, RestGiven
  <2>7. live' \cap Scratch \subseteq Given(todo')
    BY <1>1, <2>1, <2>5, <2>6
  <2>8. Field("queue_family") \in live' =>
          todo'[1].do = "destroy" /\ todo'[1].res = Field("queue_family")
    <3>1. Field("queue_family") \notin live
      BY <1>1, <1>2, <1>3 DEF Creating
    <3>2. Field("queue_family") \in Scratch
      BY DEF Scratch
    <3> QED BY <1>1, <2>5, <3>1, <3>2
  <2>9. Creating'
    BY <2>2, <2>3, <2>7, <2>8 DEF Creating, Scratch, Lists, Field
  <2>10. Whole'
    BY <1>1, <1>2, <2>4 DEF Whole
  <2> QED BY <1>3, <2>9, <2>10, NamesApart DEF Stage, Ends
<1>4. CASE call \in Objects
  <2>1. Making(call)
    BY <1>1, <1>2, <1>4 DEF Unmaking
  <2>2. todo[1].do # "ask" => todo[1].res \in Given(UnmakeSteps(call)) /\ todo[1].res.of = call
    <3>1. todo[1].do # "ask" => todo[1].res \in Given(UnmakeSteps(call))
      BY <1>1, <2>1 DEF Making
    <3> QED BY <3>1, <1>4, UnmakeFacts
  <2>3. Making(call)'
    <3>1. \A i \in 1 .. Len(todo') :
             /\ todo'[i].do # "destroy"
             /\ todo'[i].do \in {"create", "alloc"} => todo'[i].res \in Given(UnmakeSteps(call))
      BY <1>1, <2>1 DEF Making
    <3>2. Part(call, "block") \in handles'
      BY <1>1, <2>1 DEF Making
    <3> QED BY <3>1, <3>2 DEF Making
  <2>4. Whole'
    BY <1>1, <1>2, <1>4, <2>2 DEF Whole
  <2>5. live' \cap Scratch = {}
    BY <1>1, <1>2, <1>4, <2>2, ScratchIs, NamesApart
  <2> QED BY <1>4, <2>3, <2>4, <2>5, NamesApart DEF Stage, Ends
<1> QED BY <1>1, <1>3, <1>4 DEF GpuInv, Common, Types, Calls, Ends

(* A step that destroys something, if it is there. *)
LEMMA DestroysCommon ==
  ASSUME GpuInv, todo # << >>, Destroys, todo' = Tail(todo), UNCHANGED <<call, made, failed>>
  PROVE  /\ Common'
         /\ todo[1].do = "destroy"
         /\ todo[1].res \notin live' /\ live' \subseteq live
         /\ \/ handles' = handles
            \/ todo[1].res.of # "gpu" /\ handles' = handles \ {todo[1].res}
         /\ handles' \ live' \subseteq (handles \ live) \cup Vanish(todo[1].res)
         /\ todo[1].res.of # "gpu" => handles' \ live' \subseteq handles \ live
         /\ Given(todo) = Given(todo') \cup {todo[1].res}
         /\ \A i \in 1 .. Len(todo') : todo'[i] = todo[i + 1] /\ i + 1 \in 1 .. Len(todo)
<1>1. /\ todo \in Seq(StepSet) /\ Tail(todo) \in Seq(StepSet) /\ Len(todo) \in Nat \ {0}
      /\ Head(todo) = todo[1]
      /\ \A i \in 1 .. Len(Tail(todo)) : Tail(todo)[i] = todo[i + 1] /\ i + 1 \in 1 .. Len(todo)
  BY Rest DEF GpuInv, Common, Types
<1> DEFINE r == todo[1].res
<1>2. todo[1].do = "destroy"
  BY <1>1 DEF Destroys
<1>3. \/ /\ IsThere(r)
         /\ misused' = misused \cup ((handles \cap Uses(todo[1])) \ live)
         /\ live' = live \ Vanish(r)
         /\ handles' = IF r.of = "gpu" THEN handles ELSE handles \ {r}
      \/ ~IsThere(r) /\ UNCHANGED <<misused, live, handles>>
  BY <1>1 DEF Destroys, Uses
<1> HIDE DEF r
<1>4. /\ live \subseteq handles /\ Usable /\ InOrder(todo) /\ Buffers
      /\ misused \subseteq Excused
  BY DEF GpuInv, Common
<1>5. r \notin live' /\ live' \subseteq live
  <2>1. CASE IsThere(r)
    BY <2>1, <1>3, VanishHas
  <2>2. CASE ~IsThere(r)
    <3>1. r \notin live
      BY <2>2, <1>4 DEF IsThere, Buffers
    <3> QED BY <2>2, <3>1, <1>3
  <2> QED BY <2>1, <2>2
<1>6. handles' = handles \/ (r.of # "gpu" /\ handles' = handles \ {r})
  BY <1>3
<1>7. handles' \ live' \subseteq (handles \ live) \cup Vanish(r)
  BY <1>3
<1>8. r.of # "gpu" => handles' \ live' \subseteq handles \ live
  BY <1>3, VanishHas
<1>9. Given(todo) = Given(todo') \cup {r}
  BY <1>1, <1>2, RestGiven DEF r
<1>10. Types'
  BY <1>1 DEF Types, GpuInv, Common
<1>11. live' \subseteq handles'
  BY <1>3, <1>4, <1>5
<1>12. InOrder(todo)'
  BY <1>1, <1>4, RestKeeps
<1>13. Usable'
  <2> SUFFICES ASSUME NEW i \in 1 .. Len(todo'), todo'[i].do = "destroy"
               PROVE  Uses(todo'[i]) \cap (handles' \ live') \subseteq Excused
    BY DEF Usable, Excused
  <2>1. i + 1 \in 1 .. Len(todo) /\ todo'[i] = todo[i + 1] /\ 1 \in 1 .. Len(todo) /\ 1 < i + 1
    BY <1>1
  <2>2. Uses(todo[i + 1]) \cap (handles \ live) \subseteq Excused
    BY <2>1, <1>4 DEF Usable
  <2>3. Uses(todo[i + 1]) \cap Vanish(r) \subseteq Excused
    BY <2>1, <1>2, <1>4 DEF InOrder, r
  <2> QED BY <1>7, <2>1, <2>2, <2>3
<1>14. misused' \subseteq Excused
  <2>1. Uses(todo[1]) \cap (handles \ live) \subseteq Excused
    BY <1>1, <1>2, <1>4 DEF Usable
  <2> QED BY <2>1, <1>3, <1>4
<1>15. Buffers'
  <2> SUFFICES ASSUME NEW b \in live', b.of = "gpu", b.name = "buffer"
               PROVE  Frame(b.n, "cmd_buff") \in handles'
    BY DEF Buffers, Frame
  <2>1. Frame(b.n, "cmd_buff") \in handles
    BY <1>4, <1>5 DEF Buffers
  <2>2. Frame(b.n, "cmd_buff").of = "gpu"
    BY DEF Frame
  <2> QED BY <2>1, <2>2, <1>6
<1>16. Common'
  BY <1>10, <1>11, <1>12, <1>13, <1>14, <1>15 DEF Common, Excused
<1> QED BY <1>1, <1>2, <1>5, <1>6, <1>7, <1>8, <1>9, <1>16 DEF r

LEMMA DestroysStage ==
  ASSUME GpuInv, todo # << >>, Destroys, todo' = Tail(todo), UNCHANGED <<call, made, failed>>
  PROVE  Stage'
<1> DEFINE r == todo[1].res
<1>1. /\ todo[1].do = "destroy"
      /\ r \notin live' /\ live' \subseteq live
      /\ handles' = handles \/ (r.of # "gpu" /\ handles' = handles \ {r})
      /\ handles' \ live' \subseteq (handles \ live) \cup Vanish(r)
      /\ r.of # "gpu" => handles' \ live' \subseteq handles \ live
      /\ Given(todo) = Given(todo') \cup {r}
      /\ \A i \in 1 .. Len(todo') : todo'[i] = todo[i + 1] /\ i + 1 \in 1 .. Len(todo)
  BY DestroysCommon
<1>2. /\ todo \in Seq(StepSet) /\ 1 \in 1 .. Len(todo)
      /\ call \in Objects \cup {"gpuCreate", "gpuDestroy"}
  BY Rest DEF GpuInv, Common, Stage, Types, Calls
<1>3. CASE call = "gpuCreate"
  <2>1. Whole /\ Creating
    BY <1>3 DEF GpuInv, Stage, Ends
  <2>2. CreatesKnown(todo)' /\ FreesScratch(todo)'
    BY <1>2, <2>1, RestKeeps DEF Creating
  <2>3. r \in Scratch /\ Vanish(r) = {r} /\ r.of = "gpu"
    BY <1>1, <1>2, <2>1, ScratchIs DEF Creating, CreatesKnown
  <2>4. BlockFirst(todo', handles')
    BY <1>1, <1>2, <2>1, <2>3, RestBlockFirst DEF Creating
  <2>5. live' \cap Scratch \subseteq Given(todo')
    BY <1>1, <2>1 DEF Creating
  <2>6. Field("queue_family") \notin live'
    BY <1>1, <2>1 DEF Creating
  <2>7. Creating'
    BY <2>2, <2>4, <2>5, <2>6 DEF Creating, Scratch, Lists, Field
  <2>8. Whole'
    BY <1>1, <2>1, <2>3 DEF Whole
  <2> QED BY <1>3, <2>7, <2>8, NamesApart DEF Stage, Ends
<1>4. CASE call \in Objects
  <2>1. Whole /\ live \cap Scratch = {} /\ (Making(call) \/ Unmaking(call))
    BY <1>4, NamesApart DEF GpuInv, Stage, Ends
  <2>2. Unmaking(call)
    BY <1>1, <1>2, <2>1 DEF Making
  <2>3. r.of = call /\ r.of # "gpu"
    BY <1>2, <1>4, <2>2, NamesApart DEF Unmaking
  <2>4. Unmaking(call)'
    <3>1. \A i \in 1 .. Len(todo') : todo'[i].do = "destroy" /\ todo'[i].res.of = call
      BY <1>1, <2>2 DEF Unmaking
    <3>2. \A p \in live' : p.of = call => p \in Given(todo')
      BY <1>1, <2>2 DEF Unmaking
    <3> QED BY <3>1, <3>2 DEF Unmaking
  <2>5. Whole'
    BY <1>1, <2>1, <2>3 DEF Whole
  <2>6. live' \cap Scratch = {}
    BY <1>1, <2>1
  <2> QED BY <1>4, <2>4, <2>5, <2>6, NamesApart DEF Stage, Ends
<1>5. CASE call = "gpuDestroy"
  <2>1. Tearing
    BY <1>5 DEF GpuInv, Stage, Ends
  <2>2. \A i \in 1 .. Len(todo') : todo'[i].do = "destroy" /\ todo'[i].res.of = "gpu"
    BY <1>1, <2>1 DEF Tearing
  <2>3. ASSUME NEW p \in live'
        PROVE  IF p.of = "gpu"
               THEN p \in Given(todo') \cup Left \cup (IF failed THEN Lists ELSE {})
               ELSE failed
    <3>1. p \in live /\ p # r
      BY <1>1
    <3> QED BY <1>1, <2>1, <3>1 DEF Tearing
  <2>4. Tearing'
    BY <2>2, <2>3 DEF Tearing, Left, Lists, Field
  <2> QED BY <1>5, <2>4, NamesApart DEF Stage, Ends
<1> QED BY <1>2, <1>3, <1>4, <1>5

-----------------------------------------------------------------------------
(* Calls that begin and end. *)

\* A list that needs no scratch list can be begun while the gpu is whole.
LEMMA BeginsCommon ==
  ASSUME Common, handles \ live \subseteq Scratch,
         todo' \in Seq(StepSet), InOrder(todo'), call' \in Calls, failed' \in BOOLEAN,
         \A i \in 1 .. Len(todo') : todo'[i].do = "destroy" => Uses(todo'[i]) \cap Scratch = {},
         UNCHANGED <<handles, live, misused>>
  PROVE  Common'
<1>1. Usable'
  <2> SUFFICES ASSUME NEW i \in 1 .. Len(todo'), todo'[i].do = "destroy"
               PROVE  Uses(todo'[i]) \cap (handles' \ live') \subseteq Excused
    BY DEF Usable, Excused
  <2> QED OBVIOUS
<1>2. Buffers'
  BY DEF Common, Buffers
<1>3. Types'
  BY DEF Common, Types
<1> QED BY <1>1, <1>2, <1>3 DEF Common, Excused

LEMMA InitGpuInv == Init => GpuInv
<1> SUFFICES ASSUME Init PROVE GpuInv
  OBVIOUS
<1> USE DEF Init
<1>1. Common
  BY CreateFacts DEF Common, Types, Calls, Usable, Buffers
<1>2. Creating
  BY CreateFacts, ScratchIs DEF Creating
<1>3. Whole
  BY DEF Whole
<1>4. Stage
  BY <1>2, <1>3, NamesApart DEF Stage, Ends
<1> QED BY <1>1, <1>4 DEF GpuInv

LEMMA GpuThings ==
  \A r \in Torn \cup Left \cup Scratch : r.of = "gpu"
BY DestroyFacts, ScratchIs DEF Torn, Given, Left, Field

LEMMA MakeGpuInv == ASSUME GpuInv, NEW o \in Objects, Make(o) PROVE GpuInv'
<1> USE DEF Make
<1>1. Whole /\ live \cap Scratch = {} /\ Common
  BY NamesApart DEF GpuInv, Stage, Ends
<1>2. InOrder(todo')
  BY MakeFacts DEF InOrder
<1>3. Common'
  BY <1>1, <1>2, MakeFacts, BeginsCommon DEF Whole, Calls, Common, Types
<1>4. \A r \in live' : r.of # o
  BY <1>1, GpuThings, NamesApart DEF Whole
<1>5. Making(o)'
  <2> todo' = MakeSteps(o)
    OBVIOUS
  <2> MakeSteps(o) # << >> /\ MakeSteps(o)[1] = Alloc(Part(o, "block"))
    BY MakeFacts
  <2>1. todo' # << >> /\ todo'[1].do = "alloc" /\ todo'[1].res = Part(o, "block")
    BY DEF Alloc
  <2>2. \A i \in 1 .. Len(todo') :
           /\ todo'[i].do # "destroy"
           /\ todo'[i].do \in {"create", "alloc"} => todo'[i].res \in Given(UnmakeSteps(o))
    BY MakeFacts
  <2> QED BY <1>4, <2>1, <2>2 DEF Making, Part
<1>6. Whole'
  BY <1>1, NamesApart DEF Whole
<1>7. Stage'
  BY <1>1, <1>5, <1>6, NamesApart DEF Stage, Ends
<1> QED BY <1>3, <1>7 DEF GpuInv

LEMMA UnmakeGpuInv == ASSUME GpuInv, NEW o \in Objects, Unmake(o) PROVE GpuInv'
<1> USE DEF Unmake
<1>1. Whole /\ live \cap Scratch = {} /\ Common
  BY NamesApart DEF GpuInv, Stage, Ends
<1>2. Common'
  BY <1>1, UnmakeFacts, BeginsCommon DEF Whole, Calls, Common, Types
<1>3. \A r \in live' : r.of = o => r \in Given(todo')
  BY <1>1, GpuThings, NamesApart DEF Whole
<1>4. Unmaking(o)'
  BY <1>3, UnmakeFacts DEF Unmaking
<1>5. Whole'
  BY <1>1, NamesApart DEF Whole
<1>6. Stage'
  BY <1>1, <1>4, <1>5, NamesApart DEF Stage, Ends
<1> QED BY <1>2, <1>6 DEF GpuInv

\* gpuDestroy begins: nothing that is left is forgotten but what is named.
LEMMA TearingBegins ==
  ASSUME GpuInv, Whole, call' = "gpuDestroy", todo' = DestroySteps, failed' \in BOOLEAN,
         UNCHANGED <<handles, live, made, misused>>, Field("queue_family") \notin live,
         ~failed' => made = {} /\ call \notin Objects /\ live \cap Scratch = {}
  PROVE  GpuInv'
<1>1. Common'
  BY DestroyFacts, BeginsCommon DEF GpuInv, Whole, Calls
<1>2. ASSUME NEW r \in live'
      PROVE  IF r.of = "gpu"
             THEN r \in Given(todo') \cup Left \cup (IF failed' THEN Lists ELSE {})
             ELSE failed'
  <2>1. \/ r \in Torn \cup Left \cup Scratch
        \/ r.of \in Objects /\ (r.of \in made \/ r.of = call)
    BY DEF Whole
  <2>2. CASE r \in Torn \cup Left \cup Scratch
    <3>1. r.of = "gpu"
      BY <2>2, GpuThings
    <3> QED BY <2>2, <3>1 DEF Torn, Scratch
  <2>3. CASE r.of \in Objects /\ (r.of \in made \/ r.of = call)
    BY <2>3, NamesApart
  <2> QED BY <2>1, <2>2, <2>3
<1>3. Tearing'
  BY <1>2, DestroyFacts DEF Tearing, Left, Lists, Field
<1>4. Stage'
  BY <1>3, NamesApart DEF Stage, Ends
<1> QED BY <1>1, <1>4 DEF GpuInv

LEMMA DestroyGpuInv == ASSUME GpuInv, gpuDestroy PROVE GpuInv'
<1>1. Whole /\ live \cap Scratch = {}
  BY NamesApart DEF GpuInv, Stage, Ends, gpuDestroy
<1>2. failed' \in BOOLEAN
  BY DEF GpuInv, Common, Types, gpuDestroy
<1>3. Field("queue_family") \notin live
  BY <1>1 DEF Scratch
<1> QED BY <1>1, <1>2, <1>3, TearingBegins, NamesApart DEF gpuDestroy

LEMMA ErrorGpuInv == ASSUME GpuInv, FrameFails \/ Fails PROVE GpuInv'
<1>1. gpuError /\ call \notin Ends /\ (call = "none" \/ todo[1].do # "destroy")
  <2>1. CASE FrameFails
    BY <2>1 DEF FrameFails, Ends
  <2>2. CASE Fails
    <3>1. todo[1].do # "destroy" /\ 1 \in 1 .. Len(todo) /\ gpuError
      BY <2>2, Rest DEF Fails, GpuInv, Common, Types
    <3> QED BY <2>2, <3>1 DEF GpuInv, Stage, Tearing, Fails, Ends
  <2> QED BY <2>1, <2>2
<1>2. Whole
  BY <1>1 DEF GpuInv, Stage
<1>3. Field("queue_family") \notin live
  <2>1. CASE call = "gpuCreate"
    BY <1>1, <2>1 DEF GpuInv, Stage, Creating
  <2>2. CASE call # "gpuCreate"
    BY <1>1, <2>2 DEF GpuInv, Stage, Ends, Scratch
  <2> QED BY <2>1, <2>2
<1> QED BY <1>1, <1>2, <1>3, TearingBegins DEF gpuError

LEMMA StepGpuInv == ASSUME GpuInv, Step PROVE GpuInv'
BY SucceedsCommon, SucceedsStage, DestroysCommon, DestroysStage DEF Step, GpuInv

LEMMA ReturnGpuInv == ASSUME GpuInv, Return PROVE GpuInv'
<1>1. /\ todo = << >> /\ call \in Objects \cup {"gpuCreate", "gpuDestroy"}
      /\ call' = IF call = "gpuDestroy" THEN "gone" ELSE "none"
      /\ UNCHANGED <<todo, handles, live, failed, misused>>
  BY DEF Return, GpuInv, Common, Types, Calls
<1>2. Common'
  BY <1>1 DEF GpuInv, Common, Types, Calls, Usable, Buffers, Excused
<1>3. Given(todo) = {}
  BY <1>1 DEF Given
<1>4. CASE call = "gpuDestroy"
  <2>1. Tearing'
    BY <1>1, <1>4 DEF GpuInv, Stage, Ends, Tearing, Left, Lists, Field
  <2>2. Stage'
    BY <1>1, <1>4, <2>1, NamesApart DEF Stage, Ends
  <2> QED BY <1>2, <2>2 DEF GpuInv
<1>5. CASE call # "gpuDestroy"
  <2>1. call \notin Ends /\ call' = "none" /\ Whole
    BY <1>1, <1>5, NamesApart DEF GpuInv, Stage, Ends
  <2>2. live \cap Scratch = {}
    BY <1>1, <1>3, <1>5, NamesApart DEF GpuInv, Stage, Ends, Creating
  <2>3. \A r \in live : r.of = call /\ call \in Objects => call \in made'
    <3>1. SUFFICES ASSUME NEW r \in live, r.of = call, call \in Objects PROVE call \in made'
      OBVIOUS
    <3>2. Making(call)
      BY <3>1, <1>3 DEF GpuInv, Stage, Unmaking
    <3>3. Part(call, "block") \in handles
      BY <1>1, <3>2 DEF Making
    <3> QED BY <3>1, <3>3 DEF Return
  <2>4. made \subseteq made'
    BY DEF Return
  <2>5. Whole'
    BY <1>1, <2>1, <2>3, <2>4 DEF Whole
  <2>6. Stage'
    BY <1>1, <2>1, <2>2, <2>5, NamesApart DEF Stage, Ends
  <2> QED BY <1>2, <2>6 DEF GpuInv
<1> QED BY <1>4, <1>5

LEMMA NextGpuInv == GpuInv /\ [Next]_vars => GpuInv'
<1> SUFFICES ASSUME GpuInv, [Next]_vars PROVE GpuInv'
  OBVIOUS
<1>1. CASE UNCHANGED vars
  <2>1. Common'
    BY <1>1 DEF vars, GpuInv, Common, Types, Usable, Buffers, Excused
  <2>2. Stage'
    BY <1>1 DEF vars, GpuInv, Stage, Tearing, Whole, Creating, Making, Unmaking, Ends,
                Left, Lists, Scratch, Field
  <2> QED BY <2>1, <2>2 DEF GpuInv
<1>2. CASE Next
  BY <1>2, MakeGpuInv, UnmakeGpuInv, DestroyGpuInv, ErrorGpuInv, StepGpuInv, ReturnGpuInv
     DEF Next
<1> QED BY <1>1, <1>2

THEOREM Inductive == Spec => []GpuInv
BY InitGpuInv, NextGpuInv, PTL DEF Spec

(* Where ever a call fails, tearing down uses nothing that is gone but the
   command pool and the buffers it took with it. *)
THEOREM NothingDead == Spec => []HandlesAlive
<1>1. GpuInv => HandlesAlive
  BY DEF GpuInv, Common, HandlesAlive, Excused
<1> QED BY <1>1, Inductive, PTL

(* A gpu that is gone leaves its instance and its render pass; one that failed
   what its caller held or was making, and two lists. *)
THEOREM NothingElseLeft == Spec => []OnlyForgottenLeft
<1>1. GpuInv => OnlyForgottenLeft
  <2> SUFFICES ASSUME GpuInv, call = "gone", NEW r \in live
               PROVE  \/ r \in {Field("inst"), Field("render_pass")}
                      \/ /\ failed
                         /\ r.of # "gpu" \/ r \in {Field("phys_devices"), Field("images")}
    BY DEF OnlyForgottenLeft
  <2>1. Tearing /\ Given(todo) = {}
    BY DEF GpuInv, Stage, Ends, Given
  <2> QED BY <2>1 DEF Tearing, Left, Lists
<1> QED BY <1>1, Inductive, PTL
=============================================================================
