-------------------------------- MODULE MCGpu --------------------------------
(* Values for model checking Gpu: one object of each kind, and a second descriptor set. *)
EXTENDS Gpu

CONSTANTS shader, pipeline, mesh, uniform, set1, set2

TheObjects == {shader, pipeline, mesh, uniform, set1, set2}
TheKinds ==
  [o \in TheObjects |->
     CASE o = shader -> "shader" [] o = pipeline -> "pipeline" [] o = mesh -> "mesh"
       [] o = uniform -> "uniform_buffer" [] OTHER -> "descriptor"]
TheNeeds ==
  [o \in TheObjects |->
     CASE o = pipeline -> {shader} [] o \in {set1, set2} -> {shader, uniform} [] OTHER -> {}]
=============================================================================
