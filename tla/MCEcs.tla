-------------------------------- MODULE MCEcs --------------------------------
(* Values for model checking Ecs: the component types and masks of scene.c. *)
EXTENDS Ecs

transform == 0
camera    == 1
model     == 2
name      == 3

\* What spawnCamera adds, and what drawModels asks for.
SceneMasks == {{camera, name}, {camera}, {transform, model}}
TwoMasks   == {{transform}, {camera}}
EmptyMask  == {{}}
AnyMask    == {{}, {camera}}
Fresh      == {INACTIVE}
AnyInt     == {-1, INACTIVE, ADD}
NoData     == {"NULL"}
AnyData    == {"NULL", "wild"}
=============================================================================
