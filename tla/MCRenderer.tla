----------------------------- MODULE MCRenderer -----------------------------
(* Values for model checking Renderer: two models that share their mesh. *)
EXTENDS Renderer

CONSTANTS e1, e2, cube, s1, s2

TwoModels == {[entity |-> e1, mesh |-> cube, shader |-> s1],
              [entity |-> e2, mesh |-> cube, shader |-> s2]}
NoFailure == {}
AnyFailure == {"create", "frame", "draw", "map"}
=============================================================================
