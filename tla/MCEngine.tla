------------------------------ MODULE MCEngine ------------------------------
(* Values for model checking Engine, with a heap that grows by 2 MB as in main. *)
EXTENDS Engine

CONSTANT file

TheWorkers == {file}
AllThreads == {main, file, render}
TwoMB      == 2 * 1024 * 1024
TheSizes   == {1024 * 1024}
=============================================================================
