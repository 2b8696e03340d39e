--------------------------- MODULE MCK8sCollector ---------------------------
(***************************************************************************)
(* Three tasks for a pool of two: a typed task that tolerates NotFound and *)
(* two tasks that append to the shared slice.                              *)
(***************************************************************************)
EXTENDS K8sCollector

MCAppendTasks == {2, 3}
MCNotFoundIsFine == {1, 2, 3}
=============================================================================
