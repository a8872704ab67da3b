------------------------------- MODULE MCKlog ------------------------------
(***************************************************************************)
(* Two threads and two items; levels silent and two others.                *)
(***************************************************************************)
EXTENDS Klog
=============================================================================
