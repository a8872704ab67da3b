------------------------------ MODULE MCAttach -----------------------------
(***************************************************************************)
(* A router with three cores and 200 kilobytes of message memory.          *)
(***************************************************************************)
EXTENDS Attach
=============================================================================
