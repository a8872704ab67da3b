----------------------------- MODULE MCNosUsers ----------------------------
(***************************************************************************)
(* Two CPUs, two users in one bucket.                                      *)
(***************************************************************************)
EXTENDS NosUsers
=============================================================================
