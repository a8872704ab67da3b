--------------------------- MODULE MCNtrackModule --------------------------
(***************************************************************************)
(* One sender and two packets through the life of the module.  Three       *)
(* blocks are the old rules, the new ones and one that a failed parse or   *)
(* an earlier life of the module left behind.                              *)
(***************************************************************************)
EXTENDS NtrackModule
=============================================================================
