---------------------------- MODULE MCNmsgQueue ----------------------------
(***************************************************************************)
(* Small instances of the message queue.  With MaxCount = 1 two CPUs can   *)
(* fill the list to MaxCount + 2 nodes; a fourth node is there so that a   *)
(* longer list would show.  A ring of one message is full most of the      *)
(* time, so losing messages there is exercised.                            *)
(***************************************************************************)
EXTENDS NmsgQueue
=============================================================================
